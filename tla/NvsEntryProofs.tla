---------------------------- MODULE NvsEntryProofs ----------------------------
(***************************************************************************)
(* The entries of a page, for every value of the constants: that they are  *)
(* used from the first on without a gap, and that mFirstUsedEntry, which   *)
(* findItem() and copyItems() start from, is the first in use; that        *)
(* nothing is written over data, and that the entries in use are counted.  *)
(* Then the moving of items to a new page: that a page is erased when its  *)
(* items are on another one, that there is room for them there, and that   *)
(* load() can always complete a move that was cut off.                     *)
(***************************************************************************)
EXTENDS NvsStorageProofs

USE DEF Loading, LoadPC, MovePC, StoragePC, WritePC, Booting, Goto

(***************************************************************************)
(* The strengthening.  Entries are used without a gap (Prefix), none of a  *)
(* blank sector; what a Page object has of a page that belongs in the list *)
(* is right (Tracked), and it has nothing of any other (Untracked); an     *)
(* entry is written on a page of the former kind, or there is no room for  *)
(* it (Writable).                                                          *)
(***************************************************************************)
Prefix == \A p \in Sector : \A i, j \in Index :
  i < j /\ entryTable[p][j] # "EMPTY" => entryTable[p][i] # "EMPTY"

BlankUnused == \A p \in Sector : header[p] = "UNINITIALIZED" =>
  \A i \in Index : entryTable[p][i] = "EMPTY"

Tracked == \A p \in Sector : HasSeq(mState[p]) => \A i \in Index :
  /\ entryTable[p][i] = "WRITTEN" => i < mNextFreeEntry[p]
  /\ mNextFreeEntry[p] # INVALID_ENTRY /\ i < mNextFreeEntry[p] => entryTable[p][i] # "EMPTY"

Untracked ==
  /\ \A p \in Sector : p > loadIndex \/ (pc = "load" /\ p = loadIndex) =>
       mNextFreeEntry[p] = INVALID_ENTRY /\ mFirstUsedEntry[p] = INVALID_ENTRY
  /\ pc = "insert" /\ ~HasSeq(mState[loadIndex]) => mNextFreeEntry[loadIndex] = INVALID_ENTRY
  /\ \A p \in Free : mNextFreeEntry[p] = INVALID_ENTRY
  /\ \A p \in Sector : mState[p] = "UNINITIALIZED" => mFirstUsedEntry[p] = INVALID_ENTRY

Writable ==
  /\ \A p \in InUse : mState[p] # "CORRUPT"
  /\ pc = "repair" => header[loadIndex] = "ACTIVE"
  /\ pc \in {"data", "state", "copyState"} => HasSeq(mState[Back])
  /\ pc \in {"freeing", "copy", "copyData"} => HasSeq(mState[Back]) \/ NoRoom(Back)

EntryInv == Prefix /\ BlankUnused /\ Tracked /\ Untracked /\ Writable /\ FirstUsedExact

\* What the steps below need of the types.
LEMMA EntryTypes ==
  ASSUME Inv
  PROVE  /\ entryTable \in [Sector -> [Index -> EntryState]]
         /\ mNextFreeEntry \in [Sector -> Nat]
         /\ mFirstUsedEntry \in [Sector -> Index \cup {INVALID_ENTRY}]
         /\ mState \in [Sector -> PageState] /\ header \in [Sector -> HeaderState]
         /\ \A p \in Sector : Written(p) \in SUBSET Nat /\ Written(p) \subseteq Index
         /\ \A i \in Index : i \in Nat /\ i < INVALID_ENTRY /\ i + 1 < INVALID_ENTRY
         /\ INVALID_ENTRY \in Nat /\ INVALID_ENTRY \notin Index
<1>1. \A p \in Sector : Written(p) \in SUBSET Nat /\ Written(p) \subseteq Index
  BY WrittenFinite
<1>2. \A i \in Index : i \in Nat /\ i < INVALID_ENTRY /\ i + 1 < INVALID_ENTRY
  BY EntryCountAssumption DEF Index, INVALID_ENTRY
<1> QED
  BY <1>1, <1>2, EntryNat DEF Inv, TypeOK, PageTypeOK

\* A least element is what LeastOr returns.
LEMMA LeastUnique ==
  ASSUME NEW S \in SUBSET Nat, NEW default, NEW m \in S, \A y \in S : m <= y
  PROVE  LeastOr(S, default) = m
<1>1. LeastOr(S, default) \in S /\ LeastOr(S, default) <= m
  BY LeastOrProperty
<1>2. m <= LeastOr(S, default)
  BY <1>1
<1>3. m \in Nat /\ LeastOr(S, default) \in Nat
  BY <1>1
<1> QED
  BY <1>1, <1>2, <1>3

\* The entries in use are read off the table.
LEMMA WrittenSame ==
  ASSUME NEW p, entryTable'[p] = entryTable[p]
  PROVE  Written(p)' = Written(p)
BY DEF Written

\* Steps that leave the entries and what is known of them alone.
LEMMA SameEntries ==
  ASSUME EntryInv,
         UNCHANGED <<header, entryTable, mState, mNextFreeEntry, mFirstUsedEntry,
                     mPageList, mFreePageList, loadIndex>>,
         pc' \in {"load", "repair"} => pc' = pc,
         pc' = "insert" => pc = "insert" \/ HasSeq(mState[loadIndex]),
         pc' \in {"data", "state", "copyState"} =>
           pc \in {"data", "state", "copyState"} \/ HasSeq(mState[Back]),
         pc' \in {"freeing", "copy", "copyData"} =>
           pc \in {"freeing", "copy", "copyData"} \/ HasSeq(mState[Back]) \/ NoRoom(Back)
  PROVE  EntryInv'
<1> USE DEF EntryInv
<1>1. InUse' = InUse /\ Free' = Free /\ Back' = Back /\ (NoRoom(Back))' = NoRoom(Back)
  BY DEF InUse, Free, Back, NoRoom
<1>2. \A p \in Sector : Written(p)' = Written(p)
  BY WrittenSame
<1>3. Prefix' /\ BlankUnused' /\ Tracked'
  BY DEF Prefix, BlankUnused, Tracked
<1>4. Untracked'
  BY <1>1 DEF Untracked
<1>5. Writable'
  BY <1>1 DEF Writable
<1>6. FirstUsedExact'
  BY <1>2 DEF FirstUsedExact
<1> QED
  BY <1>3, <1>4, <1>5, <1>6

-----------------------------------------------------------------------------
(* The operations on a page. *)

\* Page::load() finds the first entry in use and the first that is empty.
LEMMA LoadPageEntries ==
  ASSUME Inv, EntryInv, NEW p \in Sector, LoadPage(p)
  PROVE  Prefix' /\ BlankUnused' /\ Tracked' /\ FirstUsedExact'
<1> USE DEF EntryInv, LoadPage, flashVars
<1>1. Prefix' /\ BlankUnused'
  BY DEF Prefix, BlankUnused
<1>2. \A q \in Sector : Written(q)' = Written(q)
  BY WrittenSame
<1>3. \A q \in Sector : q # p => /\ mState'[q] = mState[q] /\ mNextFreeEntry'[q] = mNextFreeEntry[q]
                                 /\ mFirstUsedEntry'[q] = mFirstUsedEntry[q]
  BY EntryTypes
<1>4. mState'[p] = header[p] /\ entryTable' = entryTable
  BY EntryTypes
<1>5. HasSeq(header[p]) => mFirstUsedEntry'[p] = LeastOr(Written(p), INVALID_ENTRY)
  BY EntryTypes
<1> DEFINE E == {i \in Index : entryTable[p][i] = "EMPTY"}
           n == LeastOr(E, INVALID_ENTRY)
<1>6. HasSeq(header[p]) => mNextFreeEntry'[p] \in {n, INVALID_ENTRY}
  BY EntryTypes
<1> HIDE DEF LoadPage
<1>7. E \in SUBSET Nat
  BY EntryTypes
<1>8. (E = {} => n = INVALID_ENTRY) /\ (E # {} => n \in E /\ \A y \in E : n <= y)
  BY <1>7, LeastOrProperty
<1> HIDE DEF n
<1>9. \A i \in Index : /\ entryTable[p][i] = "WRITTEN" => i < n
                       /\ n # INVALID_ENTRY /\ i < n => entryTable[p][i] # "EMPTY"
  <2> SUFFICES ASSUME NEW i \in Index
               PROVE  /\ entryTable[p][i] = "WRITTEN" => i < n
                      /\ n # INVALID_ENTRY /\ i < n => entryTable[p][i] # "EMPTY"
    OBVIOUS
  <2>1. i \in Nat /\ i < INVALID_ENTRY
    BY EntryTypes
  <2>2. CASE E = {}
    BY <1>8, <2>1, <2>2
  <2>3. CASE E # {}
    <3>1. n \in Index /\ n \in Nat /\ entryTable[p][n] = "EMPTY" /\ \A y \in E : n <= y
      BY <1>8, <2>3, EntryTypes
    <3>2. i < n => i \notin E
      BY <2>1, <3>1
    <3>3. entryTable[p][i] = "WRITTEN" => ~ (n < i) /\ n # i
      BY <3>1 DEF Prefix
    <3> QED
      BY <2>1, <3>1, <3>2, <3>3
  <2> QED
    BY <2>2, <2>3
<1>10. Tracked'
  BY <1>3, <1>4, <1>6, <1>9, EntryTypes DEF Tracked
<1>11. FirstUsedExact'
  BY <1>2, <1>3, <1>4, <1>5 DEF FirstUsedExact
<1> QED
  BY <1>1, <1>10, <1>11

\* An entry that is marked written is the last one, and the first if there was none.
LEMMA WriteEntryStateEntries ==
  ASSUME Inv, OrderInv, EntryInv, NEW p \in Sector, HasSeq(mState[p]), ~NoRoom(p),
         WriteEntryState(p)
  PROVE  Prefix' /\ BlankUnused' /\ Tracked' /\ FirstUsedExact'
<1> USE DEF EntryInv
<1> DEFINE n == mNextFreeEntry[p]
<1>1. n \in Index /\ n \in Nat /\ n # INVALID_ENTRY
  BY EntryTypes, EntryCountAssumption DEF NoRoom, Index, INVALID_ENTRY
<1>2. /\ \A q \in Sector, i \in Index : entryTable'[q][i] =
           IF q = p /\ i = n THEN "WRITTEN" ELSE entryTable[q][i]
      /\ \A q \in Sector : q # p => entryTable'[q] = entryTable[q]
  BY <1>1, EntryTypes DEF WriteEntryState
<1>3. /\ mNextFreeEntry'[p] = n + 1
      /\ mFirstUsedEntry'[p] = IF mFirstUsedEntry[p] = INVALID_ENTRY THEN n ELSE mFirstUsedEntry[p]
      /\ \A q \in Sector : q # p => /\ mNextFreeEntry'[q] = mNextFreeEntry[q]
                                    /\ mFirstUsedEntry'[q] = mFirstUsedEntry[q]
      /\ UNCHANGED <<header, mState>>
  BY EntryTypes DEF WriteEntryState
<1>4. header[p] # "UNINITIALIZED"
  BY DEF OrderInv, Agree, HasSeq
<1>5. \A i \in Index : /\ entryTable[p][i] = "WRITTEN" => i < n
                       /\ i < n => entryTable[p][i] # "EMPTY"
  BY <1>1 DEF Tracked
<1> HIDE DEF n
<1>6. Prefix'
  <2> SUFFICES ASSUME NEW q \in Sector, NEW i \in Index, NEW j \in Index, i < j,
                      entryTable'[q][j] # "EMPTY"
               PROVE  entryTable'[q][i] # "EMPTY"
    BY DEF Prefix
  <2>1. CASE q = p /\ j = n
    BY <1>2, <1>5, <2>1
  <2>2. CASE ~(q = p /\ j = n)
    <3>1. entryTable[q][i] # "EMPTY"
      BY <1>2, <2>2 DEF Prefix
    <3> QED
      BY <1>2, <3>1
  <2> QED
    BY <2>1, <2>2
<1>7. BlankUnused'
  BY <1>2, <1>3, <1>4 DEF BlankUnused
<1>8. Tracked'
  <2> SUFFICES ASSUME NEW q \in Sector, HasSeq(mState[q]), NEW i \in Index
               PROVE  /\ entryTable'[q][i] = "WRITTEN" => i < mNextFreeEntry'[q]
                      /\ mNextFreeEntry'[q] # INVALID_ENTRY /\ i < mNextFreeEntry'[q] =>
                           entryTable'[q][i] # "EMPTY"
    BY <1>3 DEF Tracked, HasSeq
  <2>1. CASE q # p
    BY <1>2, <1>3, <2>1 DEF Tracked
  <2>2. CASE q = p
    <3>1. i \in Nat
      BY EntryTypes
    <3> QED
      BY <1>1, <1>2, <1>3, <1>5, <2>2, <3>1
  <2> QED
    BY <2>1, <2>2
<1>9. Written(p)' = Written(p) \cup {n}
  BY <1>1, <1>2 DEF Written
<1>10. mFirstUsedEntry'[p] = LeastOr(Written(p)', INVALID_ENTRY)
  <2>1. mFirstUsedEntry[p] = LeastOr(Written(p), INVALID_ENTRY)
    BY DEF FirstUsedExact
  <2>2. Written(p) \in SUBSET Nat /\ Written(p) \subseteq Index
    BY EntryTypes
  <2>3. \A i \in Written(p) : i < n
    BY <1>5 DEF Written
  <2>4. CASE Written(p) = {}
    <3>1. mFirstUsedEntry'[p] = n
      BY <1>3, <2>1, <2>2, <2>4, LeastOrProperty
    <3>2. LeastOr({n}, INVALID_ENTRY) = n
      BY <1>1, LeastUnique
    <3> QED
      BY <1>9, <2>4, <3>1, <3>2
  <2>5. CASE Written(p) # {}
    <3> DEFINE m == mFirstUsedEntry[p]
    <3>1. m \in Written(p) /\ \A y \in Written(p) : m <= y
      BY <2>1, <2>2, <2>5, LeastOrProperty
    <3>2. m # INVALID_ENTRY /\ m \in Nat /\ m < n
      BY <2>2, <2>3, <3>1, EntryTypes
    <3>3. mFirstUsedEntry'[p] = m
      BY <1>3, <3>2
    <3> HIDE DEF m
    <3> DEFINE S == Written(p) \cup {n}
    <3>4. S \in SUBSET Nat /\ m \in S /\ \A y \in S : m <= y
      BY <1>1, <2>2, <3>1, <3>2
    <3> HIDE DEF S
    <3>5. LeastOr(S, INVALID_ENTRY) = m
      BY <3>4, LeastUnique
    <3> QED
      BY <1>9, <3>3, <3>5 DEF S
  <2> QED
    BY <2>4, <2>5
<1>11. FirstUsedExact'
  <2>1. \A q \in Sector : q # p => Written(q)' = Written(q)
    BY <1>2, WrittenSame
  <2> QED
    BY <1>3, <1>10, <2>1 DEF FirstUsedExact
<1> QED
  BY <1>6, <1>7, <1>8, <1>11

\* When an entry is erased the next one in use becomes the first.
LEMMA EraseEntryEntries ==
  ASSUME Inv, OrderInv, EntryInv, NEW p \in Sector, HasSeq(mState[p]), NEW e \in Written(p),
         EraseEntry(p, e)
  PROVE  /\ Prefix' /\ BlankUnused' /\ Tracked' /\ FirstUsedExact'
         /\ UNCHANGED <<header, mState, mNextFreeEntry>>
         /\ \A q \in Sector : q # p => mFirstUsedEntry'[q] = mFirstUsedEntry[q]
<1> USE DEF EntryInv
<1>1. e \in Index /\ e \in Nat /\ entryTable[p][e] = "WRITTEN"
  BY EntryTypes DEF Written
<1>2. /\ \A q \in Sector, i \in Index : entryTable'[q][i] =
           IF q = p /\ i = e THEN "ERASED" ELSE entryTable[q][i]
      /\ \A q \in Sector : q # p => entryTable'[q] = entryTable[q]
  BY <1>1, EntryTypes DEF EraseEntry
<1>3. /\ mFirstUsedEntry'[p] = IF mFirstUsedEntry[p] = e THEN NextUsedEntry(p, e) ELSE mFirstUsedEntry[p]
      /\ \A q \in Sector : q # p => mFirstUsedEntry'[q] = mFirstUsedEntry[q]
      /\ UNCHANGED <<header, mState>>
  BY EntryTypes DEF EraseEntry
<1>4. mNextFreeEntry' = mNextFreeEntry
  <2>1. e < mNextFreeEntry[p] /\ mNextFreeEntry[p] \in Nat
    BY <1>1, EntryTypes DEF Tracked
  <2>2. ~ (e + 1 > mNextFreeEntry[p])
    BY <1>1, <2>1
  <2>3. mNextFreeEntry' = [mNextFreeEntry EXCEPT ![p] = mNextFreeEntry[p]]
    BY <2>2 DEF EraseEntry
  <2> QED
    BY <2>3, EntryTypes
<1>5. Prefix'
  BY <1>1, <1>2 DEF Prefix
<1>6. BlankUnused'
  BY <1>1, <1>2, <1>3 DEF BlankUnused
<1>7. Tracked'
  BY <1>2, <1>3, <1>4 DEF Tracked
<1>8. Written(p)' = Written(p) \ {e}
  BY <1>2, EntryTypes DEF Written
<1>9. mFirstUsedEntry'[p] = LeastOr(Written(p)', INVALID_ENTRY)
  <2>1. mFirstUsedEntry[p] = LeastOr(Written(p), INVALID_ENTRY)
    BY DEF FirstUsedExact
  <2>2. Written(p) \in SUBSET Nat
    BY EntryTypes
  <2>3. mFirstUsedEntry[p] \in Written(p) /\ \A y \in Written(p) : mFirstUsedEntry[p] <= y
    BY <2>1, <2>2, LeastOrProperty
  <2>4. CASE mFirstUsedEntry[p] = e
    <3>1. {j \in Written(p) : e < j /\ j < mNextFreeEntry[p]} = Written(p) \ {e}
      BY <1>1, <2>2, <2>3, <2>4, EntryTypes DEF Tracked, Written
    <3> QED
      BY <1>3, <1>8, <2>4, <3>1 DEF NextUsedEntry
  <2>5. CASE mFirstUsedEntry[p] # e
    <3> DEFINE m == mFirstUsedEntry[p]
               S == Written(p) \ {e}
    <3>1. S \in SUBSET Nat /\ m \in S /\ \A y \in S : m <= y
      BY <2>2, <2>3, <2>5
    <3> HIDE DEF m, S
    <3>2. LeastOr(S, INVALID_ENTRY) = m
      BY <3>1, LeastUnique
    <3> QED
      BY <1>3, <1>8, <2>5, <3>2 DEF S, m
  <2> QED
    BY <2>4, <2>5
<1>10. FirstUsedExact'
  <2>1. \A q \in Sector : q # p => Written(q)' = Written(q)
    BY <1>2, WrittenSame
  <2> QED
    BY <1>3, <1>9, <2>1 DEF FirstUsedExact
<1> QED
  BY <1>3, <1>4, <1>5, <1>6, <1>7, <1>10

\* A sector that is erased has no entries, and nothing is known of it.
LEMMA ErasePageEntries ==
  ASSUME Inv, EntryInv, NEW p \in Sector, ErasePage(p)
  PROVE  /\ Prefix' /\ BlankUnused' /\ Tracked' /\ FirstUsedExact'
         /\ mState'[p] = "UNINITIALIZED"
         /\ mNextFreeEntry'[p] = INVALID_ENTRY /\ mFirstUsedEntry'[p] = INVALID_ENTRY
         /\ \A q \in Sector : q # p => /\ mState'[q] = mState[q]
                                       /\ mNextFreeEntry'[q] = mNextFreeEntry[q]
                                       /\ mFirstUsedEntry'[q] = mFirstUsedEntry[q]
<1> USE DEF EntryInv
<1>1. /\ mState'[p] = "UNINITIALIZED"
      /\ mNextFreeEntry'[p] = INVALID_ENTRY /\ mFirstUsedEntry'[p] = INVALID_ENTRY
      /\ \A i \in Index : entryTable'[p][i] = "EMPTY"
      /\ \A q \in Sector : q # p => /\ mState'[q] = mState[q] /\ header'[q] = header[q]
                                    /\ mNextFreeEntry'[q] = mNextFreeEntry[q]
                                    /\ mFirstUsedEntry'[q] = mFirstUsedEntry[q]
                                    /\ entryTable'[q] = entryTable[q]
  BY EntryTypes DEF ErasePage, SectorErased
<1>2. Prefix' /\ BlankUnused' /\ Tracked'
  BY <1>1 DEF Prefix, BlankUnused, Tracked, HasSeq
<1>3. \A q \in Sector : q # p => Written(q)' = Written(q)
  BY <1>1, WrittenSame
<1>4. FirstUsedExact'
  BY <1>1, <1>3 DEF FirstUsedExact, HasSeq
<1> QED
  BY <1>1, <1>2, <1>4

\* A half-written entry is discarded: it was not in use.
LEMMA ClearHalfWrittenEntries ==
  ASSUME Inv, OrderInv, EntryInv, NEW p \in Sector, HasSeq(mState[p]), HalfWritten(p),
         ClearHalfWritten(p)
  PROVE  /\ Prefix' /\ BlankUnused' /\ Tracked' /\ FirstUsedExact'
         /\ UNCHANGED <<header, mState, mFirstUsedEntry>>
         /\ \A q \in Sector : q # p => mNextFreeEntry'[q] = mNextFreeEntry[q]
<1> USE DEF EntryInv
<1> DEFINE n == mNextFreeEntry[p]
<1>1. n \in Index /\ n \in Nat /\ n # INVALID_ENTRY
  BY EntryTypes DEF HalfWritten
<1>2. /\ \A q \in Sector, i \in Index : entryTable'[q][i] =
           IF q = p /\ i = n THEN "ERASED" ELSE entryTable[q][i]
      /\ \A q \in Sector : q # p => entryTable'[q] = entryTable[q]
  BY <1>1, EntryTypes DEF ClearHalfWritten
<1>3. /\ mNextFreeEntry'[p] = n + 1
      /\ \A q \in Sector : q # p => mNextFreeEntry'[q] = mNextFreeEntry[q]
      /\ UNCHANGED <<header, mState, mFirstUsedEntry>>
  BY EntryTypes DEF ClearHalfWritten
<1>4. header[p] # "UNINITIALIZED"
  BY DEF OrderInv, Agree, HasSeq
<1>5. \A i \in Index : /\ entryTable[p][i] = "WRITTEN" => i < n
                       /\ i < n => entryTable[p][i] # "EMPTY"
  BY <1>1 DEF Tracked
<1> HIDE DEF n
<1>6. Prefix'
  <2> SUFFICES ASSUME NEW q \in Sector, NEW i \in Index, NEW j \in Index, i < j,
                      entryTable'[q][j] # "EMPTY"
               PROVE  entryTable'[q][i] # "EMPTY"
    BY DEF Prefix
  <2>1. CASE q = p /\ j = n
    BY <1>2, <1>5, <2>1
  <2>2. CASE ~(q = p /\ j = n)
    <3>1. entryTable[q][i] # "EMPTY"
      BY <1>2, <2>2 DEF Prefix
    <3> QED
      BY <1>2, <3>1
  <2> QED
    BY <2>1, <2>2
<1>7. BlankUnused'
  BY <1>2, <1>3, <1>4 DEF BlankUnused
<1>8. Tracked'
  <2> SUFFICES ASSUME NEW q \in Sector, HasSeq(mState[q]), NEW i \in Index
               PROVE  /\ entryTable'[q][i] = "WRITTEN" => i < mNextFreeEntry'[q]
                      /\ mNextFreeEntry'[q] # INVALID_ENTRY /\ i < mNextFreeEntry'[q] =>
                           entryTable'[q][i] # "EMPTY"
    BY <1>3 DEF Tracked, HasSeq
  <2>1. CASE q # p
    BY <1>2, <1>3, <2>1 DEF Tracked
  <2>2. CASE q = p
    <3>1. i \in Nat
      BY EntryTypes
    <3> QED
      BY <1>1, <1>2, <1>3, <1>5, <2>2, <3>1
  <2> QED
    BY <2>1, <2>2
<1>9. \A q \in Sector : Written(q)' = Written(q)
  <2>1. \A i \in Index : entryTable[p][i] = "WRITTEN" => i # n
    BY <1>1, <1>5
  <2>2. Written(p)' = Written(p)
    BY <1>2, <2>1 DEF Written
  <2> QED
    BY <1>2, <2>2, WrittenSame
<1>10. FirstUsedExact'
  BY <1>3, <1>9 DEF FirstUsedExact
<1> QED
  BY <1>3, <1>6, <1>7, <1>8, <1>10

\* A page that gets its header is blank.
LEMMA InitializeEntries ==
  ASSUME Inv, OrderInv, EntryInv, NEW p \in Sector, mState[p] = "UNINITIALIZED", Initialize(p)
  PROVE  /\ Prefix' /\ BlankUnused' /\ Tracked' /\ FirstUsedExact'
         /\ mState'[p] = "ACTIVE" /\ UNCHANGED mFirstUsedEntry
         /\ \A q \in Sector : q # p => /\ mState'[q] = mState[q] /\ header'[q] = header[q]
                                       /\ mNextFreeEntry'[q] = mNextFreeEntry[q]
<1> USE DEF EntryInv
<1>1. /\ header'[p] = "ACTIVE" /\ mState'[p] = "ACTIVE" /\ mNextFreeEntry'[p] = 0
      /\ UNCHANGED <<entryTable, mFirstUsedEntry>>
      /\ \A q \in Sector : q # p => /\ mState'[q] = mState[q] /\ header'[q] = header[q]
                                    /\ mNextFreeEntry'[q] = mNextFreeEntry[q]
  BY EntryTypes DEF Initialize
<1>2. header[p] = "UNINITIALIZED"
  BY DEF OrderInv, Agree
<1>3. \A i \in Index : entryTable[p][i] = "EMPTY" /\ ~ (i < 0)
  BY <1>2, EntryTypes DEF BlankUnused
<1>4. Prefix' /\ BlankUnused' /\ Tracked'
  BY <1>1, <1>3 DEF Prefix, BlankUnused, Tracked
<1>5. \A q \in Sector : Written(q)' = Written(q)
  BY <1>1, WrittenSame
<1>6. mFirstUsedEntry[p] = LeastOr(Written(p), INVALID_ENTRY)
  <2>1. Written(p) = {}
    BY <1>3 DEF Written
  <2>2. mFirstUsedEntry[p] = INVALID_ENTRY
    BY DEF Untracked
  <2> QED
    BY <2>1, <2>2 DEF LeastOr
<1>7. FirstUsedExact'
  BY <1>1, <1>5, <1>6 DEF FirstUsedExact
<1> QED
  BY <1>1, <1>4, <1>7

\* markFull() and markFreeing() change no entry.
LEMMA AlterPageStateEntries ==
  ASSUME Inv, EntryInv, NEW p \in Sector, mState[p] \in {"FULL", "ACTIVE"},
         NEW state \in {"FULL", "FREEING"}, AlterPageState(p, state)
  PROVE  /\ Prefix' /\ BlankUnused' /\ Tracked' /\ FirstUsedExact'
         /\ UNCHANGED <<mNextFreeEntry, mFirstUsedEntry>> /\ HasSeq(mState'[p])
         /\ \A q \in Sector : q # p => mState'[q] = mState[q]
<1> USE DEF EntryInv
<1>1. /\ header'[p] = state /\ mState'[p] = state
      /\ UNCHANGED <<entryTable, mNextFreeEntry, mFirstUsedEntry>>
      /\ \A q \in Sector : q # p => mState'[q] = mState[q] /\ header'[q] = header[q]
  BY EntryTypes DEF AlterPageState
<1>2. HasSeq(mState[p]) /\ HasSeq(state) /\ state # "UNINITIALIZED"
  BY DEF HasSeq
<1>3. Prefix' /\ BlankUnused' /\ Tracked'
  BY <1>1, <1>2 DEF Prefix, BlankUnused, Tracked
<1>4. \A q \in Sector : Written(q)' = Written(q)
  BY <1>1, WrittenSame
<1>5. FirstUsedExact'
  BY <1>1, <1>2, <1>4 DEF FirstUsedExact
<1> QED
  BY <1>1, <1>2, <1>3, <1>5

-----------------------------------------------------------------------------
(* The steps of load(). *)

\* The sector load() has come to is in neither list yet.
LEMMA SectorAtHand ==
  ASSUME Inv, PagesListed, pc \in {"load", "repair", "insert"}
  PROVE  loadIndex \in Sector /\ loadIndex \in Nat /\ loadIndex \notin InUse /\ loadIndex \notin Free
<1>1. loadIndex \in Sector
  BY DEF Inv, ControlInv, PhaseInv
<1>2. loadIndex \in Nat
  BY <1>1, OrderTypes
<1> QED
  BY <1>1, <1>2 DEF PagesListed

\* What is read of a sector is what its header and its entries say.
LEMMA LoadSectorStep ==
  ASSUME Inv, PagesListed, OrderInv, EntryInv, LoadSector
  PROVE  EntryInv'
<1> USE DEF LoadSector
<1>1. /\ loadIndex \in Sector /\ loadIndex \notin InUse /\ loadIndex \notin Free
      /\ pc = "load" /\ LoadPage(loadIndex)
      /\ UNCHANGED <<mPageList, mFreePageList, loadIndex>>
      /\ pc' = IF header[loadIndex] = "ACTIVE" THEN "repair" ELSE "insert"
  BY SectorAtHand DEF managerVars, localVars
<1> HIDE DEF LoadSector
<1>2. Prefix' /\ BlankUnused' /\ Tracked' /\ FirstUsedExact'
  BY <1>1, LoadPageEntries
<1>3. /\ mState'[loadIndex] = header[loadIndex]
      /\ ~HasSeq(header[loadIndex]) => UNCHANGED <<mNextFreeEntry, mFirstUsedEntry>>
      /\ header' = header
      /\ \A q \in Sector : q # loadIndex => /\ mState'[q] = mState[q]
                                            /\ mNextFreeEntry'[q] = mNextFreeEntry[q]
                                            /\ mFirstUsedEntry'[q] = mFirstUsedEntry[q]
  BY <1>1, EntryTypes DEF LoadPage, flashVars
<1>4. InUse' = InUse /\ Free' = Free /\ InUse \subseteq Sector /\ Free \subseteq Sector
  BY <1>1, OrderTypes DEF InUse, Free
<1>5. Untracked'
  <2>1. \A q \in Sector : q > loadIndex => q # loadIndex
    BY <1>1, SectorNat
  <2> QED
    BY <1>1, <1>3, <1>4, <2>1 DEF EntryInv, Untracked, HasSeq
<1>6. Writable'
  BY <1>1, <1>3, <1>4 DEF EntryInv, Writable
<1> QED
  BY <1>2, <1>5, <1>6 DEF EntryInv

\* An entry that is erased, wherever that is, leaves the rest as it was.
LEMMA EraseEntryStep ==
  ASSUME Inv, OrderInv, EntryInv,
         NEW p \in Sector, HasSeq(mState[p]), NEW e \in Written(p), EraseEntry(p, e),
         pc \in {"repair", "dup", "erase", "clear"}, pc' \in {pc, "recover", "return"},
         UNCHANGED <<mPageList, mFreePageList, loadIndex>>
  PROVE  EntryInv'
<1>1. /\ Prefix' /\ BlankUnused' /\ Tracked' /\ FirstUsedExact'
      /\ UNCHANGED <<header, mState, mNextFreeEntry>>
      /\ \A q \in Sector : q # p => mFirstUsedEntry'[q] = mFirstUsedEntry[q]
  BY EraseEntryEntries
<1>2. InUse' = InUse /\ Free' = Free
  BY DEF InUse, Free
<1>3. ~ (p > loadIndex)
  <2>1. CASE p > loadIndex
    <3>1. mNextFreeEntry[p] = INVALID_ENTRY /\ mFirstUsedEntry[p] = INVALID_ENTRY
      BY <2>1 DEF EntryInv, Untracked
    <3>2. Written(p) \in SUBSET Nat /\ Written(p) \subseteq Index /\ INVALID_ENTRY \notin Index
      BY EntryTypes
    <3>3. mFirstUsedEntry[p] \in Written(p)
      BY <3>2, LeastOrProperty DEF EntryInv, FirstUsedExact
    <3> QED
      BY <3>1, <3>2, <3>3
  <2> QED
    BY <2>1
<1>4. Untracked'
  BY <1>1, <1>2, <1>3 DEF EntryInv, Untracked, HasSeq
<1>5. Writable'
  BY <1>1, <1>2 DEF EntryInv, Writable
<1> QED
  BY <1>1, <1>4, <1>5 DEF EntryInv

\* mLoadEntryTable repairs the ACTIVE page only.
LEMMA RepairStep ==
  ASSUME Inv, PagesListed, OrderInv, EntryInv, RepairHalfWritten \/ RepairDuplicate
  PROVE  EntryInv'
<1>1. /\ pc = "repair" /\ pc' = pc /\ loadIndex \in Sector /\ HasSeq(mState[loadIndex])
      /\ loadIndex \notin Free
      /\ UNCHANGED <<mPageList, mFreePageList, loadIndex>>
  <2>1. pc = "repair" /\ pc' = pc /\ UNCHANGED <<mPageList, mFreePageList, loadIndex>>
    BY DEF RepairHalfWritten, RepairDuplicate, managerVars, localVars
  <2>2. HasSeq(mState[loadIndex])
    BY <2>1 DEF OrderInv, Loaded, Read, EntryInv, Writable, HasSeq
  <2> QED
    BY <2>1, <2>2, SectorAtHand
<1>2. CASE RepairHalfWritten
  <2>1. /\ Prefix' /\ BlankUnused' /\ Tracked' /\ FirstUsedExact'
        /\ UNCHANGED <<header, mState, mFirstUsedEntry>>
        /\ \A q \in Sector : q # loadIndex => mNextFreeEntry'[q] = mNextFreeEntry[q]
    BY <1>1, <1>2, ClearHalfWrittenEntries DEF RepairHalfWritten
  <2>2. InUse' = InUse /\ Free' = Free /\ Free \subseteq Sector
    BY <1>1, OrderTypes DEF InUse, Free
  <2>3. \A q \in Sector : q > loadIndex => q # loadIndex
    BY <1>1, SectorNat
  <2>4. Untracked'
    BY <1>1, <2>1, <2>2, <2>3 DEF EntryInv, Untracked
  <2>5. Writable'
    BY <1>1, <2>1, <2>2 DEF EntryInv, Writable
  <2> QED
    BY <2>1, <2>4, <2>5 DEF EntryInv
<1>3. CASE RepairDuplicate
  <2> DEFINE j == Min(Superseding(loadIndex))
             i == Min(OlderEntries(loadIndex, j))
  <2>1. i \in Written(loadIndex)
    <3>1. Superseding(loadIndex) \in SUBSET Nat /\ Superseding(loadIndex) # {}
      BY <1>1, <1>3, WrittenFinite DEF Superseding, RepairDuplicate
    <3>2. OlderEntries(loadIndex, j) # {}
      BY <3>1, MinProperty DEF Superseding
    <3>3. OlderEntries(loadIndex, j) \in SUBSET Nat
          /\ OlderEntries(loadIndex, j) \in SUBSET Written(loadIndex)
      BY <1>1, WrittenFinite DEF OlderEntries
    <3> QED
      BY <3>2, <3>3, MinProperty
  <2>2. EraseEntry(loadIndex, i)
    BY <1>3 DEF RepairDuplicate
  <2> HIDE DEF i
  <2> QED
    BY <1>1, <2>1, <2>2, EraseEntryStep
<1> QED
  BY <1>2, <1>3

\* A page is put into one of the lists.
LEMMA InsertPageStep ==
  ASSUME Inv, PagesListed, OrderInv, EntryInv, InsertPage
  PROVE  EntryInv'
<1>1. /\ pc = "insert" /\ loadIndex' = loadIndex + 1 /\ pc' \in {"settle", "load"}
      /\ UNCHANGED <<header, entryTable, mState, mNextFreeEntry, mFirstUsedEntry>>
  BY DEF InsertPage, pageVars
<1>2. loadIndex \in Sector /\ loadIndex \in Nat
  BY <1>1, SectorAtHand
<1>3. /\ InUse' \subseteq InUse \cup {p \in {loadIndex} : HasSeq(mState[p])}
      /\ Free' \subseteq Free \cup {p \in {loadIndex} : ~HasSeq(mState[p])}
  <2>1. Position(loadIndex) \in 1 .. Len(mPageList) + 1
    BY <1>2, PositionProperty
  <2>2. mPageList \in Seq(Sector) /\ mFreePageList \in Seq(Sector) /\ IsInjective(mPageList)
        /\ loadIndex \notin InUse
    BY <1>1, <1>2, OrderTypes DEF PagesListed
  <2>3. CASE HasSeq(mState[loadIndex])
    <3>1. mPageList' = InsertAt(mPageList, Position(loadIndex), loadIndex)
          /\ mFreePageList' = mFreePageList
      BY <2>3 DEF InsertPage
    <3>2. InUse' = InUse \cup {loadIndex} /\ Free' = Free
      BY <1>2, <2>1, <2>2, <3>1, InsertOnce, ListElements
    <3> QED
      BY <2>3, <3>2
  <2>4. CASE ~HasSeq(mState[loadIndex])
    <3>1. mPageList' = mPageList /\ mFreePageList' = Append(mFreePageList, loadIndex)
      BY <2>4 DEF InsertPage
    <3>2. InUse' = InUse
      BY <3>1 DEF InUse
    <3>3. Free' = Free \cup {loadIndex}
      BY <1>2, <2>2, <3>1, AppendElements, ListElements
    <3> QED
      BY <2>4, <3>2, <3>3
  <2> QED
    BY <2>3, <2>4
<1>4. Prefix' /\ BlankUnused' /\ Tracked'
  BY <1>1 DEF EntryInv, Prefix, BlankUnused, Tracked
<1>5. FirstUsedExact'
  BY <1>1, WrittenSame DEF EntryInv, FirstUsedExact
<1>6. Untracked'
  <2>1. \A q \in Sector : (q > loadIndex + 1 \/ q = loadIndex + 1) => q > loadIndex
    BY <1>2, SectorNat
  <2> QED
    BY <1>1, <1>3, <2>1 DEF EntryInv, Untracked
<1>7. Writable'
  BY <1>1, <1>3 DEF EntryInv, Writable, HasSeq
<1> QED
  BY <1>4, <1>5, <1>6, <1>7 DEF EntryInv

\* The old version that load() finds is an entry in use.
LEMMA EraseOldVersionStep ==
  ASSUME Inv, OrderInv, EntryInv, EraseOldVersion
  PROVE  EntryInv'
<1> DEFINE p == OldVersionPage
           i == FindOnPage(p, LastItem.key, LastItem.type)
<1>1. pc = "dup" /\ pc' = "recover" /\ UNCHANGED <<mPageList, mFreePageList, loadIndex>>
  BY DEF EraseOldVersion, managerVars, localVars
<1>2. CASE OldVersionPages = {}
  BY <1>1, <1>2, SameEntries DEF EraseOldVersion, pageVars
<1>3. CASE OldVersionPages # {}
  <2>1. p \in Sector /\ i \in Index
    BY <1>3, OldVersionProperty
  <2>2. i \in Written(p) /\ HasSeq(mState[p])
    BY <2>1, EntryNat, FindOnPageProperty
  <2>3. EraseEntry(p, i)
    BY <1>3 DEF EraseOldVersion
  <2> HIDE DEF p, i
  <2> QED
    BY <1>1, <2>1, <2>2, <2>3, EraseEntryStep
<1> QED
  BY <1>2, <1>3

\* The page that load() erases is a free one from then on.
LEMMA RecoverFreeingStep ==
  ASSUME Inv, PagesListed, OrderInv, EntryInv, RecoverFreeing
  PROVE  EntryInv'
<1>1. /\ mPageList # <<>> /\ Back \in Sector /\ pc = "recover" /\ pc' = "activate"
      /\ loadIndex' = loadIndex
  BY OrderTypes DEF RecoverFreeing, FreeingPages
<1>2. CASE mState[Back] = "ACTIVE"
  <2>1. ErasePage(Back) /\ mPageList' = Front(mPageList)
        /\ mFreePageList' = Append(mFreePageList, Back)
    BY <1>2 DEF RecoverFreeing
  <2>2. /\ Prefix' /\ BlankUnused' /\ Tracked' /\ FirstUsedExact'
        /\ mState'[Back] = "UNINITIALIZED"
        /\ mNextFreeEntry'[Back] = INVALID_ENTRY /\ mFirstUsedEntry'[Back] = INVALID_ENTRY
        /\ \A q \in Sector : q # Back => /\ mState'[q] = mState[q]
                                         /\ mNextFreeEntry'[q] = mNextFreeEntry[q]
                                         /\ mFirstUsedEntry'[q] = mFirstUsedEntry[q]
    BY <1>1, <2>1, ErasePageEntries
  <2>3. InUse' = InUse \ {Back}
    BY <1>1, <2>1, OrderTypes, FrontOnce, ListElements DEF Back, PagesListed
  <2>4. Free' = Free \cup {Back}
    BY <1>1, <2>1, OrderTypes, AppendElements, ListElements
  <2>5. Untracked'
    BY <1>1, <2>2, <2>4, OrderTypes DEF EntryInv, Untracked
  <2>6. Writable'
    BY <1>1, <2>2, <2>3, OrderTypes DEF EntryInv, Writable
  <2> QED
    BY <2>2, <2>5, <2>6 DEF EntryInv
<1>3. CASE mState[Back] # "ACTIVE"
  BY <1>1, <1>3, SameEntries DEF RecoverFreeing, pageVars
<1> QED
  BY <1>2, <1>3

-----------------------------------------------------------------------------
(* The steps of requestNewPage() and of requests. *)

\* A CORRUPT free page is erased before it is used.
LEMMA EraseCorruptStep ==
  ASSUME Inv, PagesListed, EntryInv, EraseCorrupt
  PROVE  EntryInv'
<1> DEFINE e == Head(mFreePageList)
<1>1. /\ pc = "activate" /\ pc' = pc /\ ErasePage(e) /\ mFreePageList # <<>>
      /\ UNCHANGED <<mPageList, mFreePageList, loadIndex>>
  BY DEF EraseCorrupt, managerVars, localVars
<1>2. e \in Sector
  BY <1>1, OrderTypes
<1> HIDE DEF e
<1>3. /\ Prefix' /\ BlankUnused' /\ Tracked' /\ FirstUsedExact'
      /\ mState'[e] = "UNINITIALIZED"
      /\ mNextFreeEntry'[e] = INVALID_ENTRY /\ mFirstUsedEntry'[e] = INVALID_ENTRY
      /\ \A q \in Sector : q # e => /\ mState'[q] = mState[q]
                                    /\ mNextFreeEntry'[q] = mNextFreeEntry[q]
                                    /\ mFirstUsedEntry'[q] = mFirstUsedEntry[q]
  BY <1>1, <1>2, ErasePageEntries
<1>4. InUse' = InUse /\ Free' = Free /\ InUse \subseteq Sector /\ Free \subseteq Sector
  BY <1>1, OrderTypes DEF InUse, Free
<1>5. Untracked'
  BY <1>1, <1>3, <1>4 DEF EntryInv, Untracked
<1>6. Writable'
  BY <1>1, <1>3, <1>4 DEF EntryInv, Writable
<1> QED
  BY <1>3, <1>5, <1>6 DEF EntryInv

\* The page that is activated has no room until it has a header.
LEMMA ActivatePageStep ==
  ASSUME Inv, PagesListed, EntryInv, ActivatePage
  PROVE  EntryInv'
<1> DEFINE a == Head(mFreePageList)
<1>1. /\ UNCHANGED <<header, entryTable, mState, mNextFreeEntry, mFirstUsedEntry, loadIndex>>
      /\ mPageList' = Append(mPageList, a) /\ mFreePageList' = Tail(mFreePageList)
      /\ mFreePageList # <<>> /\ mState[a] # "CORRUPT"
      /\ pc = "activate" /\ pc' \in {"idle", "copy", "rewrite", "freeing"}
  BY DEF ActivatePage, flashVars, localVars
<1>2. a \in Sector /\ a \in Free
  <2>1. mFreePageList \in Seq(Sector)
    BY OrderTypes
  <2>2. 1 \in DOMAIN mFreePageList /\ a = mFreePageList[1] /\ a \in Sector
    BY <1>1, <2>1
  <2> QED
    BY <2>2 DEF Free
<1>3. Free' = Free \ {a}
  BY <1>1, TailOnce, OrderTypes, ListElements DEF PagesListed
<1> HIDE DEF a
<1>4. InUse' = InUse \cup {a} /\ Back' = a
  <2>1. mPageList \in Seq(Sector) /\ mPageList' = Append(mPageList, a)
    BY <1>1, OrderTypes
  <2>2. InUse' = InUse \cup {a}
    BY <1>2, <2>1, AppendElements, ListElements
  <2>3. Back' = a
    BY <1>2, <2>1 DEF Back, Last
  <2> QED
    BY <2>2, <2>3
<1>5. (NoRoom(Back))'
  <2>1. mNextFreeEntry'[Back'] = INVALID_ENTRY
    BY <1>1, <1>2, <1>4 DEF EntryInv, Untracked
  <2> QED
    BY <2>1, EntryCountAssumption DEF NoRoom, INVALID_ENTRY
<1>6. Prefix' /\ BlankUnused' /\ Tracked'
  BY <1>1 DEF EntryInv, Prefix, BlankUnused, Tracked
<1>7. FirstUsedExact'
  BY <1>1, WrittenSame DEF EntryInv, FirstUsedExact
<1>8. Untracked'
  BY <1>1, <1>3 DEF EntryInv, Untracked
<1>9. Writable'
  BY <1>1, <1>4, <1>5 DEF EntryInv, Writable
<1> QED
  BY <1>6, <1>7, <1>8, <1>9 DEF EntryInv

\* A page in use is marked FULL or FREEING.
LEMMA AlterPageStateStep ==
  ASSUME Inv, OrderInv, EntryInv, pc \in {"markFull", "freeing"},
         NEW p \in Sector, NEW state \in {"FULL", "FREEING"}, AlterPageState(p, state),
         mState[p] \in {"FULL", "ACTIVE"}, mPageList # <<>>,
         pc' \in {"request", "copy"}, pc' = "copy" => pc = "freeing",
         UNCHANGED <<mPageList, mFreePageList, loadIndex>>
  PROVE  EntryInv'
<1>1. /\ Prefix' /\ BlankUnused' /\ Tracked' /\ FirstUsedExact'
      /\ UNCHANGED <<mNextFreeEntry, mFirstUsedEntry>> /\ HasSeq(mState'[p])
      /\ \A q \in Sector : q # p => mState'[q] = mState[q]
  BY AlterPageStateEntries
<1>2. InUse' = InUse /\ Free' = Free /\ Back' = Back /\ (NoRoom(Back))' = NoRoom(Back)
  BY <1>1 DEF InUse, Free, Back, NoRoom
<1>3. InUse \subseteq Sector /\ Back \in Sector
  BY OrderTypes
<1>4. Untracked'
  BY <1>1, <1>2 DEF EntryInv, Untracked, HasSeq
<1>5. Writable'
  BY <1>1, <1>2, <1>3 DEF EntryInv, Writable, HasSeq
<1> QED
  BY <1>1, <1>4, <1>5 DEF EntryInv

\* The page that is written next gets its header.
LEMMA InitializeStep ==
  ASSUME Inv, PagesListed, OrderInv, EntryInv, pc \in {"init", "copyInit"}, Initialize(Back),
         pc' \in {"data", "copyData"},
         UNCHANGED <<mPageList, mFreePageList, loadIndex>>
  PROVE  EntryInv'
<1>1. /\ mPageList # <<>> /\ Back \in Sector /\ Back \in InUse /\ Back \notin Free
      /\ loadIndex = PageCount /\ ~ (Back > loadIndex)
  <2>1. mPageList # <<>> /\ loadIndex = PageCount
    BY DEF Inv, ControlInv, MoveInv, PhaseInv
  <2>2. Back \in Sector /\ Back \in InUse
    BY <2>1, OrderTypes
  <2> QED
    BY <2>1, <2>2, PageCountAssumption DEF PagesListed, Sector
<1>2. mState[Back] = "UNINITIALIZED"
  BY DEF OrderInv, ActiveLast
<1>3. /\ Prefix' /\ BlankUnused' /\ Tracked' /\ FirstUsedExact'
      /\ mState'[Back] = "ACTIVE" /\ UNCHANGED mFirstUsedEntry
      /\ \A q \in Sector : q # Back => /\ mState'[q] = mState[q] /\ header'[q] = header[q]
                                       /\ mNextFreeEntry'[q] = mNextFreeEntry[q]
  BY <1>1, <1>2, InitializeEntries
<1>4. InUse' = InUse /\ Free' = Free /\ Back' = Back /\ InUse \subseteq Sector /\ Free \subseteq Sector
  BY OrderTypes DEF InUse, Free, Back
<1>5. Untracked'
  BY <1>1, <1>3, <1>4 DEF EntryInv, Untracked
<1>6. Writable'
  BY <1>1, <1>3, <1>4 DEF EntryInv, Writable, HasSeq
<1> QED
  BY <1>3, <1>5, <1>6 DEF EntryInv

\* The state of the entry just written follows.
LEMMA WriteEntryStateStep ==
  ASSUME Inv, PagesListed, OrderInv, EntryInv, pc \in {"state", "copyState"}, WriteEntryState(Back),
         pc' \in {"return", "erase", "erasePage", "copyData"}, pc' = "copyData" => pc = "copyState",
         UNCHANGED <<mPageList, mFreePageList, loadIndex>>
  PROVE  EntryInv'
<1>1. /\ mPageList # <<>> /\ Back \in Sector /\ Back \in InUse /\ Back \notin Free
      /\ loadIndex = PageCount /\ ~ (Back > loadIndex)
  <2>1. mPageList # <<>> /\ loadIndex = PageCount
    BY DEF Inv, ControlInv, MoveInv, PhaseInv
  <2>2. Back \in Sector /\ Back \in InUse
    BY <2>1, OrderTypes
  <2> QED
    BY <2>1, <2>2, PageCountAssumption DEF PagesListed, Sector
<1>2. HasSeq(mState[Back]) /\ ~NoRoom(Back)
  BY DEF EntryInv, Writable, Inv, ControlInv, RoomInv
<1>3. Prefix' /\ BlankUnused' /\ Tracked' /\ FirstUsedExact'
  BY <1>1, <1>2, WriteEntryStateEntries
<1>4. /\ UNCHANGED <<header, mState>>
      /\ \A q \in Sector : q # Back => /\ mNextFreeEntry'[q] = mNextFreeEntry[q]
                                       /\ mFirstUsedEntry'[q] = mFirstUsedEntry[q]
  BY EntryTypes DEF WriteEntryState
<1>5. InUse' = InUse /\ Free' = Free /\ Back' = Back /\ Free \subseteq Sector
  BY OrderTypes DEF InUse, Free, Back
<1>6. Untracked'
  BY <1>1, <1>2, <1>4, <1>5 DEF EntryInv, Untracked, HasSeq
<1>7. Writable'
  BY <1>1, <1>2, <1>4, <1>5 DEF EntryInv, Writable
<1> QED
  BY <1>3, <1>6, <1>7 DEF EntryInv

\* The page that was freed is a free one.
LEMMA FreePageStep ==
  ASSUME Inv, PagesListed, EntryInv, FreePage
  PROVE  EntryInv'
<1> DEFINE e == erasedPage
<1>1. e \in Sector /\ e \in InUse /\ mPageList # <<>>
  BY OrderTypes DEF FreePage, Inv, ControlInv, MoveInv
<1>2. /\ ErasePage(e) /\ loadIndex' = loadIndex
      /\ mPageList' = Without(mPageList, e) /\ mFreePageList' = Append(mFreePageList, e)
      /\ pc = "erasePage" /\ pc' \in {"check", "rewrite"}
  BY DEF FreePage
<1> HIDE DEF e
<1>3. /\ Prefix' /\ BlankUnused' /\ Tracked' /\ FirstUsedExact'
      /\ mState'[e] = "UNINITIALIZED"
      /\ mNextFreeEntry'[e] = INVALID_ENTRY /\ mFirstUsedEntry'[e] = INVALID_ENTRY
      /\ \A q \in Sector : q # e => /\ mState'[q] = mState[q]
                                    /\ mNextFreeEntry'[q] = mNextFreeEntry[q]
                                    /\ mFirstUsedEntry'[q] = mFirstUsedEntry[q]
  BY <1>1, <1>2, ErasePageEntries
<1>4. PICK i \in 1 .. Len(mPageList) :
        mPageList[i] = e /\ mPageList' = RemoveAt(mPageList, i)
  BY <1>1, <1>2, OrderTypes, WithoutProperty, ListElements
<1>5. InUse' = InUse \ {e}
  BY <1>4, OrderTypes, RemoveOnce, ListElements DEF PagesListed
<1>6. Free' = Free \cup {e}
  BY <1>1, <1>2, OrderTypes, AppendElements, ListElements
<1>7. Untracked'
  BY <1>2, <1>3, <1>6, OrderTypes DEF EntryInv, Untracked
<1>8. Writable'
  BY <1>2, <1>3, <1>5, OrderTypes DEF EntryInv, Writable
<1> QED
  BY <1>3, <1>7, <1>8 DEF EntryInv

\* What a request erases is an entry in use.
LEMMA EraseStep ==
  ASSUME Inv, OrderInv, EntryInv, EraseFound \/ EraseOfNamespace
  PROVE  EntryInv'
<1>1. UNCHANGED <<mPageList, mFreePageList, loadIndex>> /\ pc \in {"erase", "clear"}
  BY DEF EraseFound, EraseOfNamespace, managerVars, localVars
<1>2. pc' \in {"failed", "return", pc}
  BY DEF EraseFound, EraseOfNamespace, Respond
<1>3. CASE UNCHANGED pageVars
  BY <1>1, <1>2, <1>3, SameEntries DEF pageVars
<1>4. CASE ~UNCHANGED pageVars /\ EraseFound
  <2> DEFINE i == FindOnPage(OldVersionOn, op.key, op.type)
  <2>1. OldVersionOn # NoPage /\ i # INVALID_ENTRY /\ EraseEntry(OldVersionOn, i)
        /\ pc' = "return" /\ pc = "erase"
    BY <1>4 DEF EraseFound, Respond
  <2>2. OldVersionOn \in Sector
    BY <2>1, FindPageProperty DEF OldVersionOn, Inv, TypeOK, Page
  <2>3. i \in Written(OldVersionOn) /\ HasSeq(mState[OldVersionOn])
    BY <2>1, <2>2, FindOnPageProperty
  <2> HIDE DEF i
  <2> QED
    BY <1>1, <2>1, <2>2, <2>3, EraseEntryStep
<1>5. CASE ~UNCHANGED pageVars /\ EraseOfNamespace
  <2> DEFINE n == Min(ClearPages(op.ns))
             p == mPageList[n]
             i == FindNamespace(p, op.ns)
  <2>1. ClearPages(op.ns) # {} /\ EraseEntry(p, i) /\ pc' = "clear" /\ pc = "clear"
    BY <1>5 DEF EraseOfNamespace
  <2>2. ClearPages(op.ns) \in SUBSET DOMAIN mPageList /\ DOMAIN mPageList \in SUBSET Nat
    BY OrderTypes DEF ClearPages
  <2>3. n \in ClearPages(op.ns)
    BY <2>1, <2>2, MinProperty
  <2>4. n \in DOMAIN mPageList /\ i # INVALID_ENTRY
    BY <2>3 DEF ClearPages
  <2>5. p \in Sector
    BY <2>4, OrderTypes
  <2>6. i \in Written(p) /\ HasSeq(mState[p])
    BY <2>4, <2>5, FindNamespaceProperty
  <2> HIDE DEF p, i
  <2> QED
    BY <1>1, <2>1, <2>5, <2>6, EraseEntryStep
<1> QED
  BY <1>3, <1>4, <1>5

-----------------------------------------------------------------------------
(* Restarts and flash errors. *)

\* An operation that is cut off leaves no gap in the entries of a page.
LEMMA HalfDoneEntries ==
  ASSUME Inv, EntryInv, UNCHANGED flashVars \/ HalfDone
  PROVE  /\ Prefix' /\ BlankUnused'
         /\ \A q \in Sector : q \notin EraseTarget => entryTable'[q] = entryTable[q]
<1> USE DEF EntryInv
<1>1. CASE UNCHANGED flashVars
  BY <1>1 DEF flashVars, Prefix, BlankUnused
<1>2. ASSUME NEW p \in EraseTarget, SectorErased(p, "CORRUPT")
      PROVE  /\ Prefix' /\ BlankUnused'
             /\ \A q \in Sector : q \notin EraseTarget => entryTable'[q] = entryTable[q]
  <2>1. p \in Sector
    BY TargetSectors
  <2>2. /\ \A i \in Index : entryTable'[p][i] = "EMPTY"
        /\ \A q \in Sector : q # p => header'[q] = header[q] /\ entryTable'[q] = entryTable[q]
    BY <1>2, <2>1, EntryTypes DEF SectorErased
  <2> QED
    BY <2>1, <2>2 DEF Prefix, BlankUnused
<1>3. ASSUME NEW p \in HeaderTarget, header' = [header EXCEPT ![p] = "CORRUPT"],
             UNCHANGED entryTable
      PROVE  /\ Prefix' /\ BlankUnused'
             /\ \A q \in Sector : q \notin EraseTarget => entryTable'[q] = entryTable[q]
  <2>1. \A q \in Sector : header'[q] \in {header[q], "CORRUPT"}
    BY <1>3, EntryTypes
  <2> QED
    BY <1>3, <2>1 DEF Prefix, BlankUnused
<1>4. CASE UNCHANGED <<header, entryTable>>
  BY <1>4 DEF Prefix, BlankUnused
<1> QED
  BY <1>1, <1>2, <1>3, <1>4 DEF HalfDone

\* After a restart nothing is known of any page.
LEMMA StartLoadingStep ==
  ASSUME Inv, EntryInv, UNCHANGED flashVars \/ HalfDone, StartLoading
  PROVE  EntryInv'
<1>1. Prefix' /\ BlankUnused'
  BY HalfDoneEntries
<1>2. /\ \A p \in Sector : /\ mState'[p] = "INVALID" /\ mNextFreeEntry'[p] = INVALID_ENTRY
                           /\ mFirstUsedEntry'[p] = INVALID_ENTRY
      /\ mPageList' = <<>> /\ mFreePageList' = <<>> /\ pc' = "load"
  BY DEF StartLoading, NewPageObjects
<1>3. InUse' = {} /\ Free' = {}
  BY <1>2 DEF InUse, Free
<1>4. Tracked' /\ FirstUsedExact'
  BY <1>2 DEF Tracked, FirstUsedExact, HasSeq
<1>5. Untracked' /\ Writable'
  BY <1>2, <1>3 DEF Untracked, Writable
<1> QED
  BY <1>1, <1>4, <1>5 DEF EntryInv

\* A page that failed has no entries any more as far as the program is concerned.
LEMMA FlashErrorStep ==
  ASSUME ~FaultsWhileLoading, Inv, EntryInv, FlashError
  PROVE  EntryInv'
<1>1. PICK p \in EraseTarget \cup HeaderTarget \cup DataTarget \cup WordTarget :
        mState' = [mState EXCEPT ![p] = "INVALID"]
  BY DEF FlashError
<1>2. p \in Sector
  BY TargetSectors
<1>3. pc' = "return"
  <2>1. pc \in {"erasePage", "recover", "activate", "init", "copyInit", "data", "copyData", "state",
                "copyState", "markFull", "freeing", "repair", "dup", "erase", "clear"}
    BY <1>1 DEF EraseTarget, HeaderTarget, DataTarget, WordTarget
  <2>2. ~Booting /\ mStorageState = "ACTIVE"
    BY DEF FlashError, Inv, TypeOK, ManagerTypeOK
  <2>3. pc \notin LoadPC
    BY <2>1, <2>2 DEF Inv, ControlInv, PhaseInv
  <2> QED
    BY <2>1, <2>2, <2>3 DEF FlashError, Fail, Respond
<1>4. UNCHANGED flashVars \/ HalfDone
  BY DEF FlashError
<1>5. UNCHANGED <<mPageList, mFreePageList, loadIndex, mNextFreeEntry, mFirstUsedEntry>>
  BY DEF FlashError, managerVars
<1>6. Prefix' /\ BlankUnused'
  BY <1>4, HalfDoneEntries
<1>7. \A q \in Sector : /\ q = p => mState'[q] = "INVALID"
                        /\ q # p => mState'[q] = mState[q] /\ entryTable'[q] = entryTable[q]
  <2>1. \A q \in EraseTarget : q = p
    BY <1>1, OneTarget
  <2>2. \A q \in Sector : q # p => entryTable'[q] = entryTable[q]
    BY <1>4, <2>1, HalfDoneEntries
  <2> QED
    BY <1>1, <1>2, <2>2, EntryTypes
<1>8. InUse' = InUse /\ Free' = Free /\ InUse \subseteq Sector
  BY <1>5, OrderTypes DEF InUse, Free
<1>9. Tracked'
  BY <1>5, <1>7 DEF EntryInv, Tracked, HasSeq
<1>10. FirstUsedExact'
  <2>1. \A q \in Sector : q # p => Written(q)' = Written(q)
    BY <1>7, WrittenSame
  <2> QED
    BY <1>5, <1>7, <2>1 DEF EntryInv, FirstUsedExact, HasSeq
<1>11. Untracked'
  BY <1>3, <1>5, <1>7, <1>8 DEF EntryInv, Untracked
<1>12. Writable'
  BY <1>3, <1>7, <1>8 DEF EntryInv, Writable
<1> QED
  BY <1>6, <1>9, <1>10, <1>11, <1>12 DEF EntryInv

-----------------------------------------------------------------------------
(* The theorem on the entries. *)

\* The page manager keeps what is known of the entries right.
LEMMA ManageEntries ==
  ASSUME Inv, PagesListed, OrderInv, EntryInv, Manage
  PROVE  EntryInv'
<1> USE DEF managerVars, localVars, pageVars
<1>1. CASE LoadSector \/ RepairHalfWritten \/ RepairDuplicate \/ InsertPage \/ EraseOldVersion
           \/ RecoverFreeing
  BY <1>1, LoadSectorStep, RepairStep, InsertPageStep, EraseOldVersionStep, RecoverFreeingStep
<1>2. CASE RepairDone
  <2>1. pc = "repair" /\ HasSeq(mState[loadIndex])
    BY <1>2 DEF RepairDone, OrderInv, Loaded, Read, EntryInv, Writable, HasSeq
  <2> QED
    BY <1>2, <2>1, SameEntries DEF RepairDone
<1>3. CASE Settle \/ NothingFreeing \/ CheckFreePages \/ RequestNewPage \/ ActivateNothing
  BY <1>3, SameEntries DEF Settle, NothingFreeing, CheckFreePages, RequestNewPage, ActivateNothing,
     Respond, Fail
<1>4. CASE EraseCorrupt \/ ActivatePage \/ FreePage
  BY <1>4, EraseCorruptStep, ActivatePageStep, FreePageStep
<1>5. CASE MarkFreeing
  <2>1. erasedPage \in Sector /\ mPageList # <<>>
    BY <1>5, OrderTypes DEF MarkFreeing, Inv, ControlInv, MoveInv
  <2>2. CASE mState[erasedPage] \in {"FULL", "ACTIVE"}
    BY <1>5, <2>1, <2>2, AlterPageStateStep DEF MarkFreeing
  <2>3. CASE mState[erasedPage] \notin {"FULL", "ACTIVE"}
    BY <1>5, <2>3, SameEntries DEF MarkFreeing, Respond
  <2> QED
    BY <2>2, <2>3
<1>6. CASE StartCopy
  BY <1>6, SameEntries DEF StartCopy
<1>7. CASE CopyInit
  BY <1>7, InitializeStep DEF CopyInit
<1>8. CASE CopyData
  BY <1>8, SameEntries DEF CopyData, WriteEntryData, objectVars, EntryInv, Writable
<1>9. CASE CopyState
  BY <1>9, WriteEntryStateStep DEF CopyState
<1> QED
  BY <1>1, <1>2, <1>3, <1>4, <1>5, <1>6, <1>7, <1>8, <1>9 DEF Manage, Load, Move

\* So do requests.
LEMMA ServeEntries ==
  ASSUME Inv, PagesListed, OrderInv, EntryInv, Begin \/ Serve
  PROVE  EntryInv'
<1> USE DEF managerVars, localVars, pageVars, Respond
<1>1. CASE TryWrite
  <2>1. pc \in {"write", "rewrite"} /\ Back \in InUse /\ Back \in Sector
    BY <1>1, OrderTypes DEF TryWrite, Inv, ControlInv, MoveInv
  <2>2. mState[Back] \notin {"INVALID", "UNINITIALIZED"} => HasSeq(mState[Back])
    BY <2>1 DEF EntryInv, Writable, HasSeq
  <2> QED
    BY <1>1, <2>1, <2>2, SameEntries DEF TryWrite
<1>2. CASE InitPage
  BY <1>2, InitializeStep DEF InitPage
<1>3. CASE WriteState
  BY <1>3, WriteEntryStateStep DEF WriteState
<1>4. CASE MarkFull
  <2>1. Back \in Sector /\ mPageList # <<>>
    BY <1>4, OrderTypes DEF MarkFull, Inv, ControlInv, MoveInv
  <2>2. CASE mState[Back] = "ACTIVE"
    BY <1>4, <2>1, <2>2, AlterPageStateStep DEF MarkFull
  <2>3. CASE mState[Back] # "ACTIVE"
    BY <1>4, <2>3, SameEntries DEF MarkFull
  <2> QED
    BY <2>2, <2>3
<1>5. CASE EraseFound \/ EraseOfNamespace
  BY <1>5, EraseStep
<1>6. CASE Begin \/ FindForSet \/ FindForErase \/ WriteData \/ Return
  BY <1>6, SameEntries DEF Begin, FindForSet, FindForErase, WriteData, WriteEntryData, objectVars, Return
<1> QED
  BY <1>1, <1>2, <1>3, <1>4, <1>5, <1>6 DEF Serve

(***************************************************************************)
(* The entries are in order as long as no flash operation of load() fails. *)
(***************************************************************************)
THEOREM EntryHolds ==
  ASSUME ~FaultsWhileLoading
  PROVE  Spec => []EntryInv
<1>1. Init => EntryInv
  BY DEF Init, EntryInv, Prefix, BlankUnused, Tracked, Untracked, Writable, FirstUsedExact, InUse, Free,
     HasSeq
<1>2. Inv /\ PagesListed /\ OrderInv /\ EntryInv /\ [Next]_vars => EntryInv'
  <2> SUFFICES ASSUME Inv, PagesListed, OrderInv, EntryInv, [Next]_vars PROVE EntryInv'
    OBVIOUS
  <2>1. CASE Manage
    BY <2>1, ManageEntries
  <2>2. CASE Begin \/ Serve
    BY <2>2, ServeEntries
  <2>3. CASE Crash \/ Reinitialize
    BY <2>3, StartLoadingStep DEF Crash, Reinitialize
  <2>4. CASE FlashError
    BY <2>4, FlashErrorStep
  <2>5. CASE UNCHANGED vars
    BY <2>5, SameEntries DEF vars, pageVars, managerVars, localVars
  <2> QED
    BY <2>1, <2>2, <2>3, <2>4, <2>5 DEF Next
<1> QED
  BY <1>1, <1>2, InvHolds, ListsCorrect, OrderHolds, PTL DEF Spec

(***************************************************************************)
(* As long as no flash operation of load() fails, mFirstUsedEntry is the   *)
(* first entry in use of every page that is read: findItem() starts at no  *)
(* later one and copyItems() leaves none behind, whatever is written,      *)
(* erased, moved, cut off and repaired.                                    *)
(***************************************************************************)
THEOREM FirstUsedHolds ==
  ASSUME ~FaultsWhileLoading
  PROVE  Spec => []FirstUsedExact
<1>1. EntryInv => FirstUsedExact
  BY DEF EntryInv
<1> QED
  BY <1>1, EntryHolds, PTL
-----------------------------------------------------------------------------
(* What the entries hold. *)

(***************************************************************************)
(* The strengthening.  Of the empty entries only the first can have data   *)
(* on it (BlankAfter), and none of a blank sector (BlankSector).  Where a  *)
(* page is written next there is none, unless it is the data whose state   *)
(* is to follow, or data that load() has come upon and will discard        *)
(* (BlankNext).  mUsedEntryCount is the number of entries in use, and 0    *)
(* where nothing is known of a page (Counted).                             *)
(***************************************************************************)
BlankAfter == \A p \in Sector : \A i, j \in Index :
  i < j /\ entryTable[p][i] = "EMPTY" => entryData[p][j] = Blank

BlankSector == \A p \in Sector : header[p] = "UNINITIALIZED" =>
  \A i \in Index : entryData[p][i] = Blank

BlankNext == \A p \in Sector : HasSeq(mState[p]) /\ mNextFreeEntry[p] \in Index =>
  /\ entryTable[p][mNextFreeEntry[p]] = "EMPTY"
  /\ \/ entryData[p][mNextFreeEntry[p]] = Blank
     \/ pc = "repair" /\ p = loadIndex
     \/ pc \in {"state", "copyState"} /\ p = Back

Counted ==
  /\ \A p \in Sector : HasSeq(mState[p]) => mUsedEntryCount[p] = Cardinality(Written(p))
  /\ \A p \in Sector : mState[p] = "UNINITIALIZED" => mUsedEntryCount[p] = 0
  /\ \A p \in Sector : p > loadIndex \/ (pc = "load" /\ p = loadIndex) => mUsedEntryCount[p] = 0

DataInv == BlankAfter /\ BlankSector /\ BlankNext /\ Counted

\* What the steps below need of the types.
LEMMA DataTypes ==
  ASSUME Inv
  PROVE  /\ entryData \in [Sector -> [Index -> Item \cup {Blank, Garbage}]]
         /\ entryTable \in [Sector -> [Index -> EntryState]]
         /\ mUsedEntryCount \in [Sector -> Int]
         /\ mNextFreeEntry \in [Sector -> Nat]
         /\ mState \in [Sector -> PageState] /\ header \in [Sector -> HeaderState]
         /\ \A p \in Sector : IsFiniteSet(Written(p)) /\ Cardinality(Written(p)) \in Nat
         /\ Index \subseteq Nat /\ INVALID_ENTRY \notin Index
<1>1. \A p \in Sector : IsFiniteSet(Written(p)) /\ Cardinality(Written(p)) \in Nat
  <2>1. IsFiniteSet(Index)
    BY FS_Interval, EntryCountAssumption DEF Index
  <2>2. \A p \in Sector : IsFiniteSet(Written(p))
    BY <2>1, WrittenFinite, FS_Subset
  <2> QED
    BY <2>2, WrittenFinite
<1> QED
  BY <1>1, EntryNat DEF Inv, TypeOK, PageTypeOK

\* Steps that leave the entries and the members of the pages alone.
LEMMA SameData ==
  ASSUME DataInv, UNCHANGED <<header, entryTable, entryData, mState, mNextFreeEntry,
                              mUsedEntryCount, loadIndex>>,
         pc = "repair" => pc' = "repair" \/ ~HalfWritten(loadIndex),
         pc' = "load" => pc = "load",
         pc \in {"state", "copyState"} => pc' = pc /\ mPageList' = mPageList
  PROVE  DataInv'
<1> USE DEF DataInv
<1>1. BlankAfter' /\ BlankSector'
  BY DEF BlankAfter, BlankSector
<1>2. BlankNext'
  BY DEF BlankNext, HalfWritten, Back
<1>3. \A p : Written(p)' = Written(p)
  BY DEF Written
<1>4. Counted'
  BY <1>3 DEF Counted
<1> QED
  BY <1>1, <1>2, <1>4

-----------------------------------------------------------------------------
(* The operations on a page. *)

\* Page::load() counts the entries and stops at the first that is empty.
LEMMA LoadPageData ==
  ASSUME Inv, EntryInv, DataInv, NEW p \in Sector, LoadPage(p),
         p = loadIndex, loadIndex' = loadIndex, pc = "load",
         pc' = IF header[p] = "ACTIVE" THEN "repair" ELSE "insert"
  PROVE  DataInv'
<1> USE DEF DataInv, LoadPage, flashVars
<1>1. BlankAfter' /\ BlankSector'
  BY DEF BlankAfter, BlankSector
<1>2. \A q : Written(q)' = Written(q)
  BY DEF Written
<1>3. \A q \in Sector : q # p => /\ mState'[q] = mState[q] /\ mNextFreeEntry'[q] = mNextFreeEntry[q]
                                 /\ mUsedEntryCount'[q] = mUsedEntryCount[q]
  BY DataTypes
<1>4. mState'[p] = header[p] /\ UNCHANGED <<entryTable, entryData>>
  BY DataTypes
<1>5. mUsedEntryCount'[p] = IF HasSeq(header[p]) THEN Cardinality(Written(p)) ELSE mUsedEntryCount[p]
  BY DataTypes
<1> DEFINE E == {i \in Index : entryTable[p][i] = "EMPTY"}
<1>6. HasSeq(header[p]) => mNextFreeEntry'[p] = IF header[p] = "ACTIVE" THEN LeastOr(E, INVALID_ENTRY)
                                                ELSE INVALID_ENTRY
  BY DataTypes
<1> HIDE DEF LoadPage
<1>7. LeastOr(E, INVALID_ENTRY) \in Index => LeastOr(E, INVALID_ENTRY) \in E
  BY DataTypes, LeastOrProperty
<1>8. BlankNext'
  <2> SUFFICES ASSUME NEW q \in Sector, HasSeq(mState'[q]), mNextFreeEntry'[q] \in Index
               PROVE  /\ entryTable[q][mNextFreeEntry'[q]] = "EMPTY"
                      /\ \/ entryData[q][mNextFreeEntry'[q]] = Blank
                         \/ pc' = "repair" /\ q = loadIndex
    BY <1>4 DEF BlankNext
  <2>1. CASE q = p
    <3>1. header[p] = "ACTIVE" /\ mNextFreeEntry'[p] \in E
      BY <1>4, <1>6, <1>7, <2>1, DataTypes
    <3> QED
      BY <2>1, <3>1
  <2>2. CASE q # p
    BY <1>3, <2>2 DEF BlankNext
  <2> QED
    BY <2>1, <2>2
<1>9. Counted'
  <2>1. \A q \in Sector : q > loadIndex => q # p
    BY SectorNat
  <2>2. mUsedEntryCount[p] = 0
    BY DEF Counted
  <2> QED
    BY <1>2, <1>3, <1>4, <1>5, <2>1, <2>2 DEF Counted, HasSeq
<1> QED
  BY <1>1, <1>8, <1>9

\* The data of an entry is written where there is none.
LEMMA WriteEntryDataData ==
  ASSUME Inv, EntryInv, DataInv, NEW p \in Sector, NEW item, WriteEntryData(p, item),
         HasSeq(mState[p]), HasSeq(header[p]), ~NoRoom(p),
         pc \notin {"repair", "state", "copyState"}, pc' \in {"state", "copyState"},
         Back' = p, loadIndex' = loadIndex
  PROVE  DataInv'
<1> USE DEF DataInv
<1> DEFINE n == mNextFreeEntry[p]
<1>1. n \in Index /\ n \in Nat
  BY DataTypes, EntryCountAssumption DEF NoRoom, Index
<1>2. /\ \A q \in Sector, i \in Index : entryData'[q][i] =
           IF q = p /\ i = n THEN item ELSE entryData[q][i]
      /\ UNCHANGED <<header, entryTable, mState, mNextFreeEntry, mUsedEntryCount>>
  BY <1>1, DataTypes DEF WriteEntryData, objectVars
<1>3. \A i \in Index : i < n => entryTable[p][i] # "EMPTY"
  BY <1>1, DataTypes DEF EntryInv, Tracked
<1> HIDE DEF n
<1>4. BlankAfter'
  BY <1>1, <1>2, <1>3 DEF BlankAfter
<1>5. BlankSector'
  BY <1>1, <1>2 DEF BlankSector, HasSeq
<1>6. BlankNext'
  BY <1>1, <1>2 DEF BlankNext
<1>7. Counted'
  <2>1. \A q : Written(q)' = Written(q)
    BY <1>2 DEF Written
  <2> QED
    BY <1>2, <2>1 DEF Counted
<1> QED
  BY <1>4, <1>5, <1>6, <1>7

\* The entry whose state follows is one more in use, and there is nothing on the next.
LEMMA WriteEntryStateData ==
  ASSUME Inv, EntryInv, DataInv, NEW p \in Sector, WriteEntryState(p),
         HasSeq(mState[p]), HasSeq(header[p]), ~NoRoom(p), pc \in {"state", "copyState"}, p = Back,
         pc' # "load", loadIndex' = loadIndex, loadIndex = PageCount
  PROVE  DataInv'
<1> USE DEF DataInv
<1> DEFINE n == mNextFreeEntry[p]
<1>1. n \in Index /\ n \in Nat /\ entryTable[p][n] = "EMPTY"
  <2>1. n \in Index /\ n \in Nat
    BY DataTypes, EntryCountAssumption DEF NoRoom, Index
  <2> QED
    BY <2>1 DEF BlankNext
<1>2. /\ \A q \in Sector, i \in Index : entryTable'[q][i] =
           IF q = p /\ i = n THEN "WRITTEN" ELSE entryTable[q][i]
      /\ UNCHANGED <<header, entryData, mState>>
      /\ mNextFreeEntry'[p] = n + 1 /\ mUsedEntryCount'[p] = mUsedEntryCount[p] + 1
      /\ \A q \in Sector : q # p => /\ entryTable'[q] = entryTable[q]
                                    /\ mNextFreeEntry'[q] = mNextFreeEntry[q]
                                    /\ mUsedEntryCount'[q] = mUsedEntryCount[q]
  BY <1>1, DataTypes DEF WriteEntryState
<1> HIDE DEF n
<1>3. BlankAfter' /\ BlankSector'
  BY <1>2 DEF BlankAfter, BlankSector
<1>4. \A j \in Index : n < j => entryTable[p][j] = "EMPTY"
  BY <1>1 DEF EntryInv, Prefix
<1>5. BlankNext'
  <2> SUFFICES ASSUME NEW q \in Sector, HasSeq(mState[q]), mNextFreeEntry'[q] \in Index
               PROVE  /\ entryTable'[q][mNextFreeEntry'[q]] = "EMPTY"
                      /\ entryData[q][mNextFreeEntry'[q]] = Blank
    BY <1>2 DEF BlankNext
  <2>1. CASE q = p
    <3>1. n < n + 1 /\ n + 1 # n /\ n + 1 \in Index
      BY <1>1, <1>2, <2>1
    <3>2. entryData[p][n + 1] = Blank
      BY <1>1, <3>1 DEF BlankAfter
    <3>3. entryTable[p][n + 1] = "EMPTY"
      BY <1>4, <3>1
    <3> QED
      BY <1>2, <2>1, <3>1, <3>2, <3>3
  <2>2. CASE q # p
    <3>1. pc # "repair"
      OBVIOUS
    <3> QED
      BY <1>2, <2>2, <3>1 DEF BlankNext
  <2> QED
    BY <2>1, <2>2
<1>6. Counted'
  <2>1. Written(p)' = Written(p) \cup {n} /\ n \notin Written(p)
    BY <1>1, <1>2 DEF Written
  <2>2. Cardinality(Written(p) \cup {n}) = Cardinality(Written(p)) + 1
    BY <2>1, DataTypes, FS_AddElement
  <2>3. \A q \in Sector : q # p => Written(q)' = Written(q)
    BY <1>2 DEF Written
  <2>4. mUsedEntryCount'[p] = Cardinality(Written(p))' /\ mState[p] # "UNINITIALIZED"
    BY <1>2, <2>1, <2>2 DEF Counted, HasSeq
  <2>5. \A q \in Sector : q > loadIndex \/ (pc' = "load" /\ q = loadIndex) => mUsedEntryCount'[q] = 0
    <3>1. ~ (p > loadIndex)
      BY SectorNat, PageCountAssumption DEF Sector
    <3> QED
      BY <1>2, <3>1 DEF Counted
  <2> QED
    BY <1>2, <2>3, <2>4, <2>5 DEF Counted
<1> QED
  BY <1>3, <1>5, <1>6

\* An entry that is erased is one less in use.
LEMMA EraseEntryData ==
  ASSUME Inv, EntryInv, DataInv, NEW p \in Sector, HasSeq(mState[p]), NEW e \in Written(p),
         EraseEntry(p, e), ~ (p > loadIndex),
         pc' = "repair" => pc = "repair", pc \in {"repair", "state", "copyState"} => pc' = pc,
         UNCHANGED <<mPageList, loadIndex>>, pc' # "load"
  PROVE  DataInv'
<1> USE DEF DataInv
<1>1. e \in Index /\ e \in Nat /\ entryTable[p][e] = "WRITTEN" /\ e < mNextFreeEntry[p]
  BY EntryTypes DEF Written, EntryInv, Tracked
<1>2. /\ \A q \in Sector, i \in Index : entryTable'[q][i] =
           IF q = p /\ i = e THEN "ERASED" ELSE entryTable[q][i]
      /\ \A q \in Sector, i \in Index : entryData'[q][i] =
           IF q = p /\ i = e THEN Garbage ELSE entryData[q][i]
      /\ \A q \in Sector : q # p => entryTable'[q] = entryTable[q]
      /\ UNCHANGED <<header, mState>>
      /\ mUsedEntryCount'[p] = mUsedEntryCount[p] - 1
      /\ \A q \in Sector : q # p => mUsedEntryCount'[q] = mUsedEntryCount[q]
  BY <1>1, DataTypes DEF EraseEntry
<1>3. mNextFreeEntry' = mNextFreeEntry
  <2>1. ~ (e + 1 > mNextFreeEntry[p])
    BY <1>1, DataTypes
  <2>2. mNextFreeEntry' = [mNextFreeEntry EXCEPT ![p] = mNextFreeEntry[p]]
    BY <2>1 DEF EraseEntry
  <2> QED
    BY <2>2, DataTypes
<1>4. header[p] # "UNINITIALIZED"
  BY <1>1 DEF EntryInv, BlankUnused
<1>5. BlankAfter'
  <2>1. \A i \in Index : i < e => entryTable[p][i] # "EMPTY"
    BY <1>1 DEF EntryInv, Prefix
  <2> QED
    BY <1>2, <2>1 DEF BlankAfter
<1>6. BlankSector'
  BY <1>2, <1>4 DEF BlankSector
<1>7. BlankNext'
  <2>1. mNextFreeEntry[p] # e
    BY <1>1, DataTypes
  <2>2. Back' = Back
    BY DEF Back
  <2> QED
    BY <1>2, <1>3, <2>1, <2>2 DEF BlankNext
<1>8. Counted'
  <2>1. Written(p)' = Written(p) \ {e}
    BY <1>2, EntryTypes DEF Written
  <2>2. Cardinality(Written(p) \ {e}) = Cardinality(Written(p)) - 1
    BY DataTypes, FS_RemoveElement
  <2>3. \A q \in Sector : q # p => Written(q)' = Written(q)
    BY <1>2 DEF Written
  <2>4. mUsedEntryCount'[p] = Cardinality(Written(p))' /\ mState[p] # "UNINITIALIZED"
    BY <1>2, <2>1, <2>2 DEF Counted, HasSeq
  <2> QED
    BY <1>2, <2>3, <2>4 DEF Counted
<1> QED
  BY <1>5, <1>6, <1>7, <1>8

\* A sector that is erased is blank.
LEMMA ErasePageData ==
  ASSUME Inv, EntryInv, DataInv, NEW p \in Sector, ErasePage(p),
         pc \notin {"load", "repair", "state", "copyState"}, pc' # "load", UNCHANGED loadIndex
  PROVE  DataInv'
<1> USE DEF DataInv
<1>1. /\ mState'[p] = "UNINITIALIZED" /\ header'[p] = "UNINITIALIZED" /\ mUsedEntryCount'[p] = 0
      /\ \A i \in Index : entryTable'[p][i] = "EMPTY" /\ entryData'[p][i] = Blank
      /\ \A q \in Sector : q # p => /\ mState'[q] = mState[q] /\ header'[q] = header[q]
                                    /\ mNextFreeEntry'[q] = mNextFreeEntry[q]
                                    /\ mUsedEntryCount'[q] = mUsedEntryCount[q]
                                    /\ entryTable'[q] = entryTable[q]
                                    /\ entryData'[q] = entryData[q]
  BY DataTypes DEF ErasePage, SectorErased
<1>2. BlankAfter' /\ BlankSector'
  BY <1>1 DEF BlankAfter, BlankSector
<1>3. BlankNext'
  BY <1>1 DEF BlankNext, HasSeq
<1>4. \A q \in Sector : q # p => Written(q)' = Written(q)
  BY <1>1 DEF Written
<1>5. Counted'
  BY <1>1, <1>4 DEF Counted, HasSeq
<1> QED
  BY <1>2, <1>3, <1>5

\* A half-written entry that is discarded is followed by a blank one.
LEMMA ClearHalfWrittenData ==
  ASSUME Inv, EntryInv, DataInv, NEW p \in Sector, HasSeq(mState[p]), HasSeq(header[p]),
         HalfWritten(p), ClearHalfWritten(p), pc' = pc, pc = "repair",
         UNCHANGED <<mPageList, loadIndex>>
  PROVE  DataInv'
<1> USE DEF DataInv
<1> DEFINE n == mNextFreeEntry[p]
<1>1. n \in Index /\ n \in Nat /\ entryTable[p][n] = "EMPTY"
  BY DataTypes DEF HalfWritten, BlankNext
<1>2. /\ \A q \in Sector, i \in Index : entryTable'[q][i] =
           IF q = p /\ i = n THEN "ERASED" ELSE entryTable[q][i]
      /\ \A q \in Sector, i \in Index : entryData'[q][i] =
           IF q = p /\ i = n THEN Garbage ELSE entryData[q][i]
      /\ \A q \in Sector : q # p => entryTable'[q] = entryTable[q]
      /\ UNCHANGED <<header, mState, mUsedEntryCount>>
      /\ mNextFreeEntry'[p] = n + 1
      /\ \A q \in Sector : q # p => mNextFreeEntry'[q] = mNextFreeEntry[q]
  BY <1>1, DataTypes DEF ClearHalfWritten
<1>3. \A i \in Index : i < n => entryTable[p][i] # "EMPTY"
  BY <1>1, DataTypes DEF EntryInv, Tracked
<1> HIDE DEF n
<1>4. BlankAfter'
  <2> SUFFICES ASSUME NEW q \in Sector, NEW i \in Index, NEW j \in Index, i < j,
                      entryTable'[q][i] = "EMPTY"
               PROVE  entryData'[q][j] = Blank
    BY DEF BlankAfter
  <2>1. entryTable[q][i] = "EMPTY"
    BY <1>2
  <2>2. ~ (q = p /\ j = n)
    BY <1>3, <2>1
  <2> QED
    BY <1>2, <2>1, <2>2 DEF BlankAfter
<1>5. BlankSector'
  BY <1>2 DEF BlankSector, HasSeq
<1>6. \A j \in Index : n < j => entryTable[p][j] = "EMPTY"
  BY <1>1 DEF EntryInv, Prefix
<1>7. BlankNext'
  <2> SUFFICES ASSUME NEW q \in Sector, HasSeq(mState[q]), mNextFreeEntry'[q] \in Index
               PROVE  /\ entryTable'[q][mNextFreeEntry'[q]] = "EMPTY"
                      /\ entryData'[q][mNextFreeEntry'[q]] = Blank \/ q = loadIndex
    BY <1>2 DEF BlankNext
  <2>1. CASE q = p
    <3>1. n < n + 1 /\ n + 1 # n /\ n + 1 \in Index
      BY <1>1, <1>2, <2>1
    <3>2. entryData[p][n + 1] = Blank
      BY <1>1, <3>1 DEF BlankAfter
    <3>3. entryTable[p][n + 1] = "EMPTY"
      BY <1>6, <3>1
    <3> QED
      BY <1>2, <2>1, <3>1, <3>2, <3>3
  <2>2. CASE q # p
    BY <1>2, <2>2 DEF BlankNext
  <2> QED
    BY <2>1, <2>2
<1>8. Counted'
  <2>1. Written(p)' = Written(p)
    BY <1>1, <1>2 DEF Written
  <2>2. \A q \in Sector : Written(q)' = Written(q)
    BY <1>2, <2>1 DEF Written
  <2> QED
    BY <1>2, <2>2 DEF Counted
<1> QED
  BY <1>4, <1>5, <1>7, <1>8

\* A page that gets its header has nothing on it.
LEMMA InitializeData ==
  ASSUME Inv, OrderInv, EntryInv, DataInv, NEW p \in Sector, mState[p] = "UNINITIALIZED",
         Initialize(p), pc \notin {"load", "repair", "state", "copyState"}, pc' # "load",
         UNCHANGED loadIndex
  PROVE  DataInv'
<1> USE DEF DataInv
<1>1. /\ header'[p] = "ACTIVE" /\ mState'[p] = "ACTIVE" /\ mNextFreeEntry'[p] = 0
      /\ UNCHANGED <<entryTable, entryData, mUsedEntryCount>>
      /\ \A q \in Sector : q # p => /\ mState'[q] = mState[q] /\ header'[q] = header[q]
                                    /\ mNextFreeEntry'[q] = mNextFreeEntry[q]
  BY DataTypes DEF Initialize
<1>2. header[p] = "UNINITIALIZED"
  BY DEF OrderInv, Agree
<1>3. \A i \in Index : entryTable[p][i] = "EMPTY" /\ entryData[p][i] = Blank
  BY <1>2 DEF EntryInv, BlankUnused, BlankSector
<1>4. BlankAfter' /\ BlankSector' /\ BlankNext'
  BY <1>1, <1>3 DEF BlankAfter, BlankSector, BlankNext
<1>5. \A q : Written(q)' = Written(q)
  BY <1>1 DEF Written
<1>6. Written(p) = {}
  BY <1>3 DEF Written
<1>7. Counted'
  BY <1>1, <1>5, <1>6, FS_EmptySet DEF Counted
<1> QED
  BY <1>4, <1>7

\* markFull() and markFreeing() change no entry.
LEMMA AlterPageStateData ==
  ASSUME Inv, DataInv, NEW p \in Sector, mState[p] \in {"FULL", "ACTIVE"},
         NEW state \in {"FULL", "FREEING"}, AlterPageState(p, state),
         pc \notin {"load", "repair", "state", "copyState"}, pc' # "load", UNCHANGED loadIndex
  PROVE  DataInv'
<1> USE DEF DataInv
<1>1. /\ header'[p] = state /\ mState'[p] = state
      /\ UNCHANGED <<entryTable, entryData, mNextFreeEntry, mUsedEntryCount>>
      /\ \A q \in Sector : q # p => mState'[q] = mState[q] /\ header'[q] = header[q]
  BY DataTypes DEF AlterPageState
<1>2. HasSeq(mState[p]) /\ state # "UNINITIALIZED"
  BY DEF HasSeq
<1>3. BlankAfter' /\ BlankSector' /\ BlankNext'
  BY <1>1, <1>2 DEF BlankAfter, BlankSector, BlankNext
<1>4. \A q : Written(q)' = Written(q)
  BY <1>1 DEF Written
<1>5. Counted'
  BY <1>1, <1>2, <1>4 DEF Counted
<1> QED
  BY <1>3, <1>5

\* An operation that is cut off leaves data only on the entry that was being written.
LEMMA HalfDoneData ==
  ASSUME Inv, OrderInv, EntryInv, DataInv, UNCHANGED flashVars \/ HalfDone
  PROVE  /\ BlankAfter' /\ BlankSector'
         /\ \A q \in Sector : q \notin EraseTarget \cup HeaderTarget \cup DataTarget =>
              entryTable'[q] = entryTable[q] /\ entryData'[q] = entryData[q]
<1> USE DEF DataInv
<1> DEFINE Kept == \A q \in Sector : q \notin EraseTarget \cup HeaderTarget \cup DataTarget =>
                     entryTable'[q] = entryTable[q] /\ entryData'[q] = entryData[q]
<1>1. CASE UNCHANGED flashVars
  BY <1>1 DEF flashVars, BlankAfter, BlankSector
<1>2. ASSUME NEW p \in EraseTarget, SectorErased(p, "CORRUPT")
      PROVE  BlankAfter' /\ BlankSector' /\ Kept
  <2>1. p \in Sector
    BY TargetSectors
  <2>2. /\ \A i \in Index : entryData'[p][i] = Blank
        /\ \A q \in Sector : q # p => /\ header'[q] = header[q] /\ entryTable'[q] = entryTable[q]
                                      /\ entryData'[q] = entryData[q]
    BY <1>2, <2>1, DataTypes DEF SectorErased
  <2> QED
    BY <2>1, <2>2 DEF BlankAfter, BlankSector
<1>3. ASSUME NEW p \in HeaderTarget, header' = [header EXCEPT ![p] = "CORRUPT"],
             UNCHANGED <<entryTable, entryData>>
      PROVE  BlankAfter' /\ BlankSector' /\ Kept
  <2>1. \A q \in Sector : header'[q] \in {header[q], "CORRUPT"}
    BY <1>3, DataTypes
  <2> QED
    BY <1>3, <2>1 DEF BlankAfter, BlankSector
<1>4. ASSUME NEW p \in DataTarget, entryData' = [entryData EXCEPT ![p][mNextFreeEntry[p]] = Garbage],
             UNCHANGED <<header, entryTable>>
      PROVE  BlankAfter' /\ BlankSector' /\ Kept
  <2>1. p \in Sector /\ p = Back /\ ~NoRoom(p) /\ HasSeq(mState[p])
    BY <1>4, TargetSectors DEF DataTarget, Inv, ControlInv, RoomInv, EntryInv, Writable
  <2>2. mNextFreeEntry[p] \in Index /\ mNextFreeEntry[p] \in Nat
    BY <2>1, DataTypes, EntryCountAssumption DEF NoRoom, Index
  <2>3. /\ \A q \in Sector : q # p => entryData'[q] = entryData[q]
        /\ \A q \in Sector, i \in Index : ~ (q = p /\ i = mNextFreeEntry[p]) =>
             entryData'[q][i] = entryData[q][i]
    BY <1>4, <2>1, DataTypes
  <2>4. \A i \in Index : i < mNextFreeEntry[p] => entryTable[p][i] # "EMPTY"
    BY <2>1, <2>2, DataTypes DEF EntryInv, Tracked
  <2>5. header[p] # "UNINITIALIZED"
    BY <2>1 DEF OrderInv, Agree, HasSeq
  <2>6. BlankAfter'
    BY <1>4, <2>2, <2>3, <2>4 DEF BlankAfter
  <2> QED
    BY <1>4, <2>3, <2>5, <2>6 DEF BlankSector
<1> QED
  BY <1>1, <1>2, <1>3, <1>4 DEF HalfDone

\* After a restart nothing is known of any page.
LEMMA StartLoadingData ==
  ASSUME Inv, OrderInv, EntryInv, DataInv, UNCHANGED flashVars \/ HalfDone, StartLoading
  PROVE  DataInv'
<1>1. BlankAfter' /\ BlankSector'
  BY HalfDoneData
<1>2. \A p \in Sector : mState'[p] = "INVALID" /\ mUsedEntryCount'[p] = 0
  BY DEF StartLoading, NewPageObjects
<1>3. BlankNext' /\ Counted'
  BY <1>2 DEF BlankNext, Counted, HasSeq
<1> QED
  BY <1>1, <1>3 DEF DataInv

\* A page that failed is not counted any more.
LEMMA FlashErrorData ==
  ASSUME ~FaultsWhileLoading, Inv, OrderInv, EntryInv, DataInv, FlashError
  PROVE  DataInv'
<1>1. PICK p \in EraseTarget \cup HeaderTarget \cup DataTarget \cup WordTarget :
        /\ mState' = [mState EXCEPT ![p] = "INVALID"]
        /\ \E n \in Int : mUsedEntryCount' = [mUsedEntryCount EXCEPT ![p] = n]
  <2>1. \A p \in EraseTarget \cup HeaderTarget \cup DataTarget \cup WordTarget :
          mUsedEntryCount[p] \in Int /\ mUsedEntryCount[p] - 1 \in Int
    BY TargetSectors, DataTypes
  <2> QED
    BY <2>1 DEF FlashError
<1>2. p \in Sector
  BY TargetSectors
<1>3. pc' = "return" /\ pc \notin {"repair", "load"} /\ loadIndex = PageCount
  <2>1. pc \in {"erasePage", "recover", "activate", "init", "copyInit", "data", "copyData", "state",
                "copyState", "markFull", "freeing", "repair", "dup", "erase", "clear"}
    BY <1>1 DEF EraseTarget, HeaderTarget, DataTarget, WordTarget
  <2>2. ~Booting /\ mStorageState = "ACTIVE"
    BY DEF FlashError, Inv, TypeOK, ManagerTypeOK
  <2>3. pc \notin LoadPC
    BY <2>1, <2>2 DEF Inv, ControlInv, PhaseInv
  <2>4. loadIndex = PageCount
    BY <2>3 DEF Inv, ControlInv, PhaseInv
  <2> QED
    BY <2>1, <2>2, <2>3, <2>4 DEF FlashError, Fail, Respond
<1>4. UNCHANGED flashVars \/ HalfDone
  BY DEF FlashError
<1>5. UNCHANGED <<mPageList, loadIndex, mNextFreeEntry>>
  BY DEF FlashError, managerVars
<1>6. BlankAfter' /\ BlankSector'
  BY <1>4, HalfDoneData
<1>7. \A q \in Sector : /\ q = p => mState'[q] = "INVALID"
                        /\ q # p => /\ mState'[q] = mState[q] /\ entryTable'[q] = entryTable[q]
                                    /\ entryData'[q] = entryData[q]
                                    /\ mUsedEntryCount'[q] = mUsedEntryCount[q]
  <2>1. \A q \in EraseTarget \cup HeaderTarget \cup DataTarget : q = p
    BY <1>1 DEF EraseTarget, HeaderTarget, DataTarget, WordTarget
  <2>2. \A q \in Sector : q # p => entryTable'[q] = entryTable[q] /\ entryData'[q] = entryData[q]
    BY <1>4, <2>1, HalfDoneData
  <2> QED
    BY <1>1, <1>2, <2>2, DataTypes
<1>8. BlankNext'
  <2>1. pc \in {"state", "copyState"} => p = Back
    BY <1>1 DEF EraseTarget, HeaderTarget, DataTarget, WordTarget
  <2> QED
    BY <1>3, <1>5, <1>7, <2>1 DEF DataInv, BlankNext, HasSeq
<1>9. Counted'
  <2>1. \A q \in Sector : q # p => Written(q)' = Written(q)
    BY <1>7 DEF Written
  <2>2. \A q \in Sector : ~ (q > loadIndex)
    BY <1>3, SectorNat, PageCountAssumption DEF Sector
  <2> QED
    BY <1>3, <1>5, <1>7, <2>1, <2>2 DEF DataInv, Counted, HasSeq
<1> QED
  BY <1>6, <1>8, <1>9 DEF DataInv

-----------------------------------------------------------------------------
(* The steps of the program. *)

\* No sector is past the last one.
LEMMA AllLoaded ==
  ASSUME Inv, pc \notin {"load", "repair", "insert"}
  PROVE  loadIndex = PageCount /\ \A p \in Sector : ~ (p > loadIndex)
<1>1. loadIndex = PageCount
  BY DEF Inv, ControlInv, PhaseInv
<1> QED
  BY <1>1, SectorNat, PageCountAssumption DEF Sector

\* What mLoadEntryTable takes for an older version is an entry in use.
LEMMA RepairDuplicateEntry ==
  ASSUME Inv, RepairDuplicate
  PROVE  LET j == Min(Superseding(loadIndex))
             i == Min(OlderEntries(loadIndex, j))
         IN  /\ loadIndex \in Sector
             /\ j \in Written(loadIndex) /\ j < mNextFreeEntry[loadIndex]
             /\ i \in OlderEntries(loadIndex, j) /\ i \in Written(loadIndex)
<1> DEFINE j == Min(Superseding(loadIndex))
           i == Min(OlderEntries(loadIndex, j))
<1>1. loadIndex \in Sector /\ Superseding(loadIndex) # {}
  BY DEF RepairDuplicate, Inv, ControlInv, PhaseInv
<1>2. Superseding(loadIndex) \in SUBSET Nat /\ Superseding(loadIndex) \in SUBSET Written(loadIndex)
  BY <1>1, WrittenFinite DEF Superseding
<1>3. j \in Superseding(loadIndex)
  BY <1>1, <1>2, MinProperty
<1> HIDE DEF j
<1>4. j \in Written(loadIndex) /\ j < mNextFreeEntry[loadIndex] /\ OlderEntries(loadIndex, j) # {}
  BY <1>3 DEF Superseding
<1>5. OlderEntries(loadIndex, j) \in SUBSET Nat
      /\ OlderEntries(loadIndex, j) \in SUBSET Written(loadIndex)
  BY <1>1, WrittenFinite DEF OlderEntries
<1>6. i \in OlderEntries(loadIndex, j) /\ i \in Written(loadIndex)
  BY <1>4, <1>5, MinProperty
<1> QED
  BY <1>1, <1>4, <1>6 DEF j

\* What a request erases is an entry in use.
LEMMA ErasedEntry ==
  ASSUME Inv, EraseFound \/ EraseOfNamespace, ~UNCHANGED pageVars
  PROVE  \E p \in Sector : HasSeq(mState[p]) /\ \E i \in Written(p) : EraseEntry(p, i)
<1>1. CASE EraseFound
  <2> DEFINE i == FindOnPage(OldVersionOn, op.key, op.type)
  <2>1. OldVersionOn # NoPage /\ i # INVALID_ENTRY /\ EraseEntry(OldVersionOn, i)
    BY <1>1 DEF EraseFound
  <2>2. OldVersionOn \in Sector
    BY <2>1, FindPageProperty DEF OldVersionOn, Inv, TypeOK, Page
  <2>3. i \in Written(OldVersionOn) /\ HasSeq(mState[OldVersionOn])
    BY <2>1, <2>2, FindOnPageProperty
  <2> QED
    BY <2>1, <2>2, <2>3
<1>2. CASE EraseOfNamespace
  <2> DEFINE n == Min(ClearPages(op.ns))
             p == mPageList[n]
             i == FindNamespace(p, op.ns)
  <2>1. ClearPages(op.ns) # {} /\ EraseEntry(p, i)
    BY <1>2 DEF EraseOfNamespace
  <2>2. ClearPages(op.ns) \in SUBSET DOMAIN mPageList /\ DOMAIN mPageList \in SUBSET Nat
    BY OrderTypes DEF ClearPages
  <2>3. n \in ClearPages(op.ns)
    BY <2>1, <2>2, MinProperty
  <2>4. n \in DOMAIN mPageList /\ i # INVALID_ENTRY
    BY <2>3 DEF ClearPages
  <2>5. p \in Sector
    BY <2>4, OrderTypes
  <2>6. i \in Written(p) /\ HasSeq(mState[p])
    BY <2>4, <2>5, FindNamespaceProperty
  <2> QED
    BY <2>1, <2>5, <2>6
<1> QED
  BY <1>1, <1>2

\* load() keeps what is known of the data.
LEMMA LoadData ==
  ASSUME Inv, PagesListed, OrderInv, EntryInv, DataInv, Load
  PROVE  DataInv'
<1> USE DEF managerVars, localVars
<1>1. CASE LoadSector
  BY <1>1, LoadPageData, SectorAtHand DEF LoadSector
<1>2. CASE RepairHalfWritten
  <2>1. /\ loadIndex \in Sector /\ pc = "repair" /\ HasSeq(header[loadIndex])
        /\ HasSeq(mState[loadIndex])
    BY <1>2 DEF RepairHalfWritten, Inv, ControlInv, PhaseInv, EntryInv, Writable, OrderInv, Loaded,
       Read, HasSeq
  <2> QED
    BY <1>2, <2>1, ClearHalfWrittenData DEF RepairHalfWritten
<1>3. CASE RepairDuplicate
  <2> DEFINE i == Min(OlderEntries(loadIndex, Min(Superseding(loadIndex))))
  <2>1. loadIndex \in Sector /\ i \in Written(loadIndex)
    BY <1>3, RepairDuplicateEntry
  <2>2. EraseEntry(loadIndex, i) /\ pc = "repair" /\ pc' = pc /\ UNCHANGED <<mPageList, loadIndex>>
    BY <1>3 DEF RepairDuplicate
  <2>3. HasSeq(mState[loadIndex]) /\ ~ (loadIndex > loadIndex)
    BY <2>1, <2>2, SectorNat DEF EntryInv, Writable, OrderInv, Loaded, Read, HasSeq
  <2> HIDE DEF i
  <2> QED
    BY <2>1, <2>2, <2>3, EraseEntryData
<1>4. CASE InsertPage
  <2>1. /\ loadIndex \in Sector /\ pc = "insert" /\ loadIndex' = loadIndex + 1
        /\ UNCHANGED <<header, entryTable, entryData, mState, mNextFreeEntry, mUsedEntryCount>>
    BY <1>4 DEF InsertPage, pageVars, Inv, ControlInv, PhaseInv
  <2>2. \A q \in Sector : (q > loadIndex + 1 \/ q = loadIndex + 1) => q > loadIndex
    BY <2>1, SectorNat
  <2>3. BlankAfter' /\ BlankSector' /\ BlankNext'
    BY <2>1 DEF DataInv, BlankAfter, BlankSector, BlankNext
  <2>4. \A q : Written(q)' = Written(q)
    BY <2>1 DEF Written
  <2>5. Counted'
    BY <2>1, <2>2, <2>4 DEF DataInv, Counted
  <2> QED
    BY <2>3, <2>5 DEF DataInv
<1>5. CASE EraseOldVersion
  <2> DEFINE p == OldVersionPage
             i == FindOnPage(p, LastItem.key, LastItem.type)
  <2>1. pc = "dup" /\ pc' = "recover" /\ UNCHANGED <<mPageList, loadIndex>>
    BY <1>5 DEF EraseOldVersion
  <2>2. CASE OldVersionPages = {}
    BY <1>5, <2>1, <2>2, SameData DEF EraseOldVersion, pageVars
  <2>3. CASE OldVersionPages # {}
    <3>1. p \in Sector /\ i \in Index
      BY <2>3, OldVersionProperty
    <3>2. i \in Written(p) /\ HasSeq(mState[p])
      BY <3>1, EntryNat, FindOnPageProperty
    <3>3. EraseEntry(p, i)
      BY <1>5, <2>3 DEF EraseOldVersion
    <3>4. ~ (p > loadIndex)
      BY <2>1, <3>1, AllLoaded
    <3> HIDE DEF p, i
    <3> QED
      BY <2>1, <3>1, <3>2, <3>3, <3>4, EraseEntryData
  <2> QED
    BY <2>2, <2>3
<1>6. CASE RecoverFreeing
  <2>1. Back \in Sector
    BY <1>6, OrderTypes DEF RecoverFreeing, Inv, ControlInv, MoveInv
  <2>2. CASE mState[Back] = "ACTIVE"
    BY <1>6, <2>1, <2>2, ErasePageData DEF RecoverFreeing
  <2>3. CASE mState[Back] # "ACTIVE"
    BY <1>6, <2>3, SameData DEF RecoverFreeing, pageVars
  <2> QED
    BY <2>2, <2>3
<1>7. CASE RepairDone \/ Settle \/ NothingFreeing \/ CheckFreePages
  BY <1>7, SameData DEF RepairDone, Settle, NothingFreeing, CheckFreePages, pageVars
<1> QED
  BY <1>1, <1>2, <1>3, <1>4, <1>5, <1>6, <1>7 DEF Load

\* So does the moving of items to a new page.
LEMMA MoveData ==
  ASSUME Inv, PagesListed, OrderInv, EntryInv, DataInv, Move
  PROVE  DataInv'
<1> USE DEF managerVars, localVars, pageVars, Respond
<1>1. CASE RequestNewPage \/ ActivateNothing \/ StartCopy
  BY <1>1, SameData DEF RequestNewPage, ActivateNothing, Fail, StartCopy
<1>2. CASE ActivatePage
  BY <1>2, SameData DEF ActivatePage, flashVars
<1>3. CASE EraseCorrupt
  <2>1. Head(mFreePageList) \in Sector
    BY <1>3, OrderTypes DEF EraseCorrupt
  <2> QED
    BY <1>3, <2>1, ErasePageData DEF EraseCorrupt
<1>4. CASE MarkFreeing
  <2>1. erasedPage \in Sector
    BY <1>4, OrderTypes DEF MarkFreeing, Inv, ControlInv, MoveInv
  <2>2. CASE mState[erasedPage] \in {"FULL", "ACTIVE"}
    BY <1>4, <2>1, <2>2, AlterPageStateData DEF MarkFreeing
  <2>3. CASE mState[erasedPage] \notin {"FULL", "ACTIVE"}
    BY <1>4, <2>3, SameData DEF MarkFreeing
  <2> QED
    BY <2>2, <2>3
<1>5. CASE CopyInit
  <2>1. Back \in Sector /\ mState[Back] = "UNINITIALIZED"
    BY <1>5, OrderTypes DEF CopyInit, Inv, ControlInv, MoveInv, OrderInv, ActiveLast
  <2> QED
    BY <1>5, <2>1, InitializeData DEF CopyInit
<1>6. CASE CopyData
  <2>1. CASE NoRoom(Back)
    BY <1>6, <2>1, SameData DEF CopyData
  <2>2. CASE ~NoRoom(Back)
    <3>1. Back \in Sector /\ Back' = Back
      BY <1>6, OrderTypes DEF CopyData, Inv, ControlInv, MoveInv, Back
    <3>2. HasSeq(mState[Back]) /\ HasSeq(header[Back])
      BY <1>6, <2>2, <3>1 DEF CopyData, EntryInv, Writable, OrderInv, Agree, HasSeq
    <3>3. WriteEntryData(Back, entryData[erasedPage][readEntryIndex])
          /\ pc = "copyData" /\ pc' = "copyState" /\ loadIndex' = loadIndex
      BY <1>6, <2>2 DEF CopyData
    <3> QED
      BY <2>2, <3>1, <3>2, <3>3, WriteEntryDataData
  <2> QED
    BY <2>1, <2>2
<1>7. CASE CopyState
  <2>1. Back \in Sector /\ loadIndex = PageCount
    BY <1>7, OrderTypes, AllLoaded DEF CopyState, Inv, ControlInv, MoveInv
  <2>2. HasSeq(mState[Back]) /\ HasSeq(header[Back]) /\ ~NoRoom(Back)
    BY <1>7, <2>1 DEF CopyState, EntryInv, Writable, OrderInv, Agree, HasSeq, Inv, ControlInv, RoomInv
  <2>3. WriteEntryState(Back) /\ pc = "copyState" /\ pc' # "load" /\ loadIndex' = loadIndex
    BY <1>7 DEF CopyState
  <2> QED
    BY <2>1, <2>2, <2>3, WriteEntryStateData
<1>8. CASE FreePage
  <2>1. erasedPage \in Sector
    BY <1>8, OrderTypes DEF FreePage, Inv, ControlInv, MoveInv
  <2> QED
    BY <1>8, <2>1, ErasePageData DEF FreePage
<1> QED
  BY <1>1, <1>2, <1>3, <1>4, <1>5, <1>6, <1>7, <1>8 DEF Move

\* So do requests.
LEMMA ServeData ==
  ASSUME Inv, PagesListed, OrderInv, EntryInv, DataInv, Begin \/ Serve
  PROVE  DataInv'
<1> USE DEF managerVars, localVars, pageVars, Respond
<1>1. CASE Begin \/ FindForSet \/ FindForErase \/ TryWrite \/ Return
  BY <1>1, SameData DEF Begin, FindForSet, FindForErase, TryWrite, Return
<1>2. CASE InitPage
  <2>1. Back \in Sector /\ mState[Back] = "UNINITIALIZED"
    BY <1>2, OrderTypes DEF InitPage, Inv, ControlInv, MoveInv, OrderInv, ActiveLast
  <2> QED
    BY <1>2, <2>1, InitializeData DEF InitPage
<1>3. CASE WriteData
  <2>1. Back \in Sector /\ Back' = Back
    BY <1>3, OrderTypes DEF WriteData, Inv, ControlInv, MoveInv, Back
  <2>2. HasSeq(mState[Back]) /\ HasSeq(header[Back]) /\ ~NoRoom(Back)
    BY <1>3, <2>1 DEF WriteData, EntryInv, Writable, OrderInv, Agree, HasSeq, Inv, ControlInv, RoomInv
  <2>3. /\ WriteEntryData(Back, [key |-> op.key, type |-> op.type, val |-> op.val])
        /\ pc = "data" /\ pc' = "state" /\ loadIndex' = loadIndex
    BY <1>3 DEF WriteData
  <2> QED
    BY <2>1, <2>2, <2>3, WriteEntryDataData
<1>4. CASE WriteState
  <2>1. Back \in Sector /\ loadIndex = PageCount
    BY <1>4, OrderTypes, AllLoaded DEF WriteState, Inv, ControlInv, MoveInv
  <2>2. HasSeq(mState[Back]) /\ HasSeq(header[Back]) /\ ~NoRoom(Back)
    BY <1>4, <2>1 DEF WriteState, EntryInv, Writable, OrderInv, Agree, HasSeq, Inv, ControlInv, RoomInv
  <2>3. WriteEntryState(Back) /\ pc = "state" /\ pc' # "load" /\ loadIndex' = loadIndex
    BY <1>4 DEF WriteState
  <2> QED
    BY <2>1, <2>2, <2>3, WriteEntryStateData
<1>5. CASE MarkFull
  <2>1. Back \in Sector
    BY <1>5, OrderTypes DEF MarkFull, Inv, ControlInv, MoveInv
  <2>2. CASE mState[Back] = "ACTIVE"
    BY <1>5, <2>1, <2>2, AlterPageStateData DEF MarkFull
  <2>3. CASE mState[Back] # "ACTIVE"
    BY <1>5, <2>3, SameData DEF MarkFull
  <2> QED
    BY <2>2, <2>3
<1>6. CASE EraseFound \/ EraseOfNamespace
  <2>1. /\ UNCHANGED <<mPageList, loadIndex>> /\ pc \in {"erase", "clear"}
        /\ pc' \in {"failed", "return", pc}
    BY <1>6 DEF EraseFound, EraseOfNamespace
  <2>2. CASE UNCHANGED pageVars
    BY <2>1, <2>2, SameData
  <2>3. CASE ~UNCHANGED pageVars
    <3>1. PICK p \in Sector : HasSeq(mState[p]) /\ \E i \in Written(p) : EraseEntry(p, i)
      BY <1>6, <2>3, ErasedEntry
    <3>2. ~ (p > loadIndex)
      BY <2>1, AllLoaded
    <3> QED
      BY <2>1, <3>1, <3>2, EraseEntryData
  <2> QED
    BY <2>2, <2>3
<1> QED
  BY <1>1, <1>2, <1>3, <1>4, <1>5, <1>6 DEF Serve

(***************************************************************************)
(* The data of the entries is in order and counted right as long as no     *)
(* flash operation of load() fails.                                        *)
(***************************************************************************)
THEOREM DataHolds ==
  ASSUME ~FaultsWhileLoading
  PROVE  Spec => []DataInv
<1>1. Init => DataInv
  <2> SUFFICES ASSUME Init PROVE DataInv
    OBVIOUS
  <2>1. \A p \in Sector : /\ mState[p] = "INVALID" /\ mUsedEntryCount[p] = 0
                         /\ \A i \in Index : entryData[p][i] = Blank
    BY DEF Init
  <2> QED
    BY <2>1 DEF DataInv, BlankAfter, BlankSector, BlankNext, Counted, HasSeq
<1>2. Inv /\ PagesListed /\ OrderInv /\ EntryInv /\ DataInv /\ [Next]_vars => DataInv'
  <2> SUFFICES ASSUME Inv, PagesListed, OrderInv, EntryInv, DataInv, [Next]_vars PROVE DataInv'
    OBVIOUS
  <2>1. CASE Manage
    BY <2>1, LoadData, MoveData DEF Manage
  <2>2. CASE Begin \/ Serve
    BY <2>2, ServeData
  <2>3. CASE Crash \/ Reinitialize
    BY <2>3, StartLoadingData DEF Crash, Reinitialize
  <2>4. CASE FlashError
    BY <2>4, FlashErrorData
  <2>5. CASE UNCHANGED vars
    BY <2>5, SameData DEF vars, pageVars, managerVars, localVars
  <2> QED
    BY <2>1, <2>2, <2>3, <2>4, <2>5 DEF Next
<1> QED
  BY <1>1, <1>2, InvHolds, ListsCorrect, OrderHolds, EntryHolds, PTL DEF Spec
-----------------------------------------------------------------------------
(* Flash is written where it is blank. *)

\* What WritesOnlyBlank asks of a step; and a step that writes no header and no item.
OntoBlank ==
  \A p \in Sector :
    /\ header'[p] = "ACTIVE" /\ header[p] # "ACTIVE" =>
         /\ header[p] = "UNINITIALIZED"
         /\ \A i \in Index : entryData[p][i] = Blank
    /\ \A i \in Index : entryData'[p][i] # entryData[p][i] /\ entryData'[p][i] \in Item =>
         entryData[p][i] = Blank

NothingWritten ==
  \A p \in Sector :
    /\ header'[p] \in {header[p], "FULL", "FREEING", "CORRUPT", "UNINITIALIZED"}
    /\ \A i \in Index : entryData'[p][i] \in {entryData[p][i], Blank, Garbage}

LEMMA NothingOntoBlank == NothingWritten => OntoBlank
BY DataAssumption DEF NothingWritten, OntoBlank

\* The operations of a page that write neither.
LEMMA PageWritesNothing ==
  ASSUME Inv, NEW p \in Sector,
         \/ UNCHANGED <<header, entryData>>
         \/ ErasePage(p) \/ SectorErased(p, "CORRUPT")
         \/ \E i \in Index : EraseEntry(p, i)
         \/ HalfWritten(p) /\ ClearHalfWritten(p)
         \/ \E state \in {"FULL", "FREEING"} : AlterPageState(p, state)
  PROVE  OntoBlank
<1>1. CASE UNCHANGED <<header, entryData>>
  BY <1>1, NothingOntoBlank DEF NothingWritten
<1>2. CASE ErasePage(p) \/ SectorErased(p, "CORRUPT")
  BY <1>2, NothingOntoBlank, DataTypes DEF NothingWritten, ErasePage, SectorErased
<1>3. CASE \E i \in Index : EraseEntry(p, i)
  BY <1>3, NothingOntoBlank, DataTypes DEF NothingWritten, EraseEntry
<1>4. CASE HalfWritten(p) /\ ClearHalfWritten(p)
  BY <1>4, NothingOntoBlank, DataTypes DEF NothingWritten, HalfWritten, ClearHalfWritten
<1>5. CASE \E state \in {"FULL", "FREEING"} : AlterPageState(p, state)
  BY <1>5, NothingOntoBlank, DataTypes DEF NothingWritten, AlterPageState
<1> QED
  BY <1>1, <1>2, <1>3, <1>4, <1>5

\* Page::initialize, of a page that was erased.
LEMMA InitializeOntoBlank ==
  ASSUME Inv, OrderInv, EntryInv, DataInv, pc \in {"init", "copyInit"}, Initialize(Back)
  PROVE  OntoBlank
<1>1. Back \in Sector /\ mState[Back] = "UNINITIALIZED"
  BY OrderTypes DEF Inv, ControlInv, MoveInv, OrderInv, ActiveLast
<1>2. header[Back] = "UNINITIALIZED"
  BY <1>1 DEF OrderInv, Agree
<1>3. \A i \in Index : entryData[Back][i] = Blank
  BY <1>1, <1>2 DEF DataInv, BlankSector
<1> QED
  BY <1>1, <1>2, <1>3, DataTypes DEF Initialize, OntoBlank

\* writeEntry, where the page is next written.
LEMMA WriteEntryDataOntoBlank ==
  ASSUME Inv, OrderInv, EntryInv, DataInv, pc \in {"data", "copyData"}, ~NoRoom(Back),
         NEW item, WriteEntryData(Back, item)
  PROVE  OntoBlank
<1> DEFINE n == mNextFreeEntry[Back]
<1>1. Back \in Sector /\ HasSeq(mState[Back])
  BY OrderTypes DEF Inv, ControlInv, MoveInv, EntryInv, Writable
<1>2. n \in Index
  BY <1>1, DataTypes, EntryCountAssumption DEF NoRoom, Index
<1>3. entryData[Back][n] = Blank
  BY <1>1, <1>2 DEF DataInv, BlankNext
<1>4. \A q \in Sector, i \in Index :
        ~ (q = Back /\ i = n) => entryData'[q][i] = entryData[q][i]
  BY <1>1, <1>2, DataTypes DEF WriteEntryData
<1>5. header' = header
  BY DEF WriteEntryData
<1> HIDE DEF n
<1> QED
  BY <1>3, <1>4, <1>5 DEF OntoBlank

\* What the page manager writes.
LEMMA ManageOntoBlank ==
  ASSUME Inv, OrderInv, EntryInv, DataInv, Manage
  PROVE  OntoBlank
<1> USE DEF pageVars, flashVars
<1>1. CASE RepairHalfWritten
  BY <1>1, PageWritesNothing DEF RepairHalfWritten, Inv, ControlInv, PhaseInv
<1>2. CASE RepairDuplicate
  BY <1>2, RepairDuplicateEntry, WrittenFinite, PageWritesNothing DEF RepairDuplicate
<1>3. CASE EraseOldVersion
  <2>1. CASE OldVersionPages = {}
    BY <1>3, <2>1, NothingOntoBlank DEF EraseOldVersion, NothingWritten
  <2>2. CASE OldVersionPages # {}
    BY <1>3, <2>2, OldVersionProperty, PageWritesNothing DEF EraseOldVersion
  <2> QED
    BY <2>1, <2>2
<1>4. CASE RecoverFreeing
  BY <1>4, OrderTypes, PageWritesNothing DEF RecoverFreeing, Inv, ControlInv, MoveInv
<1>5. CASE EraseCorrupt
  BY <1>5, OrderTypes, PageWritesNothing DEF EraseCorrupt
<1>6. CASE MarkFreeing
  BY <1>6, OrderTypes, PageWritesNothing DEF MarkFreeing, Inv, ControlInv, MoveInv
<1>7. CASE CopyInit
  BY <1>7, InitializeOntoBlank DEF CopyInit
<1>8. CASE CopyData
  <2>1. CASE NoRoom(Back)
    BY <1>8, <2>1, NothingOntoBlank DEF CopyData, NothingWritten
  <2>2. CASE ~NoRoom(Back)
    BY <1>8, <2>2, WriteEntryDataOntoBlank DEF CopyData
  <2> QED
    BY <2>1, <2>2
<1>9. CASE FreePage
  BY <1>9, OrderTypes, PageWritesNothing DEF FreePage, Inv, ControlInv, MoveInv
<1>10. CASE LoadSector \/ RepairDone \/ InsertPage \/ Settle \/ NothingFreeing \/ CheckFreePages
            \/ RequestNewPage \/ ActivatePage \/ ActivateNothing \/ StartCopy \/ CopyState
  BY <1>10, NothingOntoBlank DEF NothingWritten, LoadSector, LoadPage, RepairDone, InsertPage,
     Settle, NothingFreeing, CheckFreePages, RequestNewPage, ActivatePage, ActivateNothing,
     StartCopy, CopyState, WriteEntryState
<1> QED
  BY <1>1, <1>2, <1>3, <1>4, <1>5, <1>6, <1>7, <1>8, <1>9, <1>10 DEF Manage, Load, Move

\* What requests write.
LEMMA ServeOntoBlank ==
  ASSUME Inv, OrderInv, EntryInv, DataInv, Begin \/ Serve
  PROVE  OntoBlank
<1> USE DEF pageVars, flashVars
<1>1. CASE InitPage
  BY <1>1, InitializeOntoBlank DEF InitPage
<1>2. CASE WriteData
  BY <1>2, WriteEntryDataOntoBlank DEF WriteData, Inv, ControlInv, RoomInv
<1>3. CASE MarkFull
  BY <1>3, OrderTypes, PageWritesNothing DEF MarkFull, Inv, ControlInv, MoveInv
<1>4. CASE EraseFound \/ EraseOfNamespace
  <2>1. CASE UNCHANGED pageVars
    BY <2>1, NothingOntoBlank DEF NothingWritten
  <2>2. CASE ~UNCHANGED pageVars
    BY <1>4, <2>2, ErasedEntry, WrittenFinite, PageWritesNothing
  <2> QED
    BY <2>1, <2>2
<1>5. CASE Begin \/ FindForSet \/ FindForErase \/ TryWrite \/ WriteState \/ Return
  BY <1>5, NothingOntoBlank DEF NothingWritten, Begin, FindForSet, FindForErase, TryWrite,
     WriteState, WriteEntryState, Return
<1> QED
  BY <1>1, <1>2, <1>3, <1>4, <1>5 DEF Serve

\* An operation that is cut off leaves no item.
LEMMA CutOffOntoBlank ==
  ASSUME Inv, UNCHANGED flashVars \/ HalfDone
  PROVE  OntoBlank
<1>1. CASE UNCHANGED flashVars
  BY <1>1, NothingOntoBlank DEF flashVars, NothingWritten
<1>2. CASE \E p \in EraseTarget : SectorErased(p, "CORRUPT")
  BY <1>2, TargetSectors, PageWritesNothing
<1>3. ASSUME NEW p \in HeaderTarget,
             header' = [header EXCEPT ![p] = "CORRUPT"], UNCHANGED entryData
      PROVE  OntoBlank
  BY <1>3, DataTypes, NothingOntoBlank DEF NothingWritten
<1>4. ASSUME NEW p \in DataTarget,
             entryData' = [entryData EXCEPT ![p][mNextFreeEntry[p]] = Garbage], UNCHANGED header
      PROVE  OntoBlank
  BY <1>4, DataTypes, NothingOntoBlank DEF NothingWritten
<1> QED
  BY <1>1, <1>2, <1>3, <1>4 DEF HalfDone

(***************************************************************************)
(* As long as no flash operation of load() fails, no header and no entry   *)
(* is ever written over what an earlier write, finished or cut off, left.  *)
(***************************************************************************)
THEOREM OnlyBlankWritten ==
  ASSUME ~FaultsWhileLoading
  PROVE  Spec => WritesOnlyBlank
<1>1. Inv /\ OrderInv /\ EntryInv /\ DataInv /\ [Next]_vars => OntoBlank
  <2> SUFFICES ASSUME Inv, OrderInv, EntryInv, DataInv, [Next]_vars PROVE OntoBlank
    OBVIOUS
  <2>1. CASE Manage
    BY <2>1, ManageOntoBlank
  <2>2. CASE Begin \/ Serve
    BY <2>2, ServeOntoBlank
  <2>3. CASE Crash \/ Reinitialize \/ FlashError
    BY <2>3, CutOffOntoBlank DEF Crash, Reinitialize, FlashError
  <2>4. CASE UNCHANGED vars
    BY <2>4, NothingOntoBlank DEF vars, pageVars, NothingWritten
  <2> QED
    BY <2>1, <2>2, <2>3, <2>4 DEF Next
<1> QED
  BY <1>1, InvHolds, OrderHolds, EntryHolds, DataHolds, PTL DEF Spec, WritesOnlyBlank, OntoBlank

-----------------------------------------------------------------------------
(***************************************************************************)
(* The strengthening: the pages.  As long as no operation has failed, no   *)
(* page of the lists has (Healthy), and a page without a header is the     *)
(* last one, that is yet to be written (Headerless).  There is one FREEING *)
(* page at most, the one being freed (OneFreeing), and the page its items  *)
(* go to gets its header with the first of them (NewPage).                 *)
(***************************************************************************)
Running == pc \notin {"halted", "failed"} /\ ~ (pc = "return" /\ ret \in Failure)

Healthy == Running => \A p \in InUse \cup Free : mState[p] # "INVALID"

Early == Loading \cup {"dup", "recover"}

Headed == Early \cup {"request", "activate", "markFull", "data", "state", "copyData", "copyState"}

Headerless == Running => \A p \in InUse : mState[p] = "UNINITIALIZED" => p = Back /\ pc \notin Headed

Chosen == pc = "freeing" \/ (pc = "activate" /\ ~Booting /\ erasedPage # NoPage)

Moving ==
  \/ pc \in {"copy", "copyInit", "copyData", "copyState", "erasePage"}
  \/ pc = "activate" /\ Booting /\ erasedPage # NoPage

OneFreeing ==
  /\ \A p, q \in Sector : header[p] = "FREEING" /\ header[q] = "FREEING" => p = q
  /\ Running /\ pc \notin Early => \A p \in Sector : header[p] = "FREEING" => p = erasedPage
  /\ Chosen => header[erasedPage] = "FULL"
  /\ Moving => header[erasedPage] = "FREEING"

NewPage ==
  /\ pc \in {"freeing", "copy", "copyInit"} => mState[Back] = "UNINITIALIZED"
  /\ pc \in {"copyData", "copyState"} => mState[Back] = "ACTIVE"

FreeingInv == Healthy /\ Headerless /\ OneFreeing /\ NewPage

\* What is known of the pages while no operation has failed.
LEMMA ListedPages ==
  ASSUME Inv, PagesListed, OrderInv, EntryInv, FreeingInv, Running
  PROVE  /\ \A p \in InUse \cup Free : p \in Sector /\ mState[p] = header[p]
         /\ \A p \in InUse : p # Back \/ pc \in Headed => HasSeq(mState[p])
         /\ \A p \in Free : mState[p] \in {"UNINITIALIZED", "CORRUPT"}
         /\ pc \notin {"load", "repair", "insert"} =>
              \A p \in Sector : HasSeq(header[p]) => p \in InUse
<1>1. \A p \in InUse \cup Free : p \in Sector /\ mState[p] = header[p]
  BY OrderTypes DEF FreeingInv, Healthy, OrderInv, Agree
<1>2. \A p \in InUse : p # Back \/ pc \in Headed => HasSeq(mState[p])
  BY <1>1 DEF FreeingInv, Healthy, Headerless, EntryInv, Writable, HasSeq
<1>3. \A p \in Free : mState[p] \in {"UNINITIALIZED", "CORRUPT"}
  BY <1>1, OrderTypes DEF OrderInv, FreeUnused, HasSeq, HeaderState
<1>4. pc \notin {"load", "repair", "insert"} =>
        \A p \in Sector : HasSeq(header[p]) => p \in InUse
  BY AllLoaded, SectorNat, PageCountAssumption DEF PagesListed, OrderInv, FreeUnused, Sector
<1> QED
  BY <1>1, <1>2, <1>3, <1>4

\* What the steps do to the lists.
LEMMA ActivatedPage ==
  ASSUME Inv, PagesListed, OrderInv, ActivatePage
  PROVE  LET a == Head(mFreePageList)
         IN  /\ a \in Sector /\ a \in Free /\ a \notin InUse
             /\ InUse' = InUse \cup {a} /\ Free' = Free \ {a} /\ Back' = a
<1> DEFINE a == Head(mFreePageList)
<1>1. a \in Sector /\ a \in Free /\ a \notin InUse
  <2>1. mFreePageList # <<>> /\ mFreePageList \in Seq(Sector)
    BY OrderTypes DEF ActivatePage
  <2>2. 1 \in DOMAIN mFreePageList /\ a = mFreePageList[1] /\ a \in Sector
    BY <2>1
  <2> QED
    BY <2>2 DEF Free, PagesListed
<1>2. mPageList' = Append(mPageList, a) /\ mFreePageList' = Tail(mFreePageList)
      /\ mFreePageList # <<>>
  BY DEF ActivatePage
<1>3. Free' = Free \ {a}
  BY <1>2, TailOnce, OrderTypes, ListElements DEF PagesListed
<1> HIDE DEF a
<1>4. InUse' = InUse \cup {a}
  <2>1. mPageList \in Seq(Sector) /\ a \in Sector
    BY <1>1, OrderTypes
  <2>2. Range(Append(mPageList, a)) = Range(mPageList) \cup {a}
    BY <2>1, AppendElements
  <2> QED
    BY <1>2, <2>2, ListElements
<1>5. Back' = a
  <2>1. mPageList \in Seq(Sector) /\ mPageList' = Append(mPageList, a)
    BY <1>2, OrderTypes
  <2>2. mPageList' \in Seq(Sector) /\ Len(mPageList') = Len(mPageList) + 1
    BY <1>1, <2>1
  <2>3. mPageList'[Len(mPageList) + 1] = a
    BY <1>1, <2>1
  <2> QED
    BY <2>2, <2>3 DEF Back, Last
<1> QED
  BY <1>1, <1>3, <1>4, <1>5 DEF a

LEMMA FreedPage ==
  ASSUME Inv, PagesListed, OrderInv, FreePage
  PROVE  /\ erasedPage \in Sector /\ erasedPage \in InUse /\ erasedPage \notin Free
         /\ erasedPage # Back /\ Back \in Sector /\ Back \in InUse
         /\ InUse' = InUse \ {erasedPage} /\ Free' = Free \cup {erasedPage} /\ Back' = Back
<1> DEFINE e == erasedPage
<1>1. /\ e \in Sector /\ e \in InUse /\ e \notin Free /\ e # Back /\ mPageList # <<>>
      /\ Back \in Sector /\ Back \in InUse
  BY OrderTypes DEF FreePage, Inv, ControlInv, MoveInv, PagesListed, OrderInv, Apart
<1>2. mPageList' = Without(mPageList, e) /\ mFreePageList' = Append(mFreePageList, e)
  BY DEF FreePage
<1> HIDE DEF e
<1>3. PICK i \in 1 .. Len(mPageList) :
        mPageList[i] = e /\ mPageList' = RemoveAt(mPageList, i)
  BY <1>1, <1>2, OrderTypes, WithoutProperty, ListElements
<1>4. InUse' = InUse \ {e}
  BY <1>3, OrderTypes, RemoveOnce, ListElements DEF PagesListed
<1>5. Free' = Free \cup {e}
  BY <1>1, <1>2, OrderTypes, AppendElements, ListElements
<1>6. Last(mPageList') = Last(mPageList)
  <2> DEFINE s == mPageList
  <2>1. s[i] # s[Len(s)] /\ s \in Seq(Sector)
    BY <1>1, <1>3, OrderTypes
  <2>2. Last(RemoveAt(s, i)) = Last(s)
    <3> HIDE DEF s
    <3> QED
      BY <2>1, RemoveSorted DEF s
  <2> QED
    BY <1>3, <2>2
<1> QED
  BY <1>1, <1>4, <1>5, <1>6 DEF Back, e

LEMMA RecoveredPages ==
  ASSUME Inv, PagesListed, OrderInv, RecoverFreeing
  PROVE  /\ erasedPage' \in InUse /\ erasedPage' \in Sector
         /\ mState[erasedPage'] = "FREEING" /\ header[erasedPage'] = "FREEING"
         /\ Back \in Sector /\ Back \in InUse /\ Back \notin Free
         /\ mState[Back] = "ACTIVE" =>
              InUse' = InUse \ {Back} /\ Free' = Free \cup {Back} /\ ErasePage(Back)
         /\ mState[Back] # "ACTIVE" =>
              InUse' = InUse /\ Free' = Free /\ Back' = Back /\ UNCHANGED pageVars
<1>1. pc = "recover" /\ FreeingPages # {} /\ erasedPage' = mPageList[Min(FreeingPages)]
  BY DEF RecoverFreeing
<1>2. Min(FreeingPages) \in FreeingPages
  <2>1. FreeingPages \in SUBSET Nat
    BY OrderTypes DEF FreeingPages
  <2> QED
    BY <1>1, <2>1, MinProperty
<1>3. /\ erasedPage' \in InUse /\ erasedPage' \in Sector /\ mState[erasedPage'] = "FREEING"
  BY <1>1, <1>2, OrderTypes DEF FreeingPages, InUse
<1>4. header[erasedPage'] = "FREEING"
  BY <1>3 DEF OrderInv, Agree
<1>5. mPageList # <<>> /\ Back \in Sector /\ Back \in InUse /\ Back \notin Free
  BY <1>1, OrderTypes DEF Inv, ControlInv, MoveInv, PagesListed
<1>6. CASE mState[Back] = "ACTIVE"
  <2>1. ErasePage(Back) /\ mPageList' = Front(mPageList)
        /\ mFreePageList' = Append(mFreePageList, Back)
    BY <1>6 DEF RecoverFreeing
  <2>2. InUse' = InUse \ {Back}
    BY <1>5, <2>1, FrontOnce, OrderTypes, ListElements DEF PagesListed, Back
  <2>3. Free' = Free \cup {Back}
    BY <1>5, <2>1, OrderTypes, AppendElements, ListElements
  <2> QED
    BY <1>3, <1>4, <1>5, <1>6, <2>1, <2>2, <2>3
<1>7. CASE mState[Back] # "ACTIVE"
  BY <1>3, <1>4, <1>5, <1>7 DEF RecoverFreeing, InUse, Free, Back
<1> QED
  BY <1>6, <1>7

LEMMA InsertedPage ==
  ASSUME Inv, PagesListed, OrderInv, InsertPage
  PROVE  /\ loadIndex \in Sector /\ Read(loadIndex)
         /\ InUse' = IF HasSeq(mState[loadIndex]) THEN InUse \cup {loadIndex} ELSE InUse
         /\ Free' = IF HasSeq(mState[loadIndex]) THEN Free ELSE Free \cup {loadIndex}
<1>1. pc = "insert" /\ loadIndex \in Sector /\ loadIndex \notin InUse
  BY SectorAtHand DEF InsertPage
<1>2. Read(loadIndex)
  BY <1>1 DEF OrderInv, Loaded
<1>3. CASE HasSeq(mState[loadIndex])
  <2>1. mPageList' = InsertAt(mPageList, Position(loadIndex), loadIndex)
        /\ UNCHANGED mFreePageList
    BY <1>3 DEF InsertPage
  <2>2. Position(loadIndex) \in 1 .. Len(mPageList) + 1
    BY <1>1, PositionProperty
  <2>3. InUse' = InUse \cup {loadIndex}
    BY <1>1, <2>1, <2>2, OrderTypes, InsertOnce, ListElements
  <2> QED
    BY <1>1, <1>2, <1>3, <2>1, <2>3 DEF Free
<1>4. CASE ~HasSeq(mState[loadIndex])
  <2>1. mFreePageList' = Append(mFreePageList, loadIndex) /\ UNCHANGED mPageList
    BY <1>4 DEF InsertPage
  <2>2. Free' = Free \cup {loadIndex}
    BY <1>1, <2>1, OrderTypes, AppendElements, ListElements
  <2> QED
    BY <1>1, <1>2, <1>4, <2>1, <2>2 DEF InUse
<1> QED
  BY <1>3, <1>4
-----------------------------------------------------------------------------
(* The pages in the lists, and the one that is freed. *)

\* Steps that leave headers and lists alone.
LEMMA SameFreeing ==
  ASSUME FreeingInv, UNCHANGED <<header, mState, mPageList, mFreePageList>>,
         Running' => Running,
         pc' \in Headed => pc \in Headed \/ mState[Back] # "UNINITIALIZED",
         Running' /\ pc' \notin Early =>
           \/ pc \notin Early /\ erasedPage' = erasedPage
           \/ \A p \in Sector : header[p] # "FREEING",
         Chosen' => Chosen /\ erasedPage' = erasedPage,
         Moving' => Moving /\ erasedPage' = erasedPage,
         pc' \in {"freeing", "copy", "copyInit"} => pc \in {"freeing", "copy", "copyInit"},
         pc' \in {"copyData", "copyState"} => pc \in {"copyData", "copyState"}
  PROVE  FreeingInv'
<1> USE DEF FreeingInv
<1>1. InUse' = InUse /\ Free' = Free /\ Back' = Back
  BY DEF InUse, Free, Back
<1>2. Healthy'
  BY <1>1 DEF Healthy
<1>3. Headerless'
  BY <1>1 DEF Headerless
<1>4. OneFreeing'
  BY DEF OneFreeing
<1>5. NewPage'
  BY <1>1 DEF NewPage
<1> QED
  BY <1>2, <1>3, <1>4, <1>5

\* A sector that is read, and that goes into a list.
LEMMA LoadFreeing ==
  ASSUME Inv, PagesListed, OrderInv, EntryInv, FreeingInv, LoadSector \/ InsertPage
  PROVE  FreeingInv'
<1> USE DEF FreeingInv
<1>1. CASE LoadSector
  <2>1. /\ pc = "load" /\ pc' \in {"repair", "insert"}
        /\ UNCHANGED <<header, mPageList, mFreePageList>>
        /\ mState' = [mState EXCEPT ![loadIndex] = header[loadIndex]]
    BY <1>1 DEF LoadSector, LoadPage, flashVars, managerVars
  <2>2. /\ loadIndex \notin InUse /\ loadIndex \notin Free
        /\ InUse' = InUse /\ Free' = Free /\ Back' = Back
    BY <2>1, SectorAtHand DEF InUse, Free, Back
  <2>3. \A p \in InUse \cup Free : mState'[p] = mState[p]
    BY <2>1, <2>2, OrderTypes
  <2> QED
    BY <2>1, <2>2, <2>3
       DEF Healthy, Headerless, OneFreeing, NewPage, Running, Headed, Early, Chosen, Moving
<1>2. CASE InsertPage
  <2>1. pc = "insert" /\ pc' \in {"settle", "load"} /\ UNCHANGED <<header, mState>>
    BY <1>2 DEF InsertPage, pageVars
  <2>2. /\ loadIndex \in Sector /\ mState[loadIndex] = header[loadIndex]
        /\ InUse' = IF HasSeq(mState[loadIndex]) THEN InUse \cup {loadIndex} ELSE InUse
        /\ Free' = IF HasSeq(mState[loadIndex]) THEN Free ELSE Free \cup {loadIndex}
    BY <1>2, InsertedPage DEF Read
  <2>3. Healthy'
    BY <2>1, <2>2, OrderTypes DEF Healthy, Running, HeaderState
  <2>4. Headerless'
    BY <2>1, <2>2 DEF Headerless, Running, Headed, Early, HasSeq
  <2> QED
    BY <2>1, <2>3, <2>4 DEF OneFreeing, NewPage, Running, Early, Chosen, Moving
<1> QED
  BY <1>1, <1>2

\* A partition without pages in use has none that is being freed.
LEMMA SettleFreeing ==
  ASSUME Inv, PagesListed, OrderInv, EntryInv, FreeingInv, Settle
  PROVE  FreeingInv'
<1>1. /\ pc = "settle" /\ pc' \in {"activate", "dup"} /\ erasedPage' = erasedPage
      /\ UNCHANGED <<header, mState, mPageList, mFreePageList>>
      /\ pc' = "activate" => mPageList = <<>>
  BY DEF Settle, pageVars, localVars
<1>2. erasedPage = NoPage
  BY <1>1 DEF Inv, ControlInv, MoveInv
<1>3. pc' = "activate" => \A p \in Sector : header[p] # "FREEING"
  <2>1. mPageList = <<>> => InUse = {}
    BY DEF InUse
  <2> QED
    BY <1>1, <2>1, ListedPages DEF Running, HasSeq
<1> QED
  BY <1>1, <1>2, <1>3, SameFreeing DEF Running, Early, Headed, Chosen, Moving

\* A move that was cut off is taken up again.
LEMMA RecoverFreeingFreeing ==
  ASSUME Inv, PagesListed, OrderInv, EntryInv, FreeingInv, RecoverFreeing
  PROVE  FreeingInv'
<1> USE DEF FreeingInv
<1>1. pc = "recover" /\ pc' = "activate" /\ mStorageState' = mStorageState /\ Booting
  BY DEF RecoverFreeing, Inv, ControlInv, PhaseInv
<1>2. \A p \in InUse : HasSeq(mState[p])
  BY <1>1, ListedPages DEF Running, Headed, Early
<1>3. /\ erasedPage' \in Sector /\ erasedPage' # NoPage
      /\ mState[erasedPage'] = "FREEING" /\ header[erasedPage'] = "FREEING"
      /\ Back \in Sector /\ Back \in InUse
  BY RecoveredPages, SectorNat
<1>4. CASE mState[Back] = "ACTIVE"
  <2>1. InUse' = InUse \ {Back} /\ Free' = Free \cup {Back} /\ ErasePage(Back)
    BY <1>4, RecoveredPages
  <2>2. /\ mState'[Back] = "UNINITIALIZED" /\ header'[Back] = "UNINITIALIZED"
        /\ \A q \in Sector : q # Back => header'[q] = header[q] /\ mState'[q] = mState[q]
    BY <1>3, <2>1, Erased
  <2>3. erasedPage' # Back
    BY <1>3, <1>4
  <2>4. Healthy' /\ Headerless'
    BY <1>1, <1>2, <2>1, <2>2, OrderTypes DEF Healthy, Headerless, Running, HasSeq
  <2>5. \A q \in Sector : header'[q] = "FREEING" => header[q] = "FREEING"
    BY <2>2
  <2>6. header'[erasedPage'] = "FREEING"
    BY <1>3, <2>2, <2>3
  <2>7. OneFreeing'
    BY <1>1, <1>3, <2>5, <2>6 DEF OneFreeing, Chosen
  <2> QED
    BY <1>1, <2>4, <2>7 DEF NewPage
<1>5. CASE mState[Back] # "ACTIVE"
  <2>1. InUse' = InUse /\ Free' = Free /\ UNCHANGED <<header, mState>>
    BY <1>5, RecoveredPages DEF pageVars
  <2>2. Healthy' /\ Headerless'
    BY <1>1, <1>2, <2>1 DEF Healthy, Headerless, Running, HasSeq
  <2>3. OneFreeing'
    BY <1>1, <1>3, <2>1 DEF OneFreeing, Chosen
  <2> QED
    BY <1>1, <2>2, <2>3 DEF NewPage
<1> QED
  BY <1>4, <1>5

\* A CORRUPT page that is to be used is in no other role.
LEMMA EraseCorruptFreeing ==
  ASSUME Inv, PagesListed, OrderInv, EntryInv, FreeingInv, EraseCorrupt
  PROVE  FreeingInv'
<1> USE DEF FreeingInv
<1> DEFINE e == Head(mFreePageList)
<1>1. /\ pc = "activate" /\ pc' = pc /\ ErasePage(e) /\ mFreePageList # <<>>
      /\ mState[e] = "CORRUPT"
      /\ UNCHANGED <<mPageList, mFreePageList, mStorageState, erasedPage, ret>>
  BY DEF EraseCorrupt, managerVars, localVars
<1>2. e \in Sector
  BY <1>1, OrderTypes
<1>3. header[e] = "CORRUPT"
  BY <1>1, <1>2 DEF OrderInv, Agree
<1> HIDE DEF e
<1>4. /\ mState'[e] = "UNINITIALIZED" /\ header'[e] = "UNINITIALIZED"
      /\ \A q \in Sector : q # e => header'[q] = header[q] /\ mState'[q] = mState[q]
  BY <1>1, <1>2, Erased
<1>5. InUse' = InUse /\ Free' = Free /\ Back' = Back
  BY <1>1 DEF InUse, Free, Back
<1>6. \A p \in InUse : mState[p] # "CORRUPT" /\ p # e
  BY <1>1 DEF EntryInv, Writable
<1>7. Healthy' /\ Headerless'
  BY <1>1, <1>4, <1>5, <1>6, OrderTypes DEF Healthy, Headerless, Running, Headed
<1>8. \A q \in Sector : header'[q] = "FREEING" <=> header[q] = "FREEING"
  BY <1>3, <1>4
<1>9. OneFreeing'
  <2>1. Chosen \/ Moving => erasedPage \in Sector
    BY <1>1, OrderTypes DEF Chosen, Moving, Inv, ControlInv, MoveInv
  <2> QED
    BY <1>1, <1>3, <1>4, <1>8, <2>1 DEF OneFreeing, Running, Chosen, Moving
<1> QED
  BY <1>1, <1>7, <1>9 DEF NewPage

\* The page that is activated has no header yet.
LEMMA ActivatePageFreeing ==
  ASSUME Inv, PagesListed, OrderInv, EntryInv, FreeingInv, ActivatePage
  PROVE  FreeingInv'
<1> USE DEF FreeingInv
<1> DEFINE a == Head(mFreePageList)
<1>1. /\ pc = "activate" /\ UNCHANGED <<header, mState, erasedPage, ret>> /\ mState[a] # "CORRUPT"
      /\ \/ Booting /\ erasedPage = NoPage /\ pc' = "idle"
         \/ Booting /\ erasedPage # NoPage /\ pc' = "copy"
         \/ ~Booting /\ erasedPage = NoPage /\ pc' = "rewrite"
         \/ ~Booting /\ erasedPage # NoPage /\ pc' = "freeing"
  BY DEF ActivatePage, flashVars, localVars
<1>2. /\ a \in Sector /\ a \in Free /\ a \notin InUse
      /\ InUse' = InUse \cup {a} /\ Free' = Free \ {a} /\ Back' = a
  BY ActivatedPage
<1> HIDE DEF a
<1>3. mState[a] = "UNINITIALIZED"
  BY <1>1, <1>2, ListedPages DEF Running
<1>4. Healthy'
  BY <1>1, <1>2 DEF Healthy, Running
<1>5. Headerless'
  BY <1>1, <1>2 DEF Headerless, Running, Headed, Early
<1>6. OneFreeing'
  BY <1>1 DEF OneFreeing, Running, Early, Chosen, Moving
<1>7. NewPage'
  BY <1>1, <1>2, <1>3 DEF NewPage
<1> QED
  BY <1>4, <1>5, <1>6, <1>7

\* The page with the most unused entries is FULL.
LEMMA RequestNewPageFreeing ==
  ASSUME Inv, PagesListed, OrderInv, EntryInv, FreeingInv, RequestNewPage
  PROVE  FreeingInv'
<1>1. /\ pc = "request" /\ UNCHANGED <<header, mState, mPageList, mFreePageList, mStorageState>>
      /\ ~Booting /\ erasedPage = NoPage
  BY DEF RequestNewPage, pageVars, managerVars, Inv, ControlInv, PhaseInv, MoveInv
<1>2. \A p \in Sector : header[p] # "FREEING"
  BY <1>1, SectorNat DEF FreeingInv, OneFreeing, Running, Early
<1>3. CASE erasedPage' = erasedPage
  BY <1>1, <1>3, SameFreeing DEF RequestNewPage, Respond, Running, Early, Headed, Chosen, Moving
<1>4. CASE erasedPage' # erasedPage
  <2>1. /\ MaxUnusedItems # {} /\ erasedPage' = mPageList[Min(MaxUnusedItems)]
        /\ pc' = "activate" /\ ret' = ret
    BY <1>1, <1>4 DEF RequestNewPage
  <2>2. Min(MaxUnusedItems) \in MaxUnusedItems
    <3>1. MaxUnusedItems \in SUBSET Nat
      BY OrderTypes DEF MaxUnusedItems
    <3> QED
      BY <2>1, <3>1, MinProperty
  <2>3. erasedPage' \in InUse /\ erasedPage' \in Sector
    BY <2>1, <2>2, OrderTypes DEF MaxUnusedItems, InUse
  <2>4. HasSeq(header[erasedPage'])
    BY <1>1, <2>3, ListedPages DEF Running, Headed
  <2>5. header[erasedPage'] = "FULL"
    BY <1>1, <1>2, <2>3, <2>4, OrderTypes DEF OrderInv, ActiveLast, HasSeq, HeaderState
  <2>6. InUse' = InUse /\ Free' = Free /\ Back' = Back
    BY <1>1 DEF InUse, Free, Back
  <2>7. Healthy' /\ Headerless'
    BY <1>1, <2>1, <2>6 DEF FreeingInv, Healthy, Headerless, Running, Headed
  <2>8. OneFreeing'
    BY <1>1, <1>2, <2>1, <2>5 DEF OneFreeing, Chosen, Moving
  <2> QED
    BY <2>1, <2>7, <2>8 DEF FreeingInv, NewPage
<1> QED
  BY <1>3, <1>4

\* markFreeing(): the page that was FULL is the FREEING one.
LEMMA MarkFreeingFreeing ==
  ASSUME Inv, PagesListed, OrderInv, EntryInv, FreeingInv, MarkFreeing
  PROVE  FreeingInv'
<1> USE DEF FreeingInv
<1>1. /\ pc = "freeing" /\ erasedPage \in Sector /\ erasedPage # Back
      /\ UNCHANGED <<mPageList, mFreePageList, mStorageState>>
  BY OrderTypes DEF MarkFreeing, managerVars, Inv, ControlInv, MoveInv, OrderInv, Apart
<1>2. \A p \in Sector : header[p] # "FREEING"
  BY <1>1 DEF OneFreeing, Running, Early, Chosen
<1>3. InUse' = InUse /\ Free' = Free /\ Back' = Back
  BY <1>1 DEF InUse, Free, Back
<1>4. CASE mState[erasedPage] \in {"FULL", "ACTIVE"}
  <2>1. /\ AlterPageState(erasedPage, "FREEING") /\ pc' = "copy" /\ ret' = ret
        /\ erasedPage' = erasedPage
    BY <1>4 DEF MarkFreeing
  <2>2. /\ header'[erasedPage] = "FREEING" /\ mState'[erasedPage] = "FREEING"
        /\ \A q \in Sector : q # erasedPage => header'[q] = header[q] /\ mState'[q] = mState[q]
    BY <1>1, <2>1, OrderTypes DEF AlterPageState
  <2>3. Healthy' /\ Headerless'
    BY <1>1, <1>3, <2>1, <2>2, OrderTypes DEF Healthy, Headerless, Running, Headed, Early
  <2>4. OneFreeing'
    BY <1>2, <2>1, <2>2 DEF OneFreeing, Chosen
  <2>5. NewPage'
    <3>1. mPageList # <<>> /\ Back \in Sector
      BY <1>1, OrderTypes DEF Inv, ControlInv, MoveInv
    <3> QED
      BY <1>1, <1>3, <2>1, <2>2, <3>1 DEF NewPage
  <2> QED
    BY <2>3, <2>4, <2>5
<1>5. CASE mState[erasedPage] \notin {"FULL", "ACTIVE"}
  BY <1>1, <1>5, <1>2, SameFreeing DEF MarkFreeing, pageVars, Respond, Running, Failure, Early, Headed,
     Chosen, Moving
<1> QED
  BY <1>4, <1>5

\* The page that gets its header is the last one.
LEMMA InitializeFreeing ==
  ASSUME Inv, PagesListed, OrderInv, EntryInv, FreeingInv, pc \in {"init", "copyInit"}, Initialize(Back),
         pc' = IF pc = "init" THEN "data" ELSE "copyData",
         UNCHANGED <<mPageList, mFreePageList, mStorageState, erasedPage, ret>>
  PROVE  FreeingInv'
<1> USE DEF FreeingInv
<1>1. Back \in Sector /\ Back \in InUse
  BY OrderTypes DEF Inv, ControlInv, MoveInv
<1>2. /\ header'[Back] = "ACTIVE" /\ mState'[Back] = "ACTIVE"
      /\ \A q \in Sector : q # Back => header'[q] = header[q] /\ mState'[q] = mState[q]
  BY <1>1, OrderTypes DEF Initialize
<1>3. InUse' = InUse /\ Free' = Free /\ Back' = Back
  BY DEF InUse, Free, Back
<1>4. Healthy' /\ Headerless'
  BY <1>1, <1>2, <1>3, OrderTypes DEF Healthy, Headerless, Running, Headed
<1>5. \A q \in Sector : header'[q] = "FREEING" => header[q] = "FREEING"
  BY <1>2
<1>6. pc = "copyInit" => header'[erasedPage] = header[erasedPage]
  BY <1>2, OrderTypes DEF Inv, ControlInv, MoveInv, OrderInv, Apart
<1>7. OneFreeing'
  BY <1>5, <1>6 DEF OneFreeing, Running, Early, Chosen, Moving
<1>8. NewPage'
  BY <1>2, <1>3 DEF NewPage
<1> QED
  BY <1>4, <1>7, <1>8

\* markFull()
LEMMA MarkFullFreeing ==
  ASSUME Inv, PagesListed, OrderInv, EntryInv, FreeingInv, MarkFull
  PROVE  FreeingInv'
<1> USE DEF FreeingInv
<1>1. /\ pc = "markFull" /\ Back \in Sector /\ Back \in InUse
      /\ UNCHANGED <<mPageList, mFreePageList, mStorageState, erasedPage>>
  BY OrderTypes DEF MarkFull, managerVars, localVars, Inv, ControlInv, MoveInv
<1>2. CASE mState[Back] = "ACTIVE"
  <2>1. AlterPageState(Back, "FULL") /\ pc' = "request" /\ ret' = ret
    BY <1>2 DEF MarkFull
  <2>2. /\ header'[Back] = "FULL" /\ mState'[Back] = "FULL"
        /\ \A q \in Sector : q # Back => header'[q] = header[q] /\ mState'[q] = mState[q]
    BY <1>1, <2>1, OrderTypes DEF AlterPageState
  <2>3. InUse' = InUse /\ Free' = Free /\ Back' = Back
    BY <1>1 DEF InUse, Free, Back
  <2>4. Healthy' /\ Headerless'
    BY <1>1, <2>1, <2>2, <2>3, OrderTypes DEF Healthy, Headerless, Running, Headed
  <2>5. \A q \in Sector : header'[q] = "FREEING" => header[q] = "FREEING"
    BY <2>2
  <2>6. OneFreeing'
    BY <1>1, <2>1, <2>5 DEF OneFreeing, Running, Early, Chosen, Moving
  <2> QED
    BY <2>1, <2>4, <2>6 DEF NewPage
<1>3. CASE mState[Back] # "ACTIVE"
  BY <1>1, <1>3, SameFreeing DEF MarkFull, pageVars, Respond, Running, Failure, Early, Headed, Chosen,
     Moving
<1> QED
  BY <1>2, <1>3

\* The page that is erased after its items were copied.
LEMMA FreePageFreeing ==
  ASSUME Inv, PagesListed, OrderInv, EntryInv, FreeingInv, FreePage
  PROVE  FreeingInv'
<1> USE DEF FreeingInv
<1> DEFINE e == erasedPage
<1>1. /\ e \in Sector /\ e \in InUse /\ e # Back
      /\ InUse' = InUse \ {e} /\ Free' = Free \cup {e} /\ Back' = Back
  BY FreedPage
<1>2. /\ ErasePage(e) /\ pc = "erasePage" /\ pc' \in {"check", "rewrite"} /\ ret' = ret
      /\ erasedPage' = NoPage /\ \A p \in Sector : header[p] = "FREEING" => p = e
  BY DEF FreePage, OneFreeing, Running, Early
<1> HIDE DEF e
<1>3. /\ header'[e] = "UNINITIALIZED" /\ mState'[e] = "UNINITIALIZED"
      /\ \A q \in Sector : q # e => header'[q] = header[q] /\ mState'[q] = mState[q]
  BY <1>1, <1>2, Erased
<1>4. Healthy' /\ Headerless'
  BY <1>1, <1>2, <1>3, OrderTypes DEF Healthy, Headerless, Running, Headed, Early
<1>5. \A q \in Sector : header'[q] # "FREEING"
  BY <1>2, <1>3
<1>6. OneFreeing'
  BY <1>2, <1>5 DEF OneFreeing, Chosen, Moving
<1> QED
  BY <1>2, <1>4, <1>6 DEF NewPage

\* An operation that is cut off makes no page FREEING.
LEMMA HalfDoneFreeing ==
  ASSUME Inv, OrderInv, FreeingInv, UNCHANGED flashVars \/ HalfDone
  PROVE  \A p, q \in Sector : header'[p] = "FREEING" /\ header'[q] = "FREEING" => p = q
<1>1. \A p \in Sector : header'[p] \in {header[p], "CORRUPT"}
  BY HalfDoneNumbers
<1> QED
  BY <1>1 DEF FreeingInv, OneFreeing

\* After a restart, and after an error that is answered.
LEMMA StartLoadingFreeing ==
  ASSUME Inv, OrderInv, FreeingInv, UNCHANGED flashVars \/ HalfDone, StartLoading
  PROVE  FreeingInv'
<1>1. /\ mPageList' = <<>> /\ mFreePageList' = <<>> /\ pc' = "load"
  BY DEF StartLoading
<1>2. InUse' = {} /\ Free' = {}
  BY <1>1 DEF InUse, Free
<1> QED
  BY <1>1, <1>2, HalfDoneFreeing
     DEF FreeingInv, Healthy, Headerless, OneFreeing, NewPage, Early, Chosen, Moving

LEMMA FlashErrorAnswer ==
  ASSUME ~FaultsWhileLoading, Inv, FlashError
  PROVE  /\ pc' = "return" /\ ret' \in Failure /\ ~Booting
         /\ pc \in {"erasePage", "activate", "init", "copyInit", "data", "copyData", "state",
                    "copyState", "markFull", "freeing", "erase", "clear"}
<1>1. pc \in {"erasePage", "recover", "activate", "init", "copyInit", "data", "copyData", "state",
              "copyState", "markFull", "freeing", "repair", "dup", "erase", "clear"}
  BY DEF FlashError, EraseTarget, HeaderTarget, DataTarget, WordTarget
<1>2. ~Booting /\ mStorageState = "ACTIVE"
  BY DEF FlashError, Inv, TypeOK, ManagerTypeOK
<1>3. pc \notin LoadPC
  BY <1>1, <1>2 DEF Inv, ControlInv, PhaseInv
<1> QED
  BY <1>1, <1>2, <1>3 DEF FlashError, Fail, Respond, Failure

LEMMA FlashErrorFreeing ==
  ASSUME ~FaultsWhileLoading, Inv, OrderInv, FreeingInv, FlashError
  PROVE  FreeingInv'
<1>1. pc' = "return" /\ ret' \in Failure
  BY FlashErrorAnswer
<1>2. UNCHANGED flashVars \/ HalfDone
  BY DEF FlashError
<1> QED
  BY <1>1, <1>2, HalfDoneFreeing
     DEF FreeingInv, Healthy, Headerless, OneFreeing, NewPage, Running, Chosen, Moving

\* The page manager keeps all this.
LEMMA ManageFreeing ==
  ASSUME Inv, PagesListed, OrderInv, EntryInv, FreeingInv, Manage
  PROVE  FreeingInv'
<1> USE DEF pageVars, managerVars, localVars
<1>1. CASE LoadSector \/ InsertPage \/ Settle \/ RecoverFreeing \/ EraseCorrupt \/ ActivatePage
           \/ RequestNewPage \/ MarkFreeing \/ FreePage
  BY <1>1, LoadFreeing, SettleFreeing, RecoverFreeingFreeing, EraseCorruptFreeing,
     ActivatePageFreeing, RequestNewPageFreeing, MarkFreeingFreeing, FreePageFreeing
<1>2. CASE CopyInit
  BY <1>2, InitializeFreeing DEF CopyInit
<1>3. CASE RepairHalfWritten \/ RepairDuplicate \/ RepairDone \/ EraseOldVersion
  BY <1>3, SameFreeing DEF RepairHalfWritten, RepairDuplicate, RepairDone, EraseOldVersion,
     ClearHalfWritten, EraseEntry, Running, Early, Headed, Chosen, Moving
<1>4. CASE NothingFreeing
  <2>1. \A p \in Sector : header[p] # "FREEING"
    <3>1. pc = "recover" /\ FreeingPages = {}
      BY <1>4 DEF NothingFreeing
    <3>2. \A p \in InUse : mState[p] = header[p]
      BY <3>1 DEF OrderInv, Loaded, Read
    <3>3. \A p \in InUse : header[p] # "FREEING"
      BY <3>1, <3>2, OrderTypes DEF FreeingPages, InUse
    <3> QED
      BY <3>1, <3>3, ListedPages DEF Running, HasSeq
  <2> QED
    BY <1>4, <2>1, SameFreeing DEF NothingFreeing, Running, Early, Headed, Chosen, Moving
<1>5. CASE CheckFreePages
  BY <1>5, SameFreeing DEF CheckFreePages, Running, Early, Headed, Chosen, Moving
<1>6. CASE ActivateNothing
  <2>1. pc = "activate" /\ UNCHANGED <<header, mState, mPageList, mFreePageList, mStorageState>>
    BY <1>6 DEF ActivateNothing
  <2>2. ~Booting => \A p \in Sector : header[p] # "FREEING"
    BY <2>1, SectorNat DEF FreeingInv, OneFreeing, Running, Early, Chosen
  <2> QED
    BY <1>6, <2>1, <2>2, SameFreeing
       DEF ActivateNothing, Fail, Respond, Running, Early, Headed, Chosen, Moving
<1>7. CASE StartCopy \/ CopyData \/ CopyState
  BY <1>7, SameFreeing DEF StartCopy, CopyData, CopyState, WriteEntryData, WriteEntryState, objectVars,
     FreeingInv, NewPage, Running, Early, Headed, Chosen, Moving
<1> QED
  BY <1>1, <1>2, <1>3, <1>4, <1>5, <1>6, <1>7 DEF Manage, Load, Move

\* So do requests.
LEMMA ServeFreeing ==
  ASSUME ~ContinueAfterFailure, Inv, PagesListed, OrderInv, EntryInv, FreeingInv, Begin \/ Serve
  PROVE  FreeingInv'
<1> USE DEF pageVars, managerVars, localVars, Respond, Running, Early, Headed, Chosen, Moving
<1>1. CASE InitPage
  BY <1>1, InitializeFreeing DEF InitPage
<1>2. CASE MarkFull
  BY <1>2, MarkFullFreeing
<1>3. CASE Begin \/ FindForSet \/ FindForErase \/ TryWrite
  BY <1>3, SameFreeing DEF Begin, FindForSet, FindForErase, TryWrite, Failure
<1>4. CASE WriteData \/ WriteState
  BY <1>4, SameFreeing DEF WriteData, WriteState, WriteEntryData, WriteEntryState, objectVars, Failure
<1>5. CASE EraseFound \/ EraseOfNamespace
  BY <1>5, SameFreeing DEF EraseFound, EraseOfNamespace, EraseEntry, Failure
<1>6. CASE Return
  BY <1>6, SameFreeing DEF Return
<1> QED
  BY <1>1, <1>2, <1>3, <1>4, <1>5, <1>6 DEF Serve

(***************************************************************************)
(* One page is freed at a time, and a page without a header is the last.   *)
(***************************************************************************)
THEOREM FreeingHolds ==
  ASSUME ~FaultsWhileLoading, ~ContinueAfterFailure
  PROVE  Spec => []FreeingInv
<1>1. Init => FreeingInv
  BY DEF Init, FreeingInv, Healthy, Headerless, OneFreeing, NewPage, InUse, Free, Early, Chosen, Moving
<1>2. Inv /\ PagesListed /\ OrderInv /\ EntryInv /\ FreeingInv /\ [Next]_vars => FreeingInv'
  <2> SUFFICES ASSUME Inv, PagesListed, OrderInv, EntryInv, FreeingInv, [Next]_vars PROVE FreeingInv'
    OBVIOUS
  <2>1. CASE Manage
    BY <2>1, ManageFreeing
  <2>2. CASE Begin \/ Serve
    BY <2>2, ServeFreeing
  <2>3. CASE Crash \/ Reinitialize
    BY <2>3, StartLoadingFreeing DEF Crash, Reinitialize
  <2>4. CASE FlashError
    BY <2>4, FlashErrorFreeing
  <2>5. CASE UNCHANGED vars
    BY <2>5, SameFreeing DEF vars, pageVars, managerVars, localVars, Running, Early, Headed, Chosen, Moving
  <2> QED
    BY <2>1, <2>2, <2>3, <2>4, <2>5 DEF Next
<1> QED
  BY <1>1, <1>2, InvHolds, ListsCorrect, OrderHolds, EntryHolds, PTL DEF Spec
-----------------------------------------------------------------------------
(* The copying of the items. *)

(***************************************************************************)
(* The items of the page that is freed go to the new page in their order:  *)
(* the one in entry i to the entry whose index is the number of entries in *)
(* use before i.                                                           *)
(***************************************************************************)
Earlier(p, i) == {j \in Written(p) : j < i}

Rank(p, i) == Cardinality(Earlier(p, i))

\* Those of S have been copied, and nothing else has.
Copied(S) ==
  /\ mNextFreeEntry[Back] = Cardinality(S)
  /\ \A i \in Index : i \in Written(Back) <=> i < Cardinality(S)
  /\ \A i \in Written(Back) : \E j \in S : Rank(erasedPage, j) = i
  /\ \A j \in S : entryData[Back][Rank(erasedPage, j)] = entryData[erasedPage][j]

CopyInv ==
  /\ erasedPage # NoPage /\ ~Booting => Cardinality(Written(erasedPage)) < ENTRY_COUNT
  /\ pc \in {"copyInit", "copyData", "copyState"} => readEntryIndex \in Written(erasedPage)
  /\ pc = "copyInit" => Earlier(erasedPage, readEntryIndex) = {}
  /\ pc \in {"copyData", "copyState"} => Copied(Earlier(erasedPage, readEntryIndex))
  /\ pc = "copyState" =>
       entryData[Back][mNextFreeEntry[Back]] = entryData[erasedPage][readEntryIndex]
  /\ pc = "erasePage" =>
       IF Written(erasedPage) = {} THEN mState[Back] = "UNINITIALIZED"
       ELSE mState[Back] = "ACTIVE" /\ Copied(Written(erasedPage))

\* A rank is no larger than the index, and grows with it.
LEMMA RankBound ==
  ASSUME Inv, NEW p \in Sector, NEW i \in Index
  PROVE  /\ IsFiniteSet(Earlier(p, i)) /\ Rank(p, i) \in Nat /\ Rank(p, i) <= i
         /\ Cardinality(Earlier(p, i) \cup {i}) = Rank(p, i) + 1
<1>1. i \in Nat /\ Index \subseteq Nat /\ Written(p) \subseteq Index
  BY DataTypes, WrittenFinite
<1>2. IsFiniteSet(0 .. i - 1) /\ Cardinality(0 .. i - 1) = i
  BY <1>1, FS_Interval
<1>3. Earlier(p, i) \in SUBSET (0 .. i - 1)
  <2>1. \A j \in Earlier(p, i) : j \in Nat /\ j < i
    BY <1>1 DEF Earlier
  <2>2. \A j \in Earlier(p, i) : j \in 0 .. i - 1
    BY <1>1, <2>1
  <2> QED
    BY <2>2
<1>4. IsFiniteSet(Earlier(p, i)) /\ Rank(p, i) <= i
  BY <1>2, <1>3, FS_Subset DEF Rank
<1>5. Rank(p, i) \in Nat
  BY <1>4, FS_CardinalityType DEF Rank
<1>6. i \notin Earlier(p, i)
  <2>1. ~ (i < i)
    BY <1>1
  <2> QED
    BY <2>1 DEF Earlier
<1> QED
  BY <1>4, <1>5, <1>6, FS_AddElement DEF Rank

LEMMA RankGrows ==
  ASSUME Inv, NEW p \in Sector, NEW S \in SUBSET Written(p), NEW j \in S,
         Earlier(p, j) \subseteq S
  PROVE  Rank(p, j) < Cardinality(S) /\ Cardinality(S) \in Nat
<1>1. j \in Index /\ IsFiniteSet(Written(p))
  BY DataTypes, WrittenFinite
<1>2. IsFiniteSet(S) /\ Cardinality(S) \in Nat
  BY <1>1, FS_Subset, FS_CardinalityType
<1>3. Earlier(p, j) \cup {j} \in SUBSET S
  OBVIOUS
<1>4. Cardinality(Earlier(p, j) \cup {j}) <= Cardinality(S)
  BY <1>2, <1>3, FS_Subset
<1>5. Rank(p, j) \in Nat /\ Cardinality(Earlier(p, j) \cup {j}) = Rank(p, j) + 1
  BY <1>1, RankBound
<1> QED
  BY <1>2, <1>4, <1>5

\* What copyItems() comes to next.
LEMMA NextCopied ==
  ASSUME Inv, NEW p \in Sector, NEW r \in Written(p)
  PROVE  LET rest == {i \in Written(p) : i > r}
         IN  /\ rest = {} => Written(p) = Earlier(p, r) \cup {r}
             /\ rest # {} => /\ LeastOr(rest, INVALID_ENTRY) \in Written(p)
                             /\ Earlier(p, LeastOr(rest, INVALID_ENTRY)) = Earlier(p, r) \cup {r}
<1> DEFINE rest == {i \in Written(p) : i > r}
<1>1. Written(p) \subseteq Nat /\ r \in Nat
  BY WrittenFinite
<1>2. rest \in SUBSET Nat
  BY <1>1
<1>3. rest = {} => Written(p) = Earlier(p, r) \cup {r}
  BY <1>1 DEF Earlier
<1>4. ASSUME rest # {}
      PROVE  /\ LeastOr(rest, INVALID_ENTRY) \in Written(p)
             /\ Earlier(p, LeastOr(rest, INVALID_ENTRY)) = Earlier(p, r) \cup {r}
  <2> DEFINE m == LeastOr(rest, INVALID_ENTRY)
  <2>1. m \in rest /\ \A y \in rest : m <= y
    <3> HIDE DEF rest
    <3> QED
      BY <1>2, <1>4, LeastOrProperty
  <2> HIDE DEF m
  <2>2. m \in Written(p) /\ m \in Nat /\ m > r
    BY <1>1, <2>1
  <2>3. \A j \in Written(p) : j < m <=> j <= r
    BY <1>1, <2>1, <2>2
  <2>4. Earlier(p, m) = Earlier(p, r) \cup {r}
    BY <1>1, <2>3 DEF Earlier
  <2> QED
    BY <2>2, <2>4 DEF m
<1> QED
  BY <1>3, <1>4

\* Steps that copy nothing.
LEMMA SameCopy ==
  ASSUME Inv, OrderInv, CopyInv,
         pc' \notin {"copyInit", "copyData", "copyState", "erasePage"},
         erasedPage' # NoPage /\ ~Booting' =>
           /\ erasedPage # NoPage /\ ~Booting /\ erasedPage' = erasedPage
           /\ entryTable'[erasedPage] = entryTable[erasedPage]
  PROVE  CopyInv'
BY DEF CopyInv, Written

\* The two pages of a move.
LEMMA TwoPages ==
  ASSUME Inv, PagesListed, OrderInv, EntryInv, FreeingInv,
         pc \in {"copy", "copyInit", "copyData", "copyState", "erasePage"}
  PROVE  /\ erasedPage \in Sector /\ Back \in Sector /\ erasedPage # Back
         /\ erasedPage \in InUse /\ Back \in InUse
         /\ header[erasedPage] = "FREEING" /\ mState[erasedPage] = "FREEING"
<1>1. /\ erasedPage \in Sector /\ Back \in Sector /\ erasedPage # Back
      /\ erasedPage \in InUse /\ Back \in InUse
  BY OrderTypes DEF Inv, ControlInv, MoveInv, OrderInv, Apart
<1>2. header[erasedPage] = "FREEING" /\ mState[erasedPage] = "FREEING"
  BY <1>1, ListedPages DEF FreeingInv, OneFreeing, Moving, Running
<1> QED
  BY <1>1, <1>2

LEMMA StartCopyCopy ==
  ASSUME Inv, PagesListed, OrderInv, EntryInv, FreeingInv, CopyInv, StartCopy
  PROVE  CopyInv'
<1> DEFINE e == erasedPage
<1>1. /\ pc = "copy" /\ UNCHANGED pageVars /\ UNCHANGED managerVars
      /\ UNCHANGED <<erasedPage, mStorageState>>
      /\ readEntryIndex' = mFirstUsedEntry[e] /\ mState[Back] = "UNINITIALIZED"
      /\ pc' = IF mFirstUsedEntry[e] = INVALID_ENTRY THEN "erasePage" ELSE "copyInit"
  BY DEF StartCopy, FreeingInv, NewPage
<1>2. e \in Sector /\ mState[e] = "FREEING" /\ Written(e) \in SUBSET Nat /\ Written(e) \subseteq Index
  BY <1>1, TwoPages, EntryTypes
<1>3. mFirstUsedEntry[e] = LeastOr(Written(e), INVALID_ENTRY)
  BY <1>2 DEF EntryInv, FirstUsedExact, HasSeq
<1>4. \A x : Earlier(e, x)' = Earlier(e, x)
  BY <1>1 DEF Earlier, Written, pageVars
<1>5. Written(e)' = Written(e) /\ Back' = Back
  BY <1>1 DEF Written, pageVars, Back, managerVars
<1>6. CASE Written(e) = {}
  BY <1>1, <1>3, <1>5, <1>6, LeastOrProperty DEF CopyInv, pageVars
<1>7. CASE Written(e) # {}
  <2>1. readEntryIndex' \in Written(e) /\ \A y \in Written(e) : readEntryIndex' <= y
    BY <1>1, <1>2, <1>3, <1>7, LeastOrProperty
  <2>2. readEntryIndex' # INVALID_ENTRY
    BY <1>2, <2>1, EntryNat
  <2>3. Earlier(e, readEntryIndex') = {}
    BY <1>2, <2>1 DEF Earlier
  <2>4. Earlier(erasedPage, readEntryIndex)' = {}
    BY <1>1, <1>5, <2>3 DEF Earlier
  <2> QED
    BY <1>1, <1>5, <2>1, <2>2, <2>4 DEF CopyInv
<1> QED
  BY <1>6, <1>7

LEMMA CopyInitCopy ==
  ASSUME Inv, PagesListed, OrderInv, EntryInv, FreeingInv, CopyInv, CopyInit
  PROVE  CopyInv'
<1>1. /\ pc = "copyInit" /\ pc' = "copyData" /\ Initialize(Back)
      /\ UNCHANGED <<mPageList, erasedPage, readEntryIndex, mStorageState>>
  BY DEF CopyInit, managerVars, localVars
<1>2. Back \in Sector /\ mState[Back] = "UNINITIALIZED" /\ header[Back] = "UNINITIALIZED"
  BY <1>1, TwoPages DEF FreeingInv, NewPage, OrderInv, Agree
<1>3. mNextFreeEntry'[Back] = 0 /\ UNCHANGED <<entryTable, entryData>> /\ Back' = Back
  BY <1>1, <1>2, EntryTypes DEF Initialize, Back
<1>4. \A p : Written(p)' = Written(p)
  BY <1>3 DEF Written
<1>5. Written(Back) = {}
  BY <1>2 DEF EntryInv, BlankUnused, Written
<1>6. Earlier(erasedPage, readEntryIndex)' = {}
  BY <1>1, <1>4 DEF CopyInv, Earlier
<1>7. Copied(Earlier(erasedPage, readEntryIndex))'
  BY <1>3, <1>4, <1>5, <1>6, DataTypes, FS_EmptySet DEF Copied
<1> QED
  BY <1>1, <1>4, <1>7 DEF CopyInv

\* getEntryAddress() finds an entry left: no more items are copied than a page has entries.
LEMMA RoomForCopy ==
  ASSUME Inv, PagesListed, OrderInv, EntryInv, FreeingInv, CopyInv, pc \in {"copyData", "copyState"}
  PROVE  /\ ~NoRoom(Back) /\ mNextFreeEntry[Back] \in Index
         /\ readEntryIndex \in Written(erasedPage) /\ readEntryIndex \in Index
         /\ mNextFreeEntry[Back] = Rank(erasedPage, readEntryIndex)
<1>1. /\ erasedPage \in Sector /\ readEntryIndex \in Written(erasedPage)
      /\ mNextFreeEntry[Back] = Rank(erasedPage, readEntryIndex)
  BY TwoPages DEF CopyInv, Copied, Rank
<1>2. readEntryIndex \in Index
  BY <1>1, WrittenFinite
<1>3. Rank(erasedPage, readEntryIndex) \in Nat /\ Rank(erasedPage, readEntryIndex) <= readEntryIndex
  BY <1>1, <1>2, RankBound
<1> QED
  BY <1>1, <1>2, <1>3, EntryCountAssumption DEF NoRoom, Index

LEMMA CopyDataCopy ==
  ASSUME Inv, PagesListed, OrderInv, EntryInv, FreeingInv, CopyInv, CopyData
  PROVE  CopyInv'
<1> DEFINE e == erasedPage
           r == readEntryIndex
           S == Earlier(e, r)
           n == mNextFreeEntry[Back]
<1>1. pc = "copyData" /\ UNCHANGED <<mPageList, erasedPage, readEntryIndex, mStorageState>>
  BY DEF CopyData, managerVars, localVars
<1>2. /\ ~NoRoom(Back) /\ n \in Index /\ r \in Written(e) /\ r \in Index /\ n = Rank(e, r)
      /\ e \in Sector /\ Back \in Sector /\ e # Back
  BY <1>1, RoomForCopy, TwoPages
<1>3. pc' = "copyState" /\ WriteEntryData(Back, entryData[e][r])
  BY <1>2 DEF CopyData
<1>4. /\ UNCHANGED <<entryTable, mNextFreeEntry, mState>> /\ Back' = Back
      /\ entryData'[e] = entryData[e] /\ entryData'[Back][n] = entryData[e][r]
      /\ \A i \in Index : i # n => entryData'[Back][i] = entryData[Back][i]
  BY <1>1, <1>2, <1>3, DataTypes DEF WriteEntryData, objectVars, Back
<1>5. \A p : Written(p)' = Written(p)
  BY <1>4 DEF Written
<1>6. \A x : Earlier(e, x)' = Earlier(e, x) /\ Rank(e, x)' = Rank(e, x)
  BY <1>1, <1>5 DEF Earlier, Rank
<1>7. Copied(S) /\ n = Cardinality(S)
  BY <1>1 DEF CopyInv, Copied
<1>8. \A j \in S : Rank(e, j) < n /\ Rank(e, j) \in Index
  <2> SUFFICES ASSUME NEW j \in S PROVE Rank(e, j) < n /\ Rank(e, j) \in Index
    OBVIOUS
  <2>1. S \in SUBSET Written(e) /\ j \in Index
    BY <1>2, WrittenFinite DEF Earlier
  <2>2. Earlier(e, j) \subseteq S
    <3>1. j < r /\ j \in Nat /\ r \in Nat /\ Written(e) \subseteq Nat
      BY <1>2, <2>1, WrittenFinite DEF Earlier
    <3> QED
      BY <3>1 DEF Earlier
  <2>3. Rank(e, j) < n
    <3> HIDE DEF S
    <3> QED
      BY <1>2, <1>7, <2>1, <2>2, RankGrows
  <2>4. Rank(e, j) \in Nat /\ Rank(e, j) <= j
    BY <1>2, <2>1, RankBound
  <2> QED
    BY <2>1, <2>3, <2>4, EntryCountAssumption DEF Index
<1>9. n \in Nat
  BY <1>2, DataTypes
<1>10. \A j \in S : entryData'[Back][Rank(e, j)] = entryData[e][j]
  BY <1>4, <1>7, <1>8, <1>9 DEF Copied
<1>11. (Earlier(erasedPage, readEntryIndex))' = S /\ erasedPage' = e /\ readEntryIndex' = r
  BY <1>1, <1>6
<1> HIDE DEF S, n, r, e
<1>12. Copied(Earlier(erasedPage, readEntryIndex))'
  BY <1>4, <1>5, <1>6, <1>7, <1>10, <1>11 DEF Copied, e
<1> QED
  BY <1>1, <1>2, <1>3, <1>4, <1>5, <1>11, <1>12 DEF CopyInv, n, e, r

LEMMA CopyStateCopy ==
  ASSUME Inv, PagesListed, OrderInv, EntryInv, FreeingInv, CopyInv, CopyState
  PROVE  CopyInv'
<1> DEFINE e == erasedPage
           r == readEntryIndex
           S == Earlier(e, r)
           T == S \cup {r}
           n == mNextFreeEntry[Back]
           rest == {i \in Written(e) : i > r}
<1>1. /\ pc = "copyState" /\ UNCHANGED <<mPageList, erasedPage, mStorageState>>
      /\ WriteEntryState(Back)
      /\ readEntryIndex' = LeastOr(rest, INVALID_ENTRY)
      /\ pc' = IF rest = {} THEN "erasePage" ELSE "copyData"
  BY DEF CopyState, managerVars
<1>2. /\ n \in Index /\ r \in Written(e) /\ r \in Index /\ n = Rank(e, r)
      /\ e \in Sector /\ Back \in Sector /\ e # Back
  BY <1>1, RoomForCopy, TwoPages
<1>3. /\ Back' = Back /\ UNCHANGED <<entryData, mState>> /\ mNextFreeEntry'[Back] = n + 1
      /\ entryTable'[e] = entryTable[e]
      /\ \A i \in Index : entryTable'[Back][i] = IF i = n THEN "WRITTEN" ELSE entryTable[Back][i]
  BY <1>1, <1>2, DataTypes DEF WriteEntryState, Back
<1>4. Written(e)' = Written(e) /\ Written(Back)' = Written(Back) \cup {n}
  <2>1. Written(e)' = Written(e)
    BY <1>1, <1>3 DEF Written
  <2>2. \A i \in Index : entryTable'[Back'][i] = IF i = n THEN "WRITTEN" ELSE entryTable[Back][i]
    BY <1>3
  <2> HIDE DEF n
  <2>3. Written(Back)' = Written(Back) \cup {n}
    BY <1>2, <2>2 DEF Written
  <2> QED
    BY <2>1, <2>3
<1>5. \A x : Earlier(e, x)' = Earlier(e, x) /\ Rank(e, x)' = Rank(e, x)
  BY <1>4 DEF Earlier, Rank
<1>6. Copied(S) /\ n = Cardinality(S) /\ entryData[Back][n] = entryData[e][r]
  BY <1>1 DEF CopyInv, Copied
<1>7. n \in Nat /\ Cardinality(T) = n + 1 /\ Index \subseteq Nat
  BY <1>2, <1>6, RankBound, DataTypes
<1>8. rest = {} => Written(e) = T
  BY <1>2, NextCopied
<1>9. rest # {} => readEntryIndex' \in Written(e) /\ Earlier(e, readEntryIndex') = T
  BY <1>1, <1>2, NextCopied
<1> HIDE DEF rest
<1>10. /\ mNextFreeEntry'[Back] = Cardinality(T)
       /\ \A i \in Index : i \in Written(Back)' <=> i < Cardinality(T)
       /\ \A i \in Written(Back)' : \E j \in T : Rank(e, j)' = i
       /\ \A j \in T : entryData'[Back][Rank(e, j)'] = entryData'[e][j]
  <2>1. mNextFreeEntry'[Back] = Cardinality(T)
    BY <1>3, <1>7
  <2>2. \A i \in Index : i \in Written(Back)' <=> i < Cardinality(T)
    <3>1. \A i \in Index : i \in Written(Back) <=> i < n
      BY <1>6 DEF Copied
    <3> HIDE DEF T, S, n
    <3> QED
      BY <1>4, <1>7, <3>1
  <2>3. \A i \in Written(Back)' : \E j \in T : Rank(e, j)' = i
    BY <1>2, <1>4, <1>5, <1>6 DEF Copied
  <2>4. \A j \in T : entryData'[Back][Rank(e, j)'] = entryData'[e][j]
    BY <1>2, <1>3, <1>5, <1>6 DEF Copied
  <2> QED
    BY <2>1, <2>2, <2>3, <2>4
<1> HIDE DEF T, S, n, e
<1>11. erasedPage' = erasedPage
  BY <1>1
<1>12. CASE rest = {}
  <2>1. Written(erasedPage)' = T
    BY <1>4, <1>8, <1>12, <1>11 DEF e, Written
  <2>2. Copied(Written(erasedPage))'
    BY <1>3, <1>10, <1>11, <2>1 DEF Copied, e
  <2>3. mState'[Back'] = "ACTIVE" /\ Written(erasedPage)' # {}
    BY <1>1, <1>2, <1>3, <1>4, <1>11 DEF FreeingInv, NewPage, e, Written
  <2> QED
    BY <1>1, <1>4, <1>11, <1>12, <2>2, <2>3 DEF CopyInv, e
<1>13. CASE rest # {}
  <2>1. Earlier(erasedPage, readEntryIndex)' = T /\ readEntryIndex' \in Written(erasedPage)'
    BY <1>4, <1>5, <1>9, <1>11, <1>13 DEF e, Earlier, Written
  <2>2. Copied(Earlier(erasedPage, readEntryIndex))'
    BY <1>3, <1>10, <1>11, <2>1 DEF Copied, e
  <2> QED
    BY <1>1, <1>4, <1>11, <1>13, <2>1, <2>2 DEF CopyInv, e
<1> QED
  BY <1>12, <1>13

\* The page chosen to be freed has an unused entry.
LEMMA RequestNewPageCopy ==
  ASSUME Inv, PagesListed, OrderInv, EntryInv, DataInv, FreeingInv, CopyInv, RequestNewPage
  PROVE  CopyInv'
<1>1. /\ pc = "request" /\ pc' \in {"return", "activate"} /\ UNCHANGED pageVars
      /\ mStorageState' = mStorageState /\ erasedPage = NoPage
  BY DEF RequestNewPage, Respond, Inv, ControlInv, MoveInv
<1>2. CASE erasedPage' = erasedPage
  BY <1>1, <1>2, SameCopy
<1>3. CASE erasedPage' # erasedPage
  <2>1. MaxUnusedItems # {} /\ erasedPage' = mPageList[Min(MaxUnusedItems)]
    BY <1>3 DEF RequestNewPage
  <2>2. Min(MaxUnusedItems) \in MaxUnusedItems
    <3>1. MaxUnusedItems \in SUBSET Nat
      BY OrderTypes DEF MaxUnusedItems
    <3> QED
      BY <2>1, <3>1, MinProperty
  <2>3. erasedPage' \in InUse /\ erasedPage' \in Sector /\ Unused(erasedPage') > 0
    BY <2>1, <2>2, OrderTypes DEF MaxUnusedItems, InUse
  <2>4. mUsedEntryCount[erasedPage'] = Cardinality(Written(erasedPage'))
    BY <1>1, <2>3, ListedPages DEF Running, Headed, DataInv, Counted
  <2>5. Cardinality(Written(erasedPage')) < ENTRY_COUNT
    BY <2>3, <2>4, DataTypes, EntryCountAssumption DEF Unused
  <2>6. Cardinality(Written(erasedPage))' < ENTRY_COUNT
    BY <1>1, <2>5 DEF Written, pageVars
  <2> QED
    BY <1>1, <2>6 DEF CopyInv
<1> QED
  BY <1>2, <1>3

\* The page manager keeps the order of the copies.
LEMMA ManageCopy ==
  ASSUME Inv, PagesListed, OrderInv, EntryInv, DataInv, FreeingInv, CopyInv, Manage
  PROVE  CopyInv'
<1> USE DEF pageVars, flashVars, managerVars, localVars
<1>1. CASE RequestNewPage \/ StartCopy \/ CopyInit \/ CopyData \/ CopyState
  BY <1>1, RequestNewPageCopy, StartCopyCopy, CopyInitCopy, CopyDataCopy, CopyStateCopy
<1>2. CASE LoadSector \/ RepairHalfWritten \/ RepairDuplicate \/ RepairDone \/ InsertPage \/ Settle
           \/ EraseOldVersion \/ NothingFreeing \/ CheckFreePages
  <2>1. /\ pc \in LoadPC \ {"failed"} /\ erasedPage' = erasedPage
        /\ pc' \notin {"copyInit", "copyData", "copyState", "erasePage"}
    BY <1>2 DEF LoadSector, RepairHalfWritten, RepairDuplicate, RepairDone, InsertPage, Settle,
       EraseOldVersion, NothingFreeing, CheckFreePages
  <2>2. erasedPage = NoPage
    BY <2>1 DEF Inv, ControlInv, MoveInv
  <2> QED
    BY <2>1, <2>2, SameCopy
<1>3. CASE RecoverFreeing
  BY <1>3, SameCopy DEF RecoverFreeing, Inv, ControlInv, PhaseInv
<1>4. CASE ActivateNothing \/ FreePage
  BY <1>4, SameCopy DEF ActivateNothing, FreePage, Fail, Respond
<1>5. CASE EraseCorrupt
  <2> DEFINE c == Head(mFreePageList)
  <2>1. /\ pc = "activate" /\ pc' = pc /\ erasedPage' = erasedPage /\ mStorageState' = mStorageState
        /\ ErasePage(c) /\ mState[c] = "CORRUPT" /\ mFreePageList # <<>>
    BY <1>5 DEF EraseCorrupt
  <2>2. erasedPage # NoPage => erasedPage \in Sector /\ erasedPage # c
    <3>1. erasedPage # NoPage => erasedPage \in InUse
      BY DEF Inv, ControlInv, MoveInv
    <3> QED
      BY <2>1, <3>1, OrderTypes DEF EntryInv, Writable
  <2>3. erasedPage # NoPage => entryTable'[erasedPage] = entryTable[erasedPage]
    BY <2>1, <2>2, DataTypes DEF ErasePage, SectorErased
  <2> QED
    BY <2>1, <2>3, SameCopy
<1>6. CASE ActivatePage
  BY <1>6, SameCopy DEF ActivatePage
<1>7. CASE MarkFreeing
  BY <1>7, SameCopy DEF MarkFreeing, AlterPageState, Respond
<1> QED
  BY <1>1, <1>2, <1>3, <1>4, <1>5, <1>6, <1>7 DEF Manage, Load, Move

\* Requests copy nothing.
LEMMA ServeCopy ==
  ASSUME Inv, OrderInv, CopyInv, Begin \/ Serve
  PROVE  CopyInv'
<1>1. /\ pc \in StoragePC /\ pc' \notin MovePC /\ erasedPage' = erasedPage
  BY DEF Begin, Serve, FindForSet, FindForErase, TryWrite, InitPage, WriteData, WriteState, MarkFull,
     EraseFound, EraseOfNamespace, Return, localVars, Respond
<1>2. erasedPage = NoPage
  BY <1>1 DEF Inv, ControlInv, MoveInv
<1> QED
  BY <1>1, <1>2, SameCopy

(***************************************************************************)
(* The page that is freed is erased when all its items are on the new one. *)
(***************************************************************************)
THEOREM CopyHolds ==
  ASSUME ~FaultsWhileLoading, ~ContinueAfterFailure
  PROVE  Spec => []CopyInv
<1>1. Init => CopyInv
  BY DEF Init, CopyInv
<1>2. /\ Inv /\ PagesListed /\ OrderInv /\ EntryInv /\ DataInv /\ FreeingInv /\ CopyInv
      /\ [Next]_vars
      => CopyInv'
  <2> SUFFICES ASSUME Inv, PagesListed, OrderInv, EntryInv, DataInv, FreeingInv, CopyInv, [Next]_vars
               PROVE  CopyInv'
    OBVIOUS
  <2>1. CASE Manage
    BY <2>1, ManageCopy
  <2>2. CASE Begin \/ Serve
    BY <2>2, ServeCopy
  <2>3. CASE Crash \/ Reinitialize
    BY <2>3, SameCopy DEF Crash, Reinitialize, StartLoading
  <2>4. CASE FlashError
    BY <2>4, FlashErrorAnswer, SameCopy DEF FlashError
  <2>5. CASE UNCHANGED vars
    BY <2>5 DEF vars, pageVars, managerVars, localVars, CopyInv, Copied, Rank, Earlier, Written, Back
  <2> QED
    BY <2>1, <2>2, <2>3, <2>4, <2>5 DEF Next
<1> QED
  BY <1>1, <1>2, InvHolds, ListsCorrect, OrderHolds, EntryHolds, DataHolds, FreeingHolds, PTL DEF Spec

(***************************************************************************)
(* The assertion of requestNewPage(): as many entries are used on the new  *)
(* page as are on the page whose items were copied to it.                  *)
(***************************************************************************)
THEOREM CopyCompletes ==
  ASSUME ~FaultsWhileLoading, ~ContinueAfterFailure
  PROVE  Spec => []CopyComplete
<1>1. /\ Inv /\ PagesListed /\ OrderInv /\ EntryInv /\ DataInv /\ FreeingInv /\ CopyInv
      => CopyComplete
  <2> SUFFICES ASSUME Inv, PagesListed, OrderInv, EntryInv, DataInv, FreeingInv, CopyInv,
                      pc = "erasePage"
               PROVE  mUsedEntryCount[Back] = mUsedEntryCount[erasedPage]
    BY DEF CopyComplete
  <2> DEFINE n == Cardinality(Written(erasedPage))
  <2>1. erasedPage \in Sector /\ Back \in Sector /\ mState[erasedPage] = "FREEING"
    BY TwoPages
  <2>2. mUsedEntryCount[erasedPage] = n
    BY <2>1 DEF DataInv, Counted, HasSeq
  <2>3. CASE Written(erasedPage) = {}
    BY <2>1, <2>2, <2>3, FS_EmptySet DEF CopyInv, DataInv, Counted
  <2>4. CASE Written(erasedPage) # {}
    <3>1. /\ mState[Back] = "ACTIVE" /\ \A i \in Index : i \in Written(Back) <=> i < n
      BY <2>4 DEF CopyInv, Copied
    <3>2. n \in Nat /\ n <= ENTRY_COUNT
      <4>1. IsFiniteSet(Index) /\ Cardinality(Index) = ENTRY_COUNT
        BY FS_Interval, EntryCountAssumption DEF Index
      <4> QED
        BY <2>1, <4>1, WrittenFinite, FS_Subset
    <3>3. Written(Back) = 0 .. n - 1
      <4> HIDE DEF n
      <4>1. Written(Back) = {i \in Index : i < n}
        BY <2>1, <3>1, WrittenFinite
      <4> QED
        BY <3>2, <4>1, EntryCountAssumption DEF Index
    <3>4. Cardinality(0 .. n - 1) = n
      <4> HIDE DEF n
      <4> QED
        BY <3>2, FS_Interval
    <3> QED
      BY <2>1, <2>2, <3>1, <3>3, <3>4 DEF DataInv, Counted, HasSeq
  <2> QED
    BY <2>3, <2>4
<1> QED
  BY <1>1, InvHolds, ListsCorrect, OrderHolds, EntryHolds, DataHolds, FreeingHolds, CopyHolds, PTL
-----------------------------------------------------------------------------
(* The copies, and what an erase may discard. *)

\* Entry by entry.
LEMMA CopiesByEntry ==
  /\ OnlyCopiesWhileFreeing <=>
       \A p, q \in Sector : header[p] = "FREEING" /\ header[q] = "ACTIVE" =>
         \A i \in Written(q) : \E j \in Written(p) : entryData[q][i] = entryData[p][j]
  /\ OnlyCopiesWhileFreeing' <=>
       \A p, q \in Sector : header'[p] = "FREEING" /\ header'[q] = "ACTIVE" =>
         \A i \in Written(q)' : \E j \in Written(p)' : entryData'[q][i] = entryData'[p][j]
<1> DEFINE Part(p, q) == {entryData[q][i] : i \in Written(q)} \subseteq {entryData[p][i] : i \in Written(p)}
           Each(p, q) == \A i \in Written(q) : \E j \in Written(p) : entryData[q][i] = entryData[p][j]
           PartAfter(p, q) ==
             {entryData'[q][i] : i \in Written(q)'} \subseteq {entryData'[p][i] : i \in Written(p)'}
           EachAfter(p, q) ==
             \A i \in Written(q)' : \E j \in Written(p)' : entryData'[q][i] = entryData'[p][j]
<1>1. \A p, q : (Part(p, q) <=> Each(p, q)) /\ (PartAfter(p, q) <=> EachAfter(p, q))
  OBVIOUS
<1>2. OnlyCopiesWhileFreeing <=>
        \A p, q \in Sector : header[p] = "FREEING" /\ header[q] = "ACTIVE" => Part(p, q)
  BY Zenon DEF OnlyCopiesWhileFreeing
<1>3. OnlyCopiesWhileFreeing' <=>
        \A p, q \in Sector : header'[p] = "FREEING" /\ header'[q] = "ACTIVE" => PartAfter(p, q)
  BY Zenon DEF OnlyCopiesWhileFreeing
<1> HIDE DEF Part, PartAfter, Each, EachAfter
<1>4. OnlyCopiesWhileFreeing <=>
        \A p, q \in Sector : header[p] = "FREEING" /\ header[q] = "ACTIVE" => Each(p, q)
  BY <1>1, <1>2
<1>5. OnlyCopiesWhileFreeing' <=>
        \A p, q \in Sector : header'[p] = "FREEING" /\ header'[q] = "ACTIVE" => EachAfter(p, q)
  BY <1>1, <1>3
<1> QED
  BY <1>4, <1>5, Zenon DEF Each, EachAfter

(***************************************************************************)
(* While the program runs, and past the checks of load(), it is the copied *)
(* items that are on the ACTIVE page.                                      *)
(***************************************************************************)
LEMMA CopiesWhileRunning ==
  ASSUME Inv, PagesListed, OrderInv, EntryInv, FreeingInv, CopyInv, Running, pc \notin Early
  PROVE  OnlyCopiesWhileFreeing
<1> SUFFICES ASSUME NEW p \in Sector, NEW q \in Sector, header[p] = "FREEING", header[q] = "ACTIVE",
                    NEW i \in Written(q)
             PROVE  \E j \in Written(p) : entryData[q][i] = entryData[p][j]
  BY CopiesByEntry
<1>1. p = erasedPage /\ q = Back /\ mPageList # <<>>
  BY DEF FreeingInv, OneFreeing, OrderInv, ActiveLast, Early
<1>2. pc \in MovePC \ {"activate", "freeing"}
  <2>1. erasedPage # NoPage
    BY <1>1, SectorNat
  <2>2. pc \in MovePC
    BY <2>1 DEF Inv, ControlInv, MoveInv, Running
  <2>3. pc # "activate"
    BY DEF OrderInv, ActiveLast
  <2>4. pc # "freeing"
    BY <1>1 DEF FreeingInv, OneFreeing, Chosen
  <2> QED
    BY <2>2, <2>3, <2>4
<1>3. mState[q] = "ACTIVE"
  <2>1. q \in InUse
    BY <1>1, OrderTypes
  <2> QED
    BY <2>1, ListedPages
<1>4. pc \in {"copyData", "copyState", "erasePage"}
  BY <1>1, <1>2, <1>3 DEF FreeingInv, NewPage
<1>5. CASE pc \in {"copyData", "copyState"}
  BY <1>1, <1>5 DEF CopyInv, Copied, Earlier
<1>6. CASE pc = "erasePage"
  BY <1>1, <1>3, <1>6 DEF CopyInv, Copied
<1> QED
  BY <1>4, <1>5, <1>6

\* Steps that make no page ACTIVE or FREEING, and write no entry.
LEMMA SameCopies ==
  ASSUME OnlyCopiesWhileFreeing,
         \A p \in Sector : header'[p] \in {"ACTIVE", "FREEING"} => header'[p] = header[p],
         \A p \in Sector : header'[p] = "ACTIVE" =>
           \A i \in Written(p)' : i \in Written(p) /\ entryData'[p][i] = entryData[p][i],
         \A p \in Sector : header'[p] = "FREEING" =>
           \A i \in Written(p) : i \in Written(p)' /\ entryData'[p][i] = entryData[p][i]
  PROVE  OnlyCopiesWhileFreeing'
BY CopiesByEntry

\* An entry erased is not one of the page that is freed.
LEMMA EraseEntryCopies ==
  ASSUME Inv, OnlyCopiesWhileFreeing, NEW p \in Sector, NEW e \in Written(p), EraseEntry(p, e),
         header[p] # "FREEING"
  PROVE  OnlyCopiesWhileFreeing'
<1>1. e \in Index
  BY WrittenFinite
<1>2. /\ header' = header
      /\ \A q \in Sector, i \in Index : entryTable'[q][i] =
           IF q = p /\ i = e THEN "ERASED" ELSE entryTable[q][i]
      /\ \A q \in Sector, i \in Index : entryData'[q][i] =
           IF q = p /\ i = e THEN Garbage ELSE entryData[q][i]
  BY <1>1, DataTypes DEF EraseEntry
<1>3. /\ \A q \in Sector : \A i \in Written(q)' : i \in Written(q) /\ entryData'[q][i] = entryData[q][i]
      /\ \A q \in Sector : q # p =>
           \A i \in Written(q) : i \in Written(q)' /\ entryData'[q][i] = entryData[q][i]
  BY <1>1, <1>2 DEF Written
<1> QED
  BY <1>2, <1>3, SameCopies

\* An operation that is cut off writes no entry either.
LEMMA HalfDoneCopies ==
  ASSUME Inv, PagesListed, OrderInv, EntryInv, DataInv, OnlyCopiesWhileFreeing,
         UNCHANGED flashVars \/ HalfDone
  PROVE  OnlyCopiesWhileFreeing'
<1>1. CASE UNCHANGED flashVars
  BY <1>1, SameCopies DEF flashVars, Written
<1>2. ASSUME NEW p \in EraseTarget, SectorErased(p, "CORRUPT")
      PROVE  OnlyCopiesWhileFreeing'
  <2>1. p \in Sector
    BY TargetSectors
  <2>2. /\ header'[p] = "CORRUPT"
        /\ \A q \in Sector : q # p => /\ header'[q] = header[q] /\ entryTable'[q] = entryTable[q]
                                      /\ entryData'[q] = entryData[q]
    BY <1>2, <2>1, DataTypes DEF SectorErased
  <2>3. \A q \in Sector : q # p => Written(q)' = Written(q)
    BY <2>2 DEF Written
  <2> QED
    BY <2>2, <2>3, SameCopies
<1>3. ASSUME NEW p \in HeaderTarget, header' = [header EXCEPT ![p] = "CORRUPT"],
             UNCHANGED <<entryTable, entryData>>
      PROVE  OnlyCopiesWhileFreeing'
  <2>1. \A q \in Sector : header'[q] \in {header[q], "CORRUPT"}
    BY <1>3, DataTypes
  <2> QED
    BY <1>3, <2>1, SameCopies DEF Written
<1>4. ASSUME NEW p \in DataTarget,
             entryData' = [entryData EXCEPT ![p][mNextFreeEntry[p]] = Garbage],
             UNCHANGED <<header, entryTable>>
      PROVE  OnlyCopiesWhileFreeing'
  <2> DEFINE n == mNextFreeEntry[p]
  <2>1. p \in Sector /\ p = Back /\ pc \in {"data", "copyData"} /\ ~NoRoom(Back)
    BY <1>4, TargetSectors DEF DataTarget, Inv, ControlInv, RoomInv
  <2>2. HasSeq(mState[p])
    BY <2>1 DEF EntryInv, Writable
  <2>3. n \in Index
    BY <2>1, DataTypes, EntryCountAssumption DEF NoRoom, Index
  <2>4. entryTable[p][n] = "EMPTY"
    BY <2>1, <2>2, <2>3 DEF DataInv, BlankNext
  <2>5. \A q \in Sector, i \in Index : ~ (q = p /\ i = n) => entryData'[q][i] = entryData[q][i]
    BY <1>4, <2>1, <2>3, DataTypes
  <2> HIDE DEF n
  <2>6. \A q \in Sector : Written(q)' = Written(q)
                         /\ \A i \in Written(q) : entryData'[q][i] = entryData[q][i]
    BY <1>4, <2>4, <2>5 DEF Written
  <2> QED
    BY <1>4, <2>6, SameCopies
<1> QED
  BY <1>1, <1>2, <1>3, <1>4 DEF HalfDone

\* The checks of load() change no copy.
LEMMA LoadCopies ==
  ASSUME Inv, PagesListed, OrderInv, EntryInv, DataInv, OnlyCopiesWhileFreeing, Load,
         ~ (Running' /\ pc' \notin Early)
  PROVE  OnlyCopiesWhileFreeing'
<1> USE DEF pageVars, flashVars
<1>1. CASE RepairHalfWritten
  <2> DEFINE n == mNextFreeEntry[loadIndex]
  <2>1. /\ pc = "repair" /\ loadIndex \in Sector /\ n \in Index /\ ClearHalfWritten(loadIndex)
    BY <1>1 DEF RepairHalfWritten, HalfWritten, Inv, ControlInv, PhaseInv
  <2>2. header[loadIndex] = "ACTIVE" /\ HasSeq(mState[loadIndex])
    BY <2>1 DEF EntryInv, Writable, OrderInv, Loaded, Read, HasSeq
  <2>3. entryTable[loadIndex][n] = "EMPTY"
    BY <2>1, <2>2 DEF DataInv, BlankNext
  <2>4. /\ header' = header
        /\ \A q \in Sector, i \in Index : entryTable'[q][i] =
             IF q = loadIndex /\ i = n THEN "ERASED" ELSE entryTable[q][i]
        /\ \A q \in Sector, i \in Index : entryData'[q][i] =
             IF q = loadIndex /\ i = n THEN Garbage ELSE entryData[q][i]
    BY <2>1, DataTypes DEF ClearHalfWritten
  <2> HIDE DEF n
  <2>5. \A q \in Sector : /\ Written(q)' = Written(q)
                         /\ \A i \in Written(q) : entryData'[q][i] = entryData[q][i]
    BY <2>3, <2>4 DEF Written
  <2> QED
    BY <2>4, <2>5, SameCopies
<1>2. CASE RepairDuplicate
  <2> DEFINE i == Min(OlderEntries(loadIndex, Min(Superseding(loadIndex))))
  <2>1. loadIndex \in Sector /\ i \in Written(loadIndex)
    BY <1>2, RepairDuplicateEntry
  <2>2. EraseEntry(loadIndex, i) /\ header[loadIndex] = "ACTIVE"
    BY <1>2 DEF RepairDuplicate, EntryInv, Writable
  <2> HIDE DEF i
  <2> QED
    BY <2>1, <2>2, EraseEntryCopies
<1>3. CASE EraseOldVersion
  <2> DEFINE p == OldVersionPage
             i == FindOnPage(p, LastItem.key, LastItem.type)
  <2>1. CASE OldVersionPages = {}
    BY <1>3, <2>1, SameCopies DEF EraseOldVersion, Written
  <2>2. CASE OldVersionPages # {}
    <3>1. p \in Sector /\ i \in Index
      BY <2>2, OldVersionProperty
    <3>2. i \in Written(p) /\ HasSeq(mState[p])
      BY <3>1, EntryNat, FindOnPageProperty
    <3>3. EraseEntry(p, i)
      BY <1>3, <2>2 DEF EraseOldVersion
    <3>4. mState[p] # "FREEING"
      <4>1. OldVersionPages \in SUBSET Nat
        BY OrderTypes DEF OldVersionPages
      <4>2. Min(OldVersionPages) \in OldVersionPages
        BY <2>2, <4>1, MinProperty
      <4> QED
        BY <4>2 DEF OldVersionPages, OldVersionPage
    <3>5. header[p] # "FREEING"
      BY <3>1, <3>2, <3>4 DEF OrderInv, Agree, HasSeq
    <3> HIDE DEF p, i
    <3> QED
      BY <3>1, <3>2, <3>3, <3>5, EraseEntryCopies
  <2> QED
    BY <2>1, <2>2
<1>4. CASE RecoverFreeing
  BY <1>4 DEF RecoverFreeing, Running, Early
<1>5. CASE LoadSector \/ RepairDone \/ InsertPage \/ Settle \/ NothingFreeing \/ CheckFreePages
  BY <1>5, SameCopies DEF LoadSector, LoadPage, RepairDone, InsertPage, Settle, NothingFreeing,
     CheckFreePages, Written
<1> QED
  BY <1>1, <1>2, <1>3, <1>4, <1>5 DEF Load

(***************************************************************************)
(* While a page is being freed the ACTIVE page holds copies of its items   *)
(* and nothing else, also after any number of power failures: load() may   *)
(* erase that page.                                                        *)
(***************************************************************************)
THEOREM CopiesOnly ==
  ASSUME ~FaultsWhileLoading, ~ContinueAfterFailure
  PROVE  Spec => []OnlyCopiesWhileFreeing
<1>1. Init => OnlyCopiesWhileFreeing
  BY DEF Init, OnlyCopiesWhileFreeing
<1>2. /\ Inv /\ PagesListed /\ OrderInv /\ EntryInv /\ FreeingInv /\ CopyInv
      => (Running /\ pc \notin Early => OnlyCopiesWhileFreeing)
  BY CopiesWhileRunning
<1>3. /\ Inv /\ PagesListed /\ OrderInv /\ EntryInv /\ DataInv /\ FreeingInv /\ CopyInv
      /\ OnlyCopiesWhileFreeing /\ [Next]_vars
      => ((Running /\ pc \notin Early)' \/ OnlyCopiesWhileFreeing')
  <2> SUFFICES ASSUME Inv, PagesListed, OrderInv, EntryInv, DataInv, FreeingInv, CopyInv,
                      OnlyCopiesWhileFreeing, [Next]_vars, ~ (Running' /\ pc' \notin Early)
               PROVE  OnlyCopiesWhileFreeing'
    BY DEF Early
  <2> USE DEF pageVars, Respond, Fail, Running, Early
  <2>1. CASE Manage /\ Load
    BY <2>1, LoadCopies
  <2>2. CASE Manage /\ Move
    <3>1. UNCHANGED pageVars
      BY <2>2 DEF Manage, Move, RequestNewPage, EraseCorrupt, ActivatePage, ActivateNothing, MarkFreeing,
         StartCopy, CopyInit, CopyData, CopyState, FreePage
    <3> QED
      BY <3>1, SameCopies DEF Written
  <2>3. CASE Begin \/ Serve
    <3>1. CASE EraseFound \/ EraseOfNamespace
      <4>1. CASE UNCHANGED pageVars
        BY <4>1, SameCopies DEF Written
      <4>2. CASE ~UNCHANGED pageVars
        BY <3>1, <4>2 DEF EraseFound, EraseOfNamespace, Failure
      <4> QED
        BY <4>1, <4>2
    <3>2. CASE ~ (EraseFound \/ EraseOfNamespace)
      <4>1. UNCHANGED pageVars
        BY <2>3, <3>2 DEF Serve, Begin, FindForSet, FindForErase, TryWrite, InitPage, WriteData,
           WriteState, MarkFull, Return, Failure
      <4> QED
        BY <4>1, SameCopies DEF Written
    <3> QED
      BY <3>1, <3>2
  <2>4. CASE Crash \/ Reinitialize \/ FlashError
    BY <2>4, HalfDoneCopies DEF Crash, Reinitialize, FlashError
  <2>5. CASE UNCHANGED vars
    BY <2>5, SameCopies DEF vars, Written
  <2> QED
    BY <2>1, <2>2, <2>3, <2>4, <2>5 DEF Next, Manage
<1> QED
  BY <1>1, <1>2, <1>3, InvHolds, ListsCorrect, OrderHolds, EntryHolds, DataHolds, FreeingHolds,
     CopyHolds, PTL DEF Spec

(***************************************************************************)
(* Where an operation of load() or requestNewPage() erases a sector, every *)
(* item of it is on another page: of the page that is freed on the new one *)
(* (CopyInv), of the new page, when the move starts again, on the page     *)
(* that is freed (OnlyCopiesWhileFreeing).                                 *)
(***************************************************************************)
LEMMA ErasedElsewhere ==
  ASSUME Inv, PagesListed, OrderInv, EntryInv, FreeingInv, CopyInv, OnlyCopiesWhileFreeing,
         NEW p \in EraseTarget, HasSeq(header[p]), NEW i \in Written(p)
  PROVE  \E q \in Sector \ {p} :
           HasSeq(header[q]) /\ \E j \in Written(q) : entryData[q][j] = entryData[p][i]
<1>1. CASE pc = "erasePage"
  <2>1. p = erasedPage /\ p \in Sector /\ Back \in Sector /\ Back # p /\ Back \in InUse
    BY <1>1, TwoPages DEF EraseTarget
  <2>2. mState[Back] = "ACTIVE" /\ Copied(Written(p))
    BY <1>1, <2>1 DEF CopyInv
  <2>3. header[Back] = "ACTIVE"
    BY <1>1, <2>1, <2>2, ListedPages DEF Running
  <2>4. i \in Index /\ Earlier(p, i) \subseteq Written(p)
    BY <2>1, WrittenFinite DEF Earlier
  <2>5. Rank(p, i) < Cardinality(Written(p)) /\ Rank(p, i) \in Nat /\ Rank(p, i) <= i
    BY <2>1, <2>4, RankGrows, RankBound
  <2>6. Rank(p, i) \in Index
    BY <2>4, <2>5, EntryCountAssumption DEF Index
  <2>7. Rank(p, i) \in Written(Back) /\ entryData[Back][Rank(p, i)] = entryData[p][i]
    BY <2>1, <2>2, <2>5, <2>6 DEF Copied
  <2> QED
    BY <2>1, <2>3, <2>7 DEF HasSeq
<1>2. CASE pc = "recover"
  <2>1. p = Back /\ FreeingPages # {} /\ mState[Back] = "ACTIVE" /\ mPageList # <<>>
    BY <1>2 DEF EraseTarget, Inv, ControlInv, MoveInv
  <2>2. PICK n \in DOMAIN mPageList : mState[mPageList[n]] = "FREEING"
    BY <2>1 DEF FreeingPages
  <2>3. mPageList[n] \in Sector /\ Back \in Sector
    BY <2>1, <2>2, OrderTypes
  <2>4. header[mPageList[n]] = "FREEING" /\ header[Back] = "ACTIVE"
    BY <2>1, <2>2, <2>3 DEF OrderInv, Agree
  <2>5. \E j \in Written(mPageList[n]) : entryData[Back][i] = entryData[mPageList[n]][j]
    BY <2>1, <2>3, <2>4, CopiesByEntry
  <2> QED
    BY <2>1, <2>3, <2>4, <2>5 DEF HasSeq
<1>3. CASE pc = "activate"
  <2>1. p \in Sector /\ mState[p] = "CORRUPT"
    BY <1>3 DEF EraseTarget
  <2> QED
    BY <2>1 DEF OrderInv, Agree, HasSeq
<1> QED
  BY <1>1, <1>2, <1>3 DEF EraseTarget

\* No other step takes a page out of use, cut off or not.
LEMMA LostByErase ==
  ASSUME Inv, PagesListed, OrderInv, EntryInv, [Next]_vars, NEW p \in Sector,
         HasSeq(header[p]), ~HasSeq(header'[p])
  PROVE  p \in EraseTarget
<1> USE DEF pageVars, flashVars
<1>1. CASE HalfDone
  <2>1. ASSUME NEW q \in EraseTarget, SectorErased(q, "CORRUPT"), p # q
        PROVE  FALSE
    BY <2>1, TargetSectors, DataTypes DEF SectorErased
  <2>2. ASSUME NEW q \in HeaderTarget, header' = [header EXCEPT ![q] = "CORRUPT"]
        PROVE  FALSE
    <3>1. q = Back /\ q \in Sector /\ mState[Back] = "UNINITIALIZED"
      BY TargetSectors DEF HeaderTarget, OrderInv, ActiveLast
    <3>2. header[q] = "UNINITIALIZED"
      BY <3>1 DEF OrderInv, Agree
    <3> QED
      BY <2>2, <3>1, <3>2, DataTypes DEF HasSeq
  <2> QED
    BY <1>1, <2>1, <2>2 DEF HalfDone
<1>2. CASE FreePage
  <2>1. erasedPage \in Sector /\ ErasePage(erasedPage)
    BY <1>2, FreedPage DEF FreePage
  <2> QED
    BY <1>2, <2>1, Erased DEF FreePage, EraseTarget
<1>3. CASE RecoverFreeing
  <2>1. pc = "recover" /\ FreeingPages # {} /\ Back \in Sector
        /\ (mState[Back] = "ACTIVE" => ErasePage(Back))
        /\ (mState[Back] # "ACTIVE" => header' = header)
    BY <1>3, RecoveredPages DEF RecoverFreeing
  <2> QED
    BY <2>1, Erased DEF EraseTarget
<1>4. CASE EraseCorrupt
  <2> DEFINE e == Head(mFreePageList)
  <2>1. e \in Sector /\ ErasePage(e) /\ mState[e] = "CORRUPT" /\ mFreePageList # <<>> /\ pc = "activate"
    BY <1>4, OrderTypes DEF EraseCorrupt
  <2>2. p = e
    <3> HIDE DEF e
    <3> QED
      BY <2>1, Erased
  <2> QED
    BY <2>1, <2>2 DEF EraseTarget
<1>5. CASE Initialize(Back) \/ AlterPageState(Back, "FULL") \/ AlterPageState(erasedPage, "FREEING")
  BY <1>5, DataTypes DEF Initialize, AlterPageState, HasSeq
<1>6. CASE header' = header
  BY <1>6
<1> QED
  BY <1>1, <1>2, <1>3, <1>4, <1>5, <1>6
     DEF Next, Manage, Load, Move, Begin, Serve, Crash, Reinitialize, FlashError, vars,
         LoadSector, LoadPage, RepairHalfWritten, ClearHalfWritten, RepairDuplicate, RepairDone,
         InsertPage, Settle, EraseOldVersion, NothingFreeing, CheckFreePages, RequestNewPage,
         ActivatePage, ActivateNothing, MarkFreeing, StartCopy, CopyInit, CopyData, CopyState,
         FindForSet, FindForErase, TryWrite, InitPage, WriteData, WriteState, MarkFull, EraseFound,
         EraseOfNamespace, Return, EraseEntry, WriteEntryData, WriteEntryState

(***************************************************************************)
(* No item is lost with a sector that is erased, whatever was cut off and  *)
(* taken up again before.                                                  *)
(***************************************************************************)
THEOREM NothingDiscarded ==
  ASSUME ~FaultsWhileLoading, ~ContinueAfterFailure
  PROVE  Spec => EraseDiscardsNothing
<1> DEFINE Kept ==
      \A p \in Sector : HasSeq(header[p]) /\ ~HasSeq(header'[p]) =>
        \A i \in Written(p) : \E q \in Sector \ {p} :
          HasSeq(header[q]) /\ \E j \in Written(q) : entryData[q][j] = entryData[p][i]
<1>1. /\ Inv /\ PagesListed /\ OrderInv /\ EntryInv /\ FreeingInv /\ CopyInv
      /\ OnlyCopiesWhileFreeing /\ [Next]_vars
      => Kept
  <2> SUFFICES ASSUME Inv, PagesListed, OrderInv, EntryInv, FreeingInv, CopyInv,
                      OnlyCopiesWhileFreeing, [Next]_vars,
                      NEW p \in Sector, HasSeq(header[p]), ~HasSeq(header'[p]), NEW i \in Written(p)
               PROVE  \E q \in Sector \ {p} :
                        HasSeq(header[q]) /\ \E j \in Written(q) : entryData[q][j] = entryData[p][i]
    OBVIOUS
  <2> QED
    BY LostByErase, ErasedElsewhere
<1> QED
  BY <1>1, InvHolds, ListsCorrect, OrderHolds, EntryHolds, FreeingHolds, CopyHolds, CopiesOnly, PTL
     DEF Spec, EraseDiscardsNothing
-----------------------------------------------------------------------------
(* The room of the partition. *)

(***************************************************************************)
(* The strengthening.  Some sector has no items on it, or load() will give *)
(* back the page of copies (SomeFree): what is on flash is enough to find  *)
(* a free page (Ready).  The page that requestNewPage() leaves has an      *)
(* entry for the item (Room).                                              *)
(***************************************************************************)
SomeFree ==
  \/ \E p \in Sector : ~HasSeq(header[p])
  \/ \E p, q \in Sector : header[p] = "FREEING" /\ header[q] = "ACTIVE"

Ready ==
  pc = "check" \/ (pc = "activate" /\ Booting /\ erasedPage # NoPage) => mFreePageList # <<>>

Room ==
  pc = "rewrite" =>
    mState[Back] = "UNINITIALIZED" \/ (mState[Back] = "ACTIVE" /\ ~NoRoom(Back))

SpaceInv == SomeFree /\ Ready /\ Room

\* A free page is one without a header that counts.
LEMMA FreeSector ==
  ASSUME Inv, PagesListed, OrderInv, mFreePageList # <<>>
  PROVE  \E p \in Free : p \in Sector /\ p \notin InUse /\ ~HasSeq(header[p])
<1>1. mFreePageList \in Seq(Sector)
  BY OrderTypes
<1>2. 1 \in DOMAIN mFreePageList
  BY <1>1
<1>3. mFreePageList[1] \in Free
  BY <1>2 DEF Free
<1> QED
  BY <1>3, OrderTypes DEF PagesListed, OrderInv, FreeUnused

\* Past the reading of the sectors, one without items on it is a free page.
LEMMA UnusedSectorFree ==
  ASSUME Inv, PagesListed, OrderInv, EntryInv, FreeingInv, pc \in {"dup", "recover"},
         NEW p \in Sector, ~HasSeq(header[p])
  PROVE  mFreePageList # <<>>
<1>1. p \in InUse \cup Free
  BY AllLoaded, SectorNat, PageCountAssumption DEF PagesListed, Sector
<1>2. p \notin InUse
  BY ListedPages DEF Running, Headed, Early
<1>3. p \in Free
  BY <1>1, <1>2
<1> QED
  BY <1>3 DEF Free

\* Where activatePage() is called there is a free page.
LEMMA PageToActivate ==
  ASSUME Inv, Reserve, SpaceInv, pc = "activate"
  PROVE  mFreePageList # <<>>
<1>1. CASE erasedPage = NoPage
  <2>1. Len(mFreePageList) >= 2
    BY <1>1 DEF Reserve
  <2> QED
    BY <2>1, OrderTypes
<1>2. CASE erasedPage # NoPage
  BY <1>2 DEF Reserve, SpaceInv, Ready
<1> QED
  BY <1>1, <1>2

\* What is on flash is enough for load() to find a free page.
LEMMA NextSomeFree ==
  ASSUME Inv, PagesListed, OrderInv, EntryInv, FreeingInv, Reserve, SomeFree, [Next]_vars
  PROVE  SomeFree'
<1> USE DEF pageVars, flashVars
<1>1. CASE header' = header
  BY <1>1 DEF SomeFree
<1>2. ASSUME NEW p \in Sector, header'[p] \in {"UNINITIALIZED", "CORRUPT"}
      PROVE  SomeFree'
  BY <1>2 DEF SomeFree, HasSeq
<1>3. CASE HalfDone
  <2>1. \A q \in Sector : header'[q] \in {header[q], "CORRUPT"}
    BY <1>3, HalfDoneNumbers
  <2>2. CASE \E q \in Sector : header'[q] = "CORRUPT"
    BY <1>2, <2>2
  <2>3. CASE ~ \E q \in Sector : header'[q] = "CORRUPT"
    BY <2>1, <2>3 DEF SomeFree
  <2> QED
    BY <2>2, <2>3
<1>4. CASE FreePage
  <2>1. erasedPage \in Sector /\ ErasePage(erasedPage)
    BY <1>4, FreedPage DEF FreePage
  <2> QED
    BY <1>2, <2>1, Erased
<1>5. CASE RecoverFreeing
  <2>1. /\ Back \in Sector /\ (mState[Back] = "ACTIVE" => ErasePage(Back))
        /\ (mState[Back] # "ACTIVE" => header' = header)
    BY <1>5, RecoveredPages
  <2> QED
    BY <1>1, <1>2, <2>1, Erased
<1>6. CASE EraseCorrupt
  <2> DEFINE e == Head(mFreePageList)
  <2>1. e \in Sector /\ ErasePage(e)
    BY <1>6, OrderTypes DEF EraseCorrupt
  <2> HIDE DEF e
  <2> QED
    BY <1>2, <2>1, Erased
<1>7. CASE InitPage \/ MarkFull
  <2>1. mFreePageList # <<>> /\ Back \in Sector
    BY <1>7, OrderTypes DEF InitPage, MarkFull, Reserve, Inv, ControlInv, MoveInv
  <2>2. PICK p \in Sector : p \notin InUse /\ ~HasSeq(header[p])
    BY <2>1, FreeSector
  <2>3. p # Back
    BY <1>7, <2>2, OrderTypes DEF InitPage, MarkFull, Inv, ControlInv, MoveInv
  <2>4. header'[p] = header[p]
    BY <1>7, <2>1, <2>2, <2>3, DataTypes DEF InitPage, MarkFull, Initialize, AlterPageState
  <2> QED
    BY <2>2, <2>4 DEF SomeFree
<1>8. CASE CopyInit
  <2>1. erasedPage \in Sector /\ Back \in Sector /\ erasedPage # Back /\ header[erasedPage] = "FREEING"
    BY <1>8, TwoPages DEF CopyInit
  <2>2. header'[erasedPage] = "FREEING" /\ header'[Back] = "ACTIVE"
    BY <1>8, <2>1, DataTypes DEF CopyInit, Initialize
  <2> QED
    BY <2>1, <2>2 DEF SomeFree
<1>9. CASE MarkFreeing
  <2>1. erasedPage \in Sector /\ header[erasedPage] = "FULL"
    BY <1>9, OrderTypes DEF MarkFreeing, Inv, ControlInv, MoveInv, FreeingInv, OneFreeing, Chosen
  <2>2. \A q \in Sector : q # erasedPage => header'[q] = header[q]
    BY <1>9, <2>1, DataTypes DEF MarkFreeing, AlterPageState
  <2> QED
    BY <2>1, <2>2 DEF SomeFree, HasSeq
<1> QED
  BY <1>1, <1>3, <1>4, <1>5, <1>6, <1>7, <1>8, <1>9
     DEF Next, Manage, Load, Move, Begin, Serve, Crash, Reinitialize, FlashError, vars,
         LoadSector, LoadPage, RepairHalfWritten, ClearHalfWritten, RepairDuplicate, RepairDone,
         InsertPage, Settle, EraseOldVersion, NothingFreeing, CheckFreePages, RequestNewPage,
         ActivatePage, ActivateNothing, StartCopy, CopyData, CopyState,
         FindForSet, FindForErase, TryWrite, WriteData, WriteState, EraseFound,
         EraseOfNamespace, Return, EraseEntry, WriteEntryData, WriteEntryState

\* load() comes to its check, or to a move cut off, with a free page.
LEMMA NextReady ==
  ASSUME ~FaultsWhileLoading, Inv, PagesListed, OrderInv, EntryInv, FreeingInv, SpaceInv, [Next]_vars
  PROVE  Ready'
<1> USE DEF pageVars, managerVars, localVars, requestVars
<1>1. CASE RecoverFreeing
  <2>1. CASE mState[Back] = "ACTIVE"
    <3>1. mFreePageList' = Append(mFreePageList, Back) /\ mFreePageList \in Seq(Sector)
      BY <1>1, <2>1, OrderTypes DEF RecoverFreeing
    <3>2. mFreePageList' # <<>>
      BY <3>1
    <3> QED
      BY <3>2 DEF Ready
  <2>2. CASE mState[Back] # "ACTIVE"
    <3>1. /\ pc = "recover" /\ mFreePageList' = mFreePageList
          /\ mPageList # <<>> /\ Back \in InUse
      BY <1>1, <2>2, OrderTypes DEF RecoverFreeing, Inv, ControlInv, MoveInv
    <3>2. \A p \in Sector : header[p] # "ACTIVE"
      BY <2>2, <3>1 DEF OrderInv, ActiveLast, Loaded, Read
    <3>3. PICK p \in Sector : ~HasSeq(header[p])
      BY <3>2 DEF SpaceInv, SomeFree
    <3> QED
      BY <3>1, <3>3, UnusedSectorFree DEF Ready
  <2> QED
    BY <2>1, <2>2
<1>2. CASE NothingFreeing
  <2>1. pc = "recover" /\ FreeingPages = {} /\ mFreePageList' = mFreePageList
    BY <1>2 DEF NothingFreeing
  <2>2. \A p \in Sector : header[p] # "FREEING"
    <3>1. \A p \in InUse : mState[p] = header[p]
      BY <2>1 DEF OrderInv, Loaded, Read
    <3>2. \A p \in InUse : header[p] # "FREEING"
      BY <2>1, <3>1, OrderTypes DEF FreeingPages, InUse
    <3> QED
      BY <2>1, <3>2, ListedPages DEF Running, HasSeq
  <2>3. PICK p \in Sector : ~HasSeq(header[p])
    BY <2>2 DEF SpaceInv, SomeFree
  <2> QED
    BY <2>1, <2>3, UnusedSectorFree DEF Ready
<1>3. CASE FreePage
  <2>1. mFreePageList' = Append(mFreePageList, erasedPage) /\ mFreePageList \in Seq(Sector)
    BY <1>3, OrderTypes DEF FreePage
  <2>2. mFreePageList' # <<>>
    BY <2>1
  <2> QED
    BY <2>2 DEF Ready
<1>4. CASE RequestNewPage \/ Settle
  <2>1. pc' # "check" /\ mStorageState' = mStorageState
    BY <1>4 DEF RequestNewPage, Settle, Respond
  <2>2. ~Booting \/ erasedPage' = NoPage
    BY <1>4 DEF RequestNewPage, Settle, Inv, ControlInv, PhaseInv, MoveInv
  <2> QED
    BY <2>1, <2>2 DEF Ready
<1>5. CASE EraseCorrupt \/ UNCHANGED vars
  BY <1>5 DEF EraseCorrupt, vars, SpaceInv, Ready
<1>6. CASE pc' \notin {"check", "activate"}
  BY <1>6 DEF Ready
<1> QED
  BY <1>1, <1>2, <1>3, <1>4, <1>5, <1>6, FlashErrorAnswer
     DEF Next, Manage, Load, Move, Begin, Serve, Crash, Reinitialize, StartLoading, Respond, Fail,
         LoadSector, RepairHalfWritten, RepairDuplicate, RepairDone,
         InsertPage, EraseOldVersion, CheckFreePages,
         ActivatePage, ActivateNothing, MarkFreeing, StartCopy, CopyInit, CopyData, CopyState,
         FindForSet, FindForErase, TryWrite, InitPage, WriteData, WriteState, MarkFull, EraseFound,
         EraseOfNamespace, Return

\* requestNewPage() leaves a page with an entry for the item.
LEMMA NextRoom ==
  ASSUME ~FaultsWhileLoading, Inv, PagesListed, OrderInv, EntryInv, FreeingInv, CopyInv, SpaceInv,
         [Next]_vars
  PROVE  Room'
<1> USE DEF pageVars, managerVars, localVars, requestVars
<1>1. CASE ActivatePage
  <2> DEFINE a == Head(mFreePageList)
  <2>1. a \in Free /\ Back' = a /\ mState[a] # "CORRUPT" /\ UNCHANGED mState /\ pc = "activate"
    BY <1>1, ActivatedPage DEF ActivatePage
  <2> HIDE DEF a
  <2>2. mState'[Back'] = "UNINITIALIZED"
    BY <2>1, ListedPages DEF Running
  <2> QED
    BY <2>2 DEF Room
<1>2. CASE FreePage
  <2> DEFINE e == erasedPage
  <2>1. /\ pc = "erasePage" /\ e \in Sector /\ Back \in Sector /\ e # Back /\ e # NoPage
        /\ Back' = Back /\ ErasePage(e) /\ mStorageState' = mStorageState
        /\ pc' = IF Booting THEN "check" ELSE "rewrite"
    BY <1>2, FreedPage, SectorNat DEF FreePage
  <2>2. mState'[Back] = mState[Back] /\ mNextFreeEntry'[Back] = mNextFreeEntry[Back]
    BY <2>1, DataTypes DEF ErasePage
  <2>3. CASE Written(e) = {}
    BY <2>1, <2>2, <2>3 DEF CopyInv, Room
  <2>4. CASE Written(e) # {} /\ ~Booting
    <3>1. mState[Back] = "ACTIVE" /\ mNextFreeEntry[Back] = Cardinality(Written(e))
      BY <2>1, <2>4 DEF CopyInv, Copied
    <3>2. Cardinality(Written(e)) < ENTRY_COUNT /\ Cardinality(Written(e)) \in Nat
      BY <2>1, <2>4, DataTypes DEF CopyInv
    <3>3. ~NoRoom(Back)'
      BY <2>1, <2>2, <3>1, <3>2, EntryCountAssumption DEF NoRoom
    <3> QED
      BY <2>1, <2>2, <3>1, <3>3 DEF Room
  <2>5. CASE Booting
    BY <2>1, <2>5 DEF Room
  <2> QED
    BY <2>3, <2>4, <2>5
<1>3. CASE UNCHANGED vars
  BY <1>3 DEF vars, SpaceInv, Room, Back, NoRoom
<1>4. CASE pc' # "rewrite"
  BY <1>4 DEF Room
<1> QED
  BY <1>1, <1>2, <1>3, <1>4, FlashErrorAnswer
     DEF Next, Manage, Load, Move, Begin, Serve, Crash, Reinitialize, StartLoading, Respond, Fail,
         LoadSector, RepairHalfWritten, RepairDuplicate, RepairDone, RecoverFreeing, NothingFreeing,
         InsertPage, EraseOldVersion, CheckFreePages, Settle, RequestNewPage, EraseCorrupt,
         ActivateNothing, MarkFreeing, StartCopy, CopyInit, CopyData, CopyState,
         FindForSet, FindForErase, TryWrite, InitPage, WriteData, WriteState, MarkFull, EraseFound,
         EraseOfNamespace, Return

(***************************************************************************)
(* There is a free page for load(), and an entry for the item of a request *)
(* that was given a new page.                                              *)
(***************************************************************************)
THEOREM SpaceHolds ==
  ASSUME ~FaultsWhileLoading, ~ContinueAfterFailure
  PROVE  Spec => []SpaceInv
<1>1. Init => SpaceInv
  <2>1. 0 \in Sector
    BY PageCountAssumption DEF Sector
  <2> QED
    BY <2>1 DEF Init, SpaceInv, SomeFree, Ready, Room, HasSeq
<1>2. /\ Inv /\ PagesListed /\ OrderInv /\ EntryInv /\ FreeingInv /\ CopyInv /\ Reserve /\ SpaceInv
      /\ [Next]_vars
      => SpaceInv'
  BY NextSomeFree, NextReady, NextRoom DEF SpaceInv
<1> QED
  BY <1>1, <1>2, InvHolds, ListsCorrect, OrderHolds, EntryHolds, FreeingHolds, CopyHolds,
     ReserveHolds, PTL DEF Spec

-----------------------------------------------------------------------------
(* The old version of an item that is set, or the item that is erased. *)

(***************************************************************************)
(* What findItem() looks for: the first entry with the key, if it has the  *)
(* type.  From when the old version was found until it is erased it is on  *)
(* some page in use, whichever page it is moved to.                        *)
(***************************************************************************)
Holds(p) ==
  /\ HasSeq(mState[p])
  /\ \E i \in Written(p) : /\ entryData[p][i].key = op.key
                           /\ op.type \in {ANY, entryData[p][i].type}
                           /\ \A j \in Written(p) : j < i => entryData[p][j].key # op.key

Searching ==
  pc \in {"write", "rewrite", "init", "data", "state", "markFull", "request", "erase"}
      \/ (pc \in MovePC /\ ~Booting)

OldKept == Searching /\ findPage # NoPage => \E p \in InUse : Holds(p)

\* The entries that findItem() scans are those in use.
LEMMA ScannedWritten ==
  ASSUME Inv, EntryInv, NEW p \in Sector, HasSeq(mState[p])
  PROVE  Scanned(p) = Written(p)
<1>1. Written(p) \in SUBSET Nat /\ Written(p) \subseteq Index
  BY EntryTypes
<1>2. \A i \in Written(p) : mFirstUsedEntry[p] <= i
  BY <1>1, LeastOrProperty DEF EntryInv, FirstUsedExact
<1>3. \A i \in Written(p) : i < mNextFreeEntry[p]
  BY <1>1 DEF EntryInv, Tracked, Written
<1> QED
  BY <1>2, <1>3 DEF Scanned

\* findItem() finds an item on the pages that hold one, and on no other.
LEMMA FoundIfHeld ==
  ASSUME Inv, EntryInv, NEW p \in Sector
  PROVE  Holds(p) <=> FindOnPage(p, op.key, op.type) # INVALID_ENTRY
<1> DEFINE match == {i \in Written(p) : entryData[p][i].key = op.key}
<1>1. match \in SUBSET Nat /\ match \subseteq Index /\ INVALID_ENTRY \notin Index
  BY EntryTypes
<1>2. match # {} => Min(match) \in match /\ \A y \in match : Min(match) <= y
  <2> HIDE DEF match
  <2> QED
    BY <1>1, MinProperty
<1>3. HasSeq(mState[p]) =>
        FindOnPage(p, op.key, op.type) =
          IF match # {} /\ op.type \in {ANY, entryData[p][Min(match)].type}
          THEN Min(match) ELSE INVALID_ENTRY
  BY ScannedWritten DEF FindOnPage
<1>4. ~HasSeq(mState[p]) => FindOnPage(p, op.key, op.type) = INVALID_ENTRY
  BY DEF FindOnPage
<1>5. Holds(p) <=> /\ HasSeq(mState[p])
                   /\ \E i \in match : /\ op.type \in {ANY, entryData[p][i].type}
                                       /\ \A j \in match : ~ (j < i)
  <2>1. Written(p) \subseteq Nat
    BY EntryTypes
  <2> QED
    BY <2>1 DEF Holds
<1> DEFINE m == Min(match)
<1>6. (\E i \in match : op.type \in {ANY, entryData[p][i].type} /\ \A j \in match : ~ (j < i))
      <=> match # {} /\ op.type \in {ANY, entryData[p][m].type}
  <2>1. ASSUME NEW i \in match, \A j \in match : ~ (j < i)
        PROVE  i = m
    <3> HIDE DEF match
    <3>1. m \in match /\ m <= i /\ m \in Nat /\ i \in Nat
      BY <1>1, <1>2, <2>1
    <3> QED
      BY <2>1, <3>1
  <2>2. match # {} => m \in match /\ \A j \in match : ~ (j < m)
    <3> HIDE DEF match
    <3>1. match # {} => m \in match /\ m \in Nat /\ \A j \in match : j \in Nat /\ m <= j
      BY <1>1, <1>2
    <3> QED
      BY <3>1
  <2> HIDE DEF match, m
  <2> QED
    BY <2>1, <2>2
<1>7. match # {} => m # INVALID_ENTRY
  <2> HIDE DEF match
  <2> QED
    BY <1>1, <1>2
<1> HIDE DEF match
<1> QED
  BY <1>3, <1>4, <1>5, <1>6, <1>7

\* So findItem() over all pages finds a page in use that holds the item.
LEMMA FoundPageHolds ==
  ASSUME Inv, EntryInv
  PROVE  /\ FindPage(op.key, op.type) # NoPage => \E p \in InUse : Holds(p)
         /\ (\E p \in InUse : Holds(p)) => FindPage(op.key, op.type) # NoPage
<1> DEFINE pages == FindPages(op.key, op.type)
<1>1. pages \in SUBSET Nat /\ pages \subseteq DOMAIN mPageList
  BY OrderTypes DEF FindPages
<1>2. (\E p \in InUse : Holds(p)) <=> pages # {}
  BY OrderTypes, FoundIfHeld DEF FindPages, InUse
<1>3. pages # {} => mPageList[Min(pages)] # NoPage
  <2> HIDE DEF pages
  <2>1. pages # {} => Min(pages) \in DOMAIN mPageList
    BY <1>1, MinProperty
  <2> QED
    BY <2>1, OrderTypes, SectorNat
<1> QED
  BY <1>2, <1>3 DEF FindPage

\* A page that keeps its items and its state holds what it held.
LEMMA SameHolds ==
  ASSUME NEW p \in Sector, Holds(p), op' = op, HasSeq(mState'[p]),
         Written(p)' = Written(p), \A i \in Written(p) : entryData'[p][i] = entryData[p][i]
  PROVE  Holds(p)'
BY DEF Holds

\* An item written behind those of a page hides none of them.
LEMMA WriteEntryStateHolds ==
  ASSUME Inv, EntryInv, NEW p \in Sector, NEW b \in Sector, Holds(p), op' = op,
         HasSeq(mState[b]), ~NoRoom(b), WriteEntryState(b)
  PROVE  Holds(p)'
<1> DEFINE n == mNextFreeEntry[b]
<1>1. n \in Index /\ n \in Nat
  BY DataTypes, EntryCountAssumption DEF NoRoom, Index
<1>2. /\ entryData' = entryData /\ mState' = mState
      /\ \A q \in Sector, i \in Index : entryTable'[q][i] =
           IF q = b /\ i = n THEN "WRITTEN" ELSE entryTable[q][i]
  BY <1>1, DataTypes DEF WriteEntryState
<1>3. \A i \in Written(b) : i < n /\ i \in Nat
  BY EntryTypes DEF EntryInv, Tracked, Written
<1> HIDE DEF n
<1>4. CASE p # b
  <2>1. Written(p)' = Written(p)
    BY <1>2, <1>4 DEF Written
  <2> QED
    BY <1>2, <2>1, SameHolds DEF Holds
<1>5. CASE p = b
  <2>1. Written(b)' = Written(b) \cup {n}
    BY <1>1, <1>2 DEF Written
  <2>2. PICK i \in Written(b) : /\ entryData[b][i].key = op.key
                                /\ op.type \in {ANY, entryData[b][i].type}
                                /\ \A j \in Written(b) : j < i => entryData[b][j].key # op.key
    BY <1>5 DEF Holds
  <2>3. i \in Written(b)' /\ \A j \in Written(b)' : j < i => entryData'[b][j].key # op'.key
    BY <1>1, <1>2, <1>3, <2>1, <2>2
  <2> QED
    BY <1>2, <1>5, <2>2, <2>3 DEF Holds
<1> QED
  BY <1>4, <1>5

\* A rank is smaller for an earlier entry.
LEMMA RankOrder ==
  ASSUME Inv, NEW p \in Sector, NEW i \in Written(p), NEW j \in Written(p), i < j
  PROVE  Rank(p, i) < Rank(p, j)
<1>1. i \in Index /\ j \in Index /\ Written(p) \subseteq Nat
  BY WrittenFinite
<1>2. Earlier(p, j) \in SUBSET Written(p) /\ i \in Earlier(p, j)
  BY DEF Earlier
<1>3. Earlier(p, i) \subseteq Earlier(p, j)
  BY <1>1 DEF Earlier
<1> QED
  BY <1>2, <1>3, RankGrows DEF Rank

\* The new page holds what the page did whose items were copied to it.
LEMMA CopiedHolds ==
  ASSUME Inv, PagesListed, OrderInv, EntryInv, FreeingInv, CopyInv, pc = "erasePage",
         Holds(erasedPage)
  PROVE  Holds(Back)
<1> DEFINE e == erasedPage
<1>1. PICK i \in Written(e) : /\ entryData[e][i].key = op.key
                              /\ op.type \in {ANY, entryData[e][i].type}
                              /\ \A j \in Written(e) : j < i => entryData[e][j].key # op.key
  BY DEF Holds
<1>2. e \in Sector /\ Back \in Sector
  BY TwoPages
<1>3. mState[Back] = "ACTIVE" /\ Copied(Written(e))
  BY <1>1 DEF CopyInv
<1>4. \A j \in Written(e) : Rank(e, j) \in Written(Back) /\ entryData[Back][Rank(e, j)] = entryData[e][j]
  <2> SUFFICES ASSUME NEW j \in Written(e)
               PROVE  Rank(e, j) \in Written(Back) /\ entryData[Back][Rank(e, j)] = entryData[e][j]
    OBVIOUS
  <2>1. j \in Index /\ Earlier(e, j) \subseteq Written(e)
    BY <1>2, WrittenFinite DEF Earlier
  <2>2. Rank(e, j) < Cardinality(Written(e)) /\ Rank(e, j) \in Nat /\ Rank(e, j) <= j
    BY <1>2, <2>1, RankGrows, RankBound
  <2>3. Rank(e, j) \in Index
    BY <2>1, <2>2, EntryCountAssumption DEF Index
  <2> QED
    BY <1>3, <2>2, <2>3 DEF Copied
<1>5. ASSUME NEW x \in Written(Back), x < Rank(e, i)
      PROVE  entryData[Back][x].key # op.key
  <2>1. PICK j \in Written(e) : Rank(e, j) = x
    BY <1>3 DEF Copied
  <2>2. i \in Nat /\ j \in Nat /\ Rank(e, i) \in Nat /\ Rank(e, j) \in Nat
    BY <1>2, WrittenFinite, RankBound
  <2>3. j < i
    <3>1. ~ (i < j) /\ i # j
      BY <1>2, <1>5, <2>1, <2>2, RankOrder
    <3> QED
      BY <2>2, <3>1
  <2> QED
    BY <1>1, <1>4, <2>1, <2>3
<1>6. entryData[Back][Rank(e, i)] = entryData[e][i] /\ Rank(e, i) \in Written(Back)
  BY <1>4
<1> HIDE DEF e
<1> QED
  BY <1>1, <1>3, <1>5, <1>6 DEF Holds, HasSeq


\* Steps that leave the pages in use with what they hold.
LEMMA SameOld ==
  ASSUME Inv, OldKept, UNCHANGED <<op, findPage>>, Searching' => Searching,
         InUse \subseteq InUse',
         \A p \in InUse : HasSeq(mState[p]) =>
           /\ HasSeq(mState'[p]) /\ Written(p)' = Written(p)
           /\ \A i \in Written(p) : entryData'[p][i] = entryData[p][i]
  PROVE  OldKept'
<1>1. ASSUME NEW p \in InUse, Holds(p)
      PROVE  Holds(p)'
  <2>1. p \in Sector /\ HasSeq(mState[p])
    BY <1>1, OrderTypes DEF Holds
  <2> QED
    BY <1>1, <2>1, SameHolds
<1> QED
  BY <1>1 DEF OldKept

\* The data of an item are written where there is no item.
LEMMA WriteEntryDataOld ==
  ASSUME Inv, EntryInv, DataInv, OldKept, UNCHANGED <<op, findPage, mPageList>>,
         Searching' => Searching, Back \in Sector, HasSeq(mState[Back]), ~NoRoom(Back),
         NEW item, WriteEntryData(Back, item)
  PROVE  OldKept'
<1> DEFINE n == mNextFreeEntry[Back]
<1>1. n \in Index
  BY DataTypes, EntryCountAssumption DEF NoRoom, Index
<1>2. entryTable[Back][n] = "EMPTY"
  BY <1>1 DEF DataInv, BlankNext
<1>3. /\ UNCHANGED <<entryTable, mState>>
      /\ \A q \in Sector, i \in Index : ~ (q = Back /\ i = n) => entryData'[q][i] = entryData[q][i]
  BY <1>1, DataTypes DEF WriteEntryData, objectVars
<1> HIDE DEF n
<1>4. \A q \in Sector : Written(q)' = Written(q)
                       /\ \A i \in Written(q) : entryData'[q][i] = entryData[q][i]
  BY <1>2, <1>3 DEF Written
<1>5. InUse' = InUse
  BY DEF InUse
<1> QED
  BY <1>3, <1>4, <1>5, SameOld, OrderTypes

\* Nor does its state word, or the header of the page, hide an item.
LEMMA WriteEntryStateOld ==
  ASSUME Inv, EntryInv, OldKept, UNCHANGED <<op, findPage, mPageList>>,
         Searching' => Searching, Back \in Sector, HasSeq(mState[Back]), ~NoRoom(Back),
         WriteEntryState(Back)
  PROVE  OldKept'
<1>1. InUse' = InUse
  BY DEF InUse
<1>2. \A p \in InUse : Holds(p) => Holds(p)'
  BY OrderTypes, WriteEntryStateHolds
<1> QED
  BY <1>1, <1>2 DEF OldKept

LEMMA HeaderOld ==
  ASSUME Inv, OldKept, UNCHANGED <<op, findPage, mPageList>>, Searching' => Searching,
         NEW q \in Sector,
         Initialize(q) \/ AlterPageState(q, "FULL") \/ AlterPageState(q, "FREEING")
  PROVE  OldKept'
<1>1. /\ UNCHANGED <<entryTable, entryData>>
      /\ \A p \in Sector : p # q => mState'[p] = mState[p]
      /\ HasSeq(mState'[q])
  BY DataTypes DEF Initialize, AlterPageState, HasSeq
<1>2. InUse' = InUse
  BY DEF InUse
<1> QED
  BY <1>1, <1>2, SameOld, OrderTypes DEF Written

\* The page that is freed leaves its items on the new one.
LEMMA FreePageOld ==
  ASSUME Inv, PagesListed, OrderInv, EntryInv, FreeingInv, CopyInv, OldKept, FreePage,
         UNCHANGED <<op, findPage>>
  PROVE  OldKept'
<1> DEFINE e == erasedPage
<1>1. /\ pc = "erasePage" /\ e \in Sector /\ e \in InUse /\ e # Back /\ Back \in Sector /\ Back \in InUse
      /\ InUse' = InUse \ {e} /\ ErasePage(e) /\ mStorageState' = mStorageState
  BY FreedPage DEF FreePage
<1>2. \A p \in Sector : p # e =>
        mState'[p] = mState[p] /\ entryTable'[p] = entryTable[p] /\ entryData'[p] = entryData[p]
  BY <1>1, DataTypes DEF ErasePage, SectorErased
<1>3. ASSUME NEW p \in InUse, p # e, Holds(p)
      PROVE  p \in InUse' /\ Holds(p)'
  <2>1. p \in Sector /\ HasSeq(mState[p]) /\ Written(p)' = Written(p)
    BY <1>2, <1>3, OrderTypes DEF Written, Holds
  <2>2. Holds(p)'
    BY <1>2, <1>3, <2>1, SameHolds
  <2> QED
    BY <1>1, <1>3, <2>2
<1>4. SUFFICES ASSUME Searching', findPage' # NoPage
               PROVE  \E p \in InUse' : Holds(p)'
  BY DEF OldKept
<1>5. PICK p \in InUse : Holds(p)
  BY <1>1, <1>4 DEF OldKept, Searching, FreePage
<1>6. CASE p # e
  BY <1>3, <1>5, <1>6
<1>7. CASE p = e
  BY <1>1, <1>3, <1>5, <1>7, CopiedHolds
<1> QED
  BY <1>6, <1>7

\* The page manager moves the old version, and does not lose it.
LEMMA ManageOld ==
  ASSUME Inv, PagesListed, OrderInv, EntryInv, DataInv, FreeingInv, CopyInv, OldKept, Manage
  PROVE  OldKept'
<1> USE DEF pageVars, flashVars, managerVars, localVars
<1>1. UNCHANGED <<op, findPage>>
  BY DEF Manage, requestVars
<1>2. CASE Load
  <2>1. Booting /\ (mStorageState' = mStorageState \/ pc' = "idle")
        /\ pc' \in LoadPC \cup MovePC \cup {"idle"}
    BY <1>2 DEF Load, LoadSector, RepairHalfWritten, RepairDuplicate, RepairDone, InsertPage, Settle,
       EraseOldVersion, RecoverFreeing, NothingFreeing, CheckFreePages, Inv, ControlInv, PhaseInv
  <2> QED
    BY <2>1 DEF OldKept, Searching
<1>3. CASE RequestNewPage \/ ActivateNothing \/ StartCopy
  <2>1. UNCHANGED pageVars /\ UNCHANGED managerVars /\ (Searching' => Searching)
    BY <1>3 DEF RequestNewPage, ActivateNothing, StartCopy, Searching, Fail, Respond
  <2> QED
    BY <1>1, <2>1, SameOld DEF InUse, Written
<1>4. CASE EraseCorrupt
  <2> DEFINE c == Head(mFreePageList)
  <2>1. /\ c \in Sector /\ c \notin InUse /\ ErasePage(c) /\ InUse' = InUse /\ (Searching' => Searching)
    BY <1>4, OrderTypes DEF EraseCorrupt, EntryInv, Writable, InUse, Searching
  <2> HIDE DEF c
  <2>2. \A p \in Sector : p # c =>
          mState'[p] = mState[p] /\ entryTable'[p] = entryTable[p] /\ entryData'[p] = entryData[p]
    BY <2>1, DataTypes DEF ErasePage, SectorErased
  <2> QED
    BY <1>1, <2>1, <2>2, SameOld, OrderTypes DEF Written
<1>5. CASE ActivatePage
  <2>1. InUse \subseteq InUse' /\ UNCHANGED <<mState, entryTable, entryData>>
        /\ (Searching' => Searching)
    BY <1>5, ActivatedPage DEF ActivatePage, Searching
  <2> QED
    BY <1>1, <2>1, SameOld DEF Written
<1>6. CASE MarkFreeing
  <2>1. erasedPage \in Sector /\ UNCHANGED mPageList /\ (Searching' => Searching)
    BY <1>6, OrderTypes DEF MarkFreeing, Inv, ControlInv, MoveInv, Searching, Respond
  <2> QED
    BY <1>1, <1>6, <2>1, HeaderOld, SameOld DEF MarkFreeing, InUse, Written
<1>7. CASE CopyInit
  BY <1>1, <1>7, TwoPages, HeaderOld DEF CopyInit, Searching
<1>8. CASE CopyData
  <2>1. pc = "copyData" /\ ~NoRoom(Back) /\ Back \in Sector /\ mState[Back] = "ACTIVE"
    BY <1>8, RoomForCopy, TwoPages DEF CopyData, FreeingInv, NewPage
  <2> QED
    BY <1>1, <1>8, <2>1, WriteEntryDataOld DEF CopyData, Searching, HasSeq
<1>9. CASE CopyState
  <2>1. pc = "copyState" /\ ~NoRoom(Back) /\ Back \in Sector /\ mState[Back] = "ACTIVE"
    BY <1>9, RoomForCopy, TwoPages DEF CopyState, FreeingInv, NewPage
  <2> QED
    BY <1>1, <1>9, <2>1, WriteEntryStateOld DEF CopyState, Searching, HasSeq
<1>10. CASE FreePage
  BY <1>1, <1>10, FreePageOld
<1> QED
  BY <1>2, <1>3, <1>4, <1>5, <1>6, <1>7, <1>8, <1>9, <1>10 DEF Manage, Move

\* Nor does writeItem().
LEMMA ServeOld ==
  ASSUME Inv, PagesListed, OrderInv, EntryInv, DataInv, OldKept, Begin \/ Serve
  PROVE  OldKept'
<1> USE DEF pageVars, managerVars, localVars, requestVars
<1>1. CASE Begin \/ EraseFound \/ EraseOfNamespace \/ Return
  <2>1. pc' \in {"find", "clear", "failed", "return", "halted", "idle"}
    BY <1>1 DEF Begin, EraseFound, EraseOfNamespace, Return, Respond
  <2> QED
    BY <2>1 DEF OldKept, Searching
<1>2. CASE FindForSet \/ FindForErase
  <2>1. findPage' = FindPage(op.key, op.type) /\ UNCHANGED <<op, mPageList>> /\ UNCHANGED pageVars
    BY <1>2 DEF FindForSet, FindForErase
  <2>2. findPage' # NoPage => \E p \in InUse : Holds(p)
    BY <2>1, FoundPageHolds
  <2>3. InUse' = InUse /\ \A p \in InUse : Holds(p)' <=> Holds(p)
    BY <2>1 DEF InUse, Holds, Written
  <2> QED
    BY <2>2, <2>3 DEF OldKept
<1>3. CASE TryWrite
  BY <1>3, SameOld DEF TryWrite, Searching, Respond, InUse, Written
<1>4. CASE InitPage \/ MarkFull
  <2>1. Back \in Sector /\ UNCHANGED <<mPageList, op, findPage>> /\ (Searching' => Searching)
    BY <1>4, OrderTypes DEF InitPage, MarkFull, Inv, ControlInv, MoveInv, Searching, Respond
  <2> QED
    BY <1>4, <2>1, HeaderOld, SameOld DEF InitPage, MarkFull, InUse, Written
<1>5. CASE WriteData \/ WriteState
  <2>1. /\ Back \in Sector /\ HasSeq(mState[Back]) /\ ~NoRoom(Back)
        /\ UNCHANGED <<mPageList, op, findPage>> /\ (Searching' => Searching)
    BY <1>5, OrderTypes DEF WriteData, WriteState, Inv, ControlInv, MoveInv, RoomInv, EntryInv, Writable,
       Searching, Respond
  <2> QED
    BY <1>5, <2>1, WriteEntryDataOld, WriteEntryStateOld DEF WriteData, WriteState
<1> QED
  BY <1>1, <1>2, <1>3, <1>4, <1>5 DEF Serve

(***************************************************************************)
(* From when it is found until it is erased the old version stays on a     *)
(* page in use.                                                            *)
(***************************************************************************)
THEOREM OldVersionStays ==
  ASSUME ~FaultsWhileLoading, ~ContinueAfterFailure
  PROVE  Spec => []OldKept
<1>1. Init => OldKept
  BY DEF Init, OldKept, Searching
<1>2. /\ Inv /\ PagesListed /\ OrderInv /\ EntryInv /\ DataInv /\ FreeingInv /\ CopyInv /\ OldKept
      /\ [Next]_vars
      => OldKept'
  <2> SUFFICES ASSUME Inv, PagesListed, OrderInv, EntryInv, DataInv, FreeingInv, CopyInv, OldKept,
                      [Next]_vars
               PROVE  OldKept'
    OBVIOUS
  <2>1. CASE Manage
    BY <2>1, ManageOld
  <2>2. CASE Begin \/ Serve
    BY <2>2, ServeOld
  <2>3. CASE Crash \/ Reinitialize \/ FlashError
    BY <2>3, FlashErrorAnswer DEF Crash, Reinitialize, StartLoading, OldKept, Searching
  <2>4. CASE UNCHANGED vars
    BY <2>4, SameOld DEF vars, pageVars, managerVars, InUse, Searching, Written
  <2> QED
    BY <2>1, <2>2, <2>3, <2>4 DEF Next
<1> QED
  BY <1>1, <1>2, InvHolds, ListsCorrect, OrderHolds, EntryHolds, DataHolds, FreeingHolds, CopyHolds,
     PTL DEF Spec

-----------------------------------------------------------------------------
(* What follows. *)

(***************************************************************************)
(* load() succeeds wherever the power failed before, the copying finds     *)
(* room for every item, and the old version of an item that was written is *)
(* there to be erased: nothing aborts the program.                         *)
(***************************************************************************)
THEOREM LoadAlwaysSucceeds ==
  ASSUME ~FaultsWhileLoading, ~ContinueAfterFailure
  PROVE  Spec => []LoadSucceeds
<1> USE DEF LoadSucceeds
<1>1. Init => LoadSucceeds
  BY DEF Init
<1>2. /\ Inv /\ PagesListed /\ OrderInv /\ EntryInv /\ FreeingInv /\ CopyInv /\ Reserve /\ SpaceInv
      /\ OldKept /\ LoadSucceeds /\ [Next]_vars
      => LoadSucceeds'
  <2> SUFFICES ASSUME Inv, PagesListed, OrderInv, EntryInv, FreeingInv, CopyInv, Reserve, SpaceInv,
                      OldKept, LoadSucceeds, [Next]_vars
               PROVE  LoadSucceeds'
    OBVIOUS
  <2>1. CASE CheckFreePages
    BY <2>1 DEF CheckFreePages, SpaceInv, Ready
  <2>2. CASE ActivateNothing
    BY <2>2, PageToActivate DEF ActivateNothing
  <2>3. CASE CopyData
    BY <2>3, RoomForCopy DEF CopyData
  <2>4. CASE EraseFound
    <3>1. findPage # NoPage /\ pc = "erase"
      BY <2>4 DEF EraseFound, Inv, ControlInv, RequestInv
    <3>2. OldVersionOn # NoPage
      BY <3>1, FoundPageHolds DEF OldKept, Searching, OldVersionOn
    <3> QED
      BY <2>4, <3>2 DEF EraseFound, Respond
  <2>5. CASE FlashError
    BY <2>5, FlashErrorAnswer
  <2>6. CASE UNCHANGED vars
    BY <2>6 DEF vars
  <2> QED
    BY <2>1, <2>2, <2>3, <2>4, <2>5, <2>6
       DEF Next, Manage, Load, Move, Begin, Serve, Crash, Reinitialize, StartLoading, Respond,
           LoadSector, RepairHalfWritten, RepairDuplicate, RepairDone, RecoverFreeing, NothingFreeing,
           InsertPage, EraseOldVersion, Settle, RequestNewPage, EraseCorrupt, ActivatePage, MarkFreeing,
           StartCopy, CopyInit, CopyState, FreePage, FindForSet, FindForErase, TryWrite, InitPage,
           WriteData, WriteState, MarkFull, EraseOfNamespace, Return
<1> QED
  BY <1>1, <1>2, InvHolds, ListsCorrect, OrderHolds, EntryHolds, FreeingHolds, CopyHolds,
     ReserveHolds, SpaceHolds, OldVersionStays, PTL DEF Spec

\* requestNewPage() finds no page to free only when no page has an unused entry.
LEMMA NoUnused ==
  ASSUME Inv, PagesListed, OrderInv, EntryInv, DataInv, FreeingInv, pc = "request", MaxUnusedItems = {},
         NEW p \in InUse
  PROVE  Written(p) = Index
<1> DEFINE used == {mUsedEntryCount[q] : q \in InUse}
<1>1. \A q \in InUse : /\ q \in Sector
                       /\ mUsedEntryCount[q] = Cardinality(Written(q)) /\ mUsedEntryCount[q] \in Nat
  BY ListedPages, DataTypes DEF Running, Headed, DataInv, Counted
<1>2. used \in SUBSET Nat /\ used # {}
  BY <1>1
<1>3. PICK q \in InUse : \A r \in InUse : mUsedEntryCount[q] <= mUsedEntryCount[r]
  <2> DEFINE m == Min(used)
  <2>1. m \in used /\ \A y \in used : m <= y
    <3> HIDE DEF used
    <3> QED
      BY <1>2, MinProperty
  <2> HIDE DEF m
  <2> QED
    BY <2>1
<1>4. mUsedEntryCount[q] >= ENTRY_COUNT
  <2>1. PICK n \in DOMAIN mPageList : mPageList[n] = q
    BY DEF InUse
  <2>2. \A m \in DOMAIN mPageList : mPageList[m] \in InUse
    BY DEF InUse
  <2>3. \A m \in DOMAIN mPageList : Unused(mPageList[m]) <= Unused(mPageList[n])
    BY <1>1, <1>3, <2>1, <2>2, EntryCountAssumption DEF Unused
  <2>4. ~ (Unused(mPageList[n]) > 0)
    BY <2>3 DEF MaxUnusedItems
  <2> QED
    BY <1>1, <2>1, <2>4, EntryCountAssumption DEF Unused
<1>5. Cardinality(Written(p)) >= ENTRY_COUNT
  BY <1>1, <1>3, <1>4, EntryCountAssumption
<1>6. IsFiniteSet(Index) /\ Cardinality(Index) = ENTRY_COUNT
  BY FS_Interval, EntryCountAssumption DEF Index
<1>7. Written(p) \in SUBSET Index
  BY <1>1, WrittenFinite
<1>8. Cardinality(Written(p)) <= ENTRY_COUNT
  BY <1>6, <1>7, FS_Subset
<1>9. Cardinality(Written(p)) = Cardinality(Index)
  BY <1>1, <1>5, <1>6, <1>8, EntryCountAssumption
<1> QED
  BY <1>6, <1>7, <1>9, FS_Subset

\* With one free page all others are in use.
LEMMA AllButOneInUse ==
  ASSUME Inv, PagesListed, pc = "request", Len(mFreePageList) = 1
  PROVE  Cardinality(InUse) = PageCount - 1
<1> DEFINE f == mFreePageList[1]
<1>1. mFreePageList \in Seq(Sector)
  BY OrderTypes
<1>2. DOMAIN mFreePageList = {1} /\ f \in Sector
  BY <1>1
<1>3. Free = {f}
  BY <1>2 DEF Free
<1>4. \A p \in Sector : p \in InUse \cup Free
  BY AllLoaded, SectorNat, PageCountAssumption DEF PagesListed, Sector
<1>5. InUse = Sector \ {f}
  BY <1>3, <1>4, OrderTypes DEF PagesListed
<1>6. IsFiniteSet(Sector) /\ Cardinality(Sector) = PageCount
  BY FS_Interval, PageCountAssumption DEF Sector
<1> HIDE DEF f
<1> QED
  BY <1>2, <1>5, <1>6, FS_RemoveElement

(***************************************************************************)
(* NOT_ENOUGH_SPACE is the answer of requestNewPage() when every entry of  *)
(* every page but the free one is in use, and of nothing else: the page    *)
(* that it leaves has room, and a page to activate is always there.        *)
(***************************************************************************)
THEOREM RefusedWhenFull ==
  ASSUME ~FaultsWhileLoading, ~ContinueAfterFailure
  PROVE  Spec => []RefusedOnlyWhenFull
<1> USE DEF RefusedOnlyWhenFull
<1>1. Init => RefusedOnlyWhenFull
  BY DEF Init
<1>2. /\ Inv /\ PagesListed /\ OrderInv /\ EntryInv /\ DataInv /\ FreeingInv /\ CopyInv /\ Reserve
      /\ SpaceInv /\ RefusedOnlyWhenFull /\ [Next]_vars
      => RefusedOnlyWhenFull'
  <2> SUFFICES ASSUME Inv, PagesListed, OrderInv, EntryInv, DataInv, FreeingInv, CopyInv, Reserve,
                      SpaceInv, RefusedOnlyWhenFull, [Next]_vars
               PROVE  RefusedOnlyWhenFull'
    OBVIOUS
  <2> USE DEF Respond, Fail, pageVars, managerVars
  <2>1. CASE RequestNewPage
    <3>1. CASE Len(mFreePageList) = 1 /\ MaxUnusedItems = {}
      <4>1. pc = "request" /\ UNCHANGED <<mPageList, entryTable>>
        BY <2>1 DEF RequestNewPage
      <4>2. Cardinality(InUse) = PageCount - 1 /\ \A p \in InUse : Written(p) = Index
        BY <3>1, <4>1, NoUnused, AllButOneInUse
      <4> QED
        BY <4>1, <4>2 DEF InUse, Written
    <3>2. CASE ~ (Len(mFreePageList) = 1 /\ MaxUnusedItems = {})
      BY <2>1, <3>2 DEF RequestNewPage
    <3> QED
      BY <3>1, <3>2
  <2>2. CASE TryWrite
    <3>1. CASE pc = "rewrite"
      BY <2>2, <3>1 DEF TryWrite, SpaceInv, Room
    <3>2. CASE pc = "write"
      BY <2>2, <3>2 DEF TryWrite
    <3> QED
      BY <2>2, <3>1, <3>2 DEF TryWrite
  <2>3. CASE ActivateNothing
    BY <2>3, PageToActivate DEF ActivateNothing
  <2>4. CASE FlashError
    BY <2>4, FlashErrorAnswer DEF Failure
  <2>5. CASE UNCHANGED vars
    BY <2>5 DEF vars, InUse, Written
  <2> QED
    BY <2>1, <2>2, <2>3, <2>4, <2>5
       DEF Next, Manage, Load, Move, Begin, Serve, Crash, Reinitialize, StartLoading,
           LoadSector, RepairHalfWritten, RepairDuplicate, RepairDone, RecoverFreeing, NothingFreeing,
           CheckFreePages, InsertPage, EraseOldVersion, Settle, EraseCorrupt, ActivatePage, MarkFreeing,
           StartCopy, CopyInit, CopyData, CopyState, FreePage, FindForSet, FindForErase, InitPage,
           WriteData, WriteState, MarkFull, EraseFound, EraseOfNamespace, Return
<1> QED
  BY <1>1, <1>2, InvHolds, ListsCorrect, OrderHolds, EntryHolds, DataHolds, FreeingHolds, CopyHolds,
     ReserveHolds, SpaceHolds, PTL DEF Spec
=============================================================================
