--------------------------- MODULE NvsStorageProofs ---------------------------
(***************************************************************************)
(* Proofs about NvsStorage, for every value of the constants: any number   *)
(* of pages, entries, keys, values, power failures and flash errors.       *)
(*                                                                         *)
(* Types alone are not inductive: that Back is a page, that an entry is    *)
(* free when its state is written, or that the request is a set, follows   *)
(* from where the program is.  Inv adds this.                              *)
(*                                                                         *)
(* Then the lists of pages: that they hold each sector once, whatever      *)
(* fails; that there is one ACTIVE page, that the list is in the order of  *)
(* the sequence numbers, and that a free page is kept.  The order as long  *)
(* as no flash operation of load() fails: a page that load() could not     *)
(* read is taken for a free one.                                           *)
(***************************************************************************)
EXTENDS NvsStorageProperties, NvsSequenceProofs

-----------------------------------------------------------------------------
(* The operators that the page manager is built from.                      *)

\* LeastOr returns its default, or the least element of the set.
LEMMA LeastOrProperty ==
  ASSUME NEW S \in SUBSET Nat, NEW default
  PROVE  /\ S = {} => LeastOr(S, default) = default
         /\ S # {} => /\ LeastOr(S, default) \in S
                      /\ \A y \in S : LeastOr(S, default) <= y
BY MinProperty DEF LeastOr

\* Without(list, p) removes one occurrence of a page in the list.
LEMMA WithoutProperty ==
  ASSUME NEW s \in Seq(Sector), NEW p \in Range(s)
  PROVE  \E i \in 1 .. Len(s) : s[i] = p /\ Without(s, p) = RemoveAt(s, i)
<1> DEFINE i == CHOOSE n \in DOMAIN s : s[n] = p
<1>1. \E n \in DOMAIN s : s[n] = p
  BY DEF Range
<1>2. i \in DOMAIN s /\ s[i] = p
  BY <1>1
<1> HIDE DEF i
<1>3. DOMAIN s = 1 .. Len(s)
  OBVIOUS
<1> QED
  BY <1>2, <1>3 DEF Without, i

-----------------------------------------------------------------------------
(* What the operations on a page return, and that they keep the types. *)

\* The entries of a page that are in use are a finite set of naturals.
LEMMA WrittenFinite ==
  ASSUME NEW p \in Sector
  PROVE  /\ Written(p) \in SUBSET Index /\ Index \in SUBSET Nat
         /\ Cardinality(Written(p)) \in Nat
<1>1. Written(p) \in SUBSET Index /\ Index \in SUBSET Nat
  BY EntryCountAssumption DEF Written, Index
<1>2. IsFiniteSet(Index)
  BY FS_Interval, EntryCountAssumption DEF Index
<1>3. IsFiniteSet(Written(p))
  BY <1>1, <1>2, FS_Subset
<1> QED
  BY <1>1, <1>3, FS_CardinalityType

\* findItem() returns an entry in use with the key and type, or INVALID_ENTRY.
LEMMA FindOnPageProperty ==
  ASSUME NEW p \in Sector, NEW k, NEW t
  PROVE  \/ FindOnPage(p, k, t) = INVALID_ENTRY
         \/ /\ FindOnPage(p, k, t) \in Written(p)
            /\ HasSeq(mState[p])
            /\ entryData[p][FindOnPage(p, k, t)].key = k
            /\ t \in {ANY, entryData[p][FindOnPage(p, k, t)].type}
<1> DEFINE match == {i \in Scanned(p) : entryData[p][i].key = k}
<1>1. match \in SUBSET Written(p) /\ match \in SUBSET Nat
  BY WrittenFinite DEF Scanned
<1>2. match # {} => Min(match) \in match
  BY <1>1, MinProperty
<1> HIDE DEF match
<1>3. match # {} => Min(match) \in Written(p) /\ entryData[p][Min(match)].key = k
  BY <1>1, <1>2 DEF match
<1>4. FindOnPage(p, k, t) = IF HasSeq(mState[p]) /\ match # {} /\ t \in {ANY, entryData[p][Min(match)].type}
                            THEN Min(match) ELSE INVALID_ENTRY
  BY DEF FindOnPage, match
<1> QED
  BY <1>3, <1>4

\* So does the search for an item of a namespace.
LEMMA FindNamespaceProperty ==
  ASSUME NEW p \in Sector, NEW ns
  PROVE  \/ FindNamespace(p, ns) = INVALID_ENTRY
         \/ FindNamespace(p, ns) \in Written(p) /\ HasSeq(mState[p])
<1> DEFINE match == {i \in Scanned(p) : NsOf[entryData[p][i].key] = ns}
<1>1. match \in SUBSET Written(p) /\ match \in SUBSET Nat
  BY WrittenFinite DEF Scanned
<1>2. match # {} => LeastOr(match, INVALID_ENTRY) \in match
  BY <1>1, LeastOrProperty
<1>3. match = {} => LeastOr(match, INVALID_ENTRY) = INVALID_ENTRY
  BY DEF LeastOr
<1>4. FindNamespace(p, ns) =
        IF HasSeq(mState[p]) THEN LeastOr(match, INVALID_ENTRY) ELSE INVALID_ENTRY
  BY DEF FindNamespace
<1> HIDE DEF match
<1> QED
  BY <1>1, <1>2, <1>3, <1>4

\* LeastOr of entries is an entry or INVALID_ENTRY.
LEMMA LeastEntry ==
  ASSUME NEW S \in SUBSET Index
  PROVE  LeastOr(S, INVALID_ENTRY) \in Index \cup {INVALID_ENTRY}
<1>1. S \in SUBSET Nat
  BY EntryCountAssumption DEF Index
<1> QED
  BY <1>1, LeastOrProperty

\* Entries are naturals, and INVALID_ENTRY is none of them.
LEMMA EntryNat == Index \in SUBSET Nat /\ INVALID_ENTRY \in Nat /\ INVALID_ENTRY \notin Index
BY EntryCountAssumption DEF Index, INVALID_ENTRY

\* Page::load() keeps the types.
LEMMA LoadPageType ==
  ASSUME PageTypeOK, NEW p \in Sector, LoadPage(p)
  PROVE  PageTypeOK'
<1>1. LeastOr(Written(p), INVALID_ENTRY) \in Index \cup {INVALID_ENTRY}
  BY WrittenFinite, LeastEntry
<1>2. LeastOr({i \in Index : entryTable[p][i] = "EMPTY"}, INVALID_ENTRY) \in Nat
  BY LeastEntry, EntryNat
<1>3. Cardinality(Written(p)) \in Int /\ INVALID_ENTRY \in Nat
  BY WrittenFinite, EntryNat
<1>4. UNCHANGED <<header, headerSeq, entryTable, entryData>>
  BY DEF LoadPage, flashVars
<1>5. mState' = [mState EXCEPT ![p] = header[p]] /\ header[p] \in PageState
  BY DEF LoadPage, PageTypeOK, PageState
<1>6. CASE HasSeq(header[p])
  <2>1. mState' \in [Sector -> PageState] /\ mPageSeq' \in [Sector -> Nat]
    BY <1>5, <1>6 DEF LoadPage, PageTypeOK
  <2>2. /\ mNextFreeEntry' \in [Sector -> Nat]
        /\ mFirstUsedEntry' \in [Sector -> Index \cup {INVALID_ENTRY}]
        /\ mUsedEntryCount' \in [Sector -> Int]
    BY <1>1, <1>2, <1>3, <1>6 DEF LoadPage, PageTypeOK
  <2> QED
    BY <1>4, <2>1, <2>2 DEF PageTypeOK
<1>7. CASE ~HasSeq(header[p])
  BY <1>4, <1>5, <1>7 DEF LoadPage, PageTypeOK
<1> QED
  BY <1>6, <1>7

\* So does the repair of a half-written entry,
LEMMA ClearHalfWrittenType ==
  ASSUME PageTypeOK, NEW p \in Sector, HalfWritten(p), ClearHalfWritten(p)
  PROVE  PageTypeOK'
<1>1. mNextFreeEntry[p] \in Index /\ mNextFreeEntry[p] \in Nat
  BY EntryNat DEF HalfWritten
<1>2. entryTable' \in [Sector -> [Index -> EntryState]]
  BY <1>1 DEF ClearHalfWritten, PageTypeOK, EntryState
<1>3. entryData' \in [Sector -> [Index -> Item \cup {Blank, Garbage}]]
  BY <1>1 DEF ClearHalfWritten, PageTypeOK
<1>4. mNextFreeEntry' \in [Sector -> Nat]
  BY <1>1 DEF ClearHalfWritten, PageTypeOK
<1> QED
  BY <1>2, <1>3, <1>4 DEF ClearHalfWritten, PageTypeOK

\* the erasing of an entry,
LEMMA EraseEntryType ==
  ASSUME PageTypeOK, NEW p \in Sector, NEW i \in Index, EraseEntry(p, i)
  PROVE  PageTypeOK'
<1>1. NextUsedEntry(p, i) \in Index \cup {INVALID_ENTRY}
  BY WrittenFinite, LeastEntry DEF NextUsedEntry
<1>2. "ERASED" \in EntryState /\ i + 1 \in Nat
  BY EntryNat DEF EntryState
<1>3. entryTable' \in [Sector -> [Index -> EntryState]]
  BY <1>2 DEF EraseEntry, PageTypeOK
<1>4. entryData' \in [Sector -> [Index -> Item \cup {Blank, Garbage}]]
  BY DEF EraseEntry, PageTypeOK
<1>5. mFirstUsedEntry' \in [Sector -> Index \cup {INVALID_ENTRY}]
  BY <1>1 DEF EraseEntry, PageTypeOK
<1>6. mNextFreeEntry' \in [Sector -> Nat]
  BY <1>2 DEF EraseEntry, PageTypeOK
<1>7. mUsedEntryCount' \in [Sector -> Int]
  BY DEF EraseEntry, PageTypeOK
<1> QED
  BY <1>3, <1>4, <1>5, <1>6, <1>7 DEF EraseEntry, PageTypeOK

\* the writing of a header,
LEMMA InitializeType ==
  ASSUME PageTypeOK, NEW p \in Sector, Initialize(p)
  PROVE  PageTypeOK'
BY DEF Initialize, PageTypeOK, HeaderState, PageState

\* the two halves of writeEntry(),
LEMMA WriteEntryDataType ==
  ASSUME PageTypeOK, NEW p \in Sector, NEW item \in Item \cup {Blank, Garbage}, ~NoRoom(p),
         WriteEntryData(p, item)
  PROVE  PageTypeOK'
<1>1. mNextFreeEntry[p] \in Index
  BY EntryCountAssumption DEF PageTypeOK, NoRoom, Index
<1>2. entryData' \in [Sector -> [Index -> Item \cup {Blank, Garbage}]]
  BY <1>1 DEF WriteEntryData, PageTypeOK
<1> QED
  BY <1>2 DEF WriteEntryData, PageTypeOK, objectVars

\* the second of which needs an entry that is free,
LEMMA WriteEntryStateType ==
  ASSUME PageTypeOK, NEW p \in Sector, ~NoRoom(p), WriteEntryState(p)
  PROVE  PageTypeOK'
<1>1. mNextFreeEntry[p] \in Index
  BY EntryCountAssumption DEF PageTypeOK, NoRoom, Index
<1>2. entryTable' \in [Sector -> [Index -> EntryState]]
  BY <1>1 DEF WriteEntryState, PageTypeOK, EntryState
<1>3. mFirstUsedEntry' \in [Sector -> Index \cup {INVALID_ENTRY}]
  BY <1>1 DEF WriteEntryState, PageTypeOK
<1>4. mNextFreeEntry' \in [Sector -> Nat] /\ mUsedEntryCount' \in [Sector -> Int]
  BY DEF WriteEntryState, PageTypeOK
<1> QED
  BY <1>2, <1>3, <1>4 DEF WriteEntryState, PageTypeOK

\* markFull() and markFreeing(),
LEMMA AlterPageStateType ==
  ASSUME PageTypeOK, NEW p \in Sector, NEW state \in HeaderState, AlterPageState(p, state)
  PROVE  PageTypeOK'
BY DEF AlterPageState, PageTypeOK, PageState

\* and the erasing of a sector, to its end or cut off.
LEMMA SectorErasedType ==
  ASSUME PageTypeOK, NEW p \in Sector, NEW outcome \in HeaderState, SectorErased(p, outcome)
  PROVE  /\ header' \in [Sector -> HeaderState]
         /\ headerSeq' \in [Sector -> Nat]
         /\ entryTable' \in [Sector -> [Index -> EntryState]]
         /\ entryData' \in [Sector -> [Index -> Item \cup {Blank, Garbage}]]
<1>1. [i \in Index |-> "EMPTY"] \in [Index -> EntryState]
  BY DEF EntryState
<1>2. [i \in Index |-> Blank] \in [Index -> Item \cup {Blank, Garbage}]
  OBVIOUS
<1> QED
  BY <1>1, <1>2 DEF SectorErased, PageTypeOK

\* Page::erase() keeps the types of the members, too.
LEMMA ErasePageType ==
  ASSUME PageTypeOK, NEW p \in Sector, ErasePage(p)
  PROVE  PageTypeOK'
<1>1. "UNINITIALIZED" \in HeaderState /\ "UNINITIALIZED" \in PageState
  BY DEF HeaderState, PageState
<1>2. SectorErased(p, "UNINITIALIZED")
  BY DEF ErasePage
<1>3. /\ header' \in [Sector -> HeaderState]
      /\ headerSeq' \in [Sector -> Nat]
      /\ entryTable' \in [Sector -> [Index -> EntryState]]
      /\ entryData' \in [Sector -> [Index -> Item \cup {Blank, Garbage}]]
  BY <1>1, <1>2, SectorErasedType
<1>4. INVALID_ENTRY \in Nat
  BY EntryNat
<1>5. mState' \in [Sector -> PageState] /\ mPageSeq' \in [Sector -> Nat]
  BY <1>1 DEF ErasePage, PageTypeOK
<1>6. mNextFreeEntry' \in [Sector -> Nat]
  BY <1>4 DEF ErasePage, PageTypeOK
<1>7. mFirstUsedEntry' \in [Sector -> Index \cup {INVALID_ENTRY}]
  BY DEF ErasePage, PageTypeOK
<1>8. mUsedEntryCount' \in [Sector -> Int]
  BY DEF ErasePage, PageTypeOK
<1> QED
  BY <1>3, <1>5, <1>6, <1>7, <1>8 DEF PageTypeOK

\* New Page objects have the right types.
LEMMA NewPageObjectsType ==
  ASSUME NewPageObjects
  PROVE  /\ mState' \in [Sector -> PageState]
         /\ mPageSeq' \in [Sector -> Nat]
         /\ mNextFreeEntry' \in [Sector -> Nat]
         /\ mFirstUsedEntry' \in [Sector -> Index \cup {INVALID_ENTRY}]
         /\ mUsedEntryCount' \in [Sector -> Int]
BY EntryNat DEF NewPageObjects, PageState

-----------------------------------------------------------------------------
(* The inductive invariant.                                                *)

Inv == TypeOK /\ ControlInv

\* The labels, and what is said with them.
USE DEF LoadPC, MovePC, StoragePC, WritePC, Booting, Goto

\* Pages in the list are sectors.
LEMMA InUseSectors ==
  ASSUME ManagerTypeOK
  PROVE  /\ InUse \subseteq Sector
         /\ mPageList # <<>> => Back \in Sector /\ Len(mPageList) \in Nat \ {0}
<1>1. mPageList \in Seq(Sector)
  BY DEF ManagerTypeOK
<1>2. \A n \in DOMAIN mPageList : mPageList[n] \in Sector
  BY <1>1
<1>3. mPageList # <<>> => Last(mPageList) \in Sector /\ Len(mPageList) \in Nat \ {0}
  BY <1>1, FrontProperty
<1> QED
  BY <1>2, <1>3 DEF InUse, Back

\* Sectors and entries are naturals.
LEMMA SectorNat ==
  /\ Sector \in SUBSET Nat
  /\ NoPage \notin Sector
  /\ \A n \in 0 .. PageCount : n \in Sector \/ n = PageCount
BY PageCountAssumption DEF Sector, NoPage

\* Steps that change the pages, pc and ret, and neither lists nor local variables.
LEMMA PagesOnly ==
  ASSUME Inv, PageTypeOK', pc' \in LoadPC \cup MovePC \cup StoragePC, ret' \in Answer,
         UNCHANGED <<managerVars, localVars, mStorageState, requestVars>>
  PROVE  TypeOK'
BY DEF Inv, TypeOK, ManagerTypeOK, managerVars, localVars, requestVars

\* Init establishes Inv.
LEMMA InitInv == Init => Inv
<1> SUFFICES ASSUME Init PROVE Inv
  OBVIOUS
<1> USE DEF Init
<1>1. PageTypeOK
  BY EntryNat DEF PageTypeOK, HeaderState, PageState, EntryState
<1>2. ManagerTypeOK
  BY PageCountAssumption DEF ManagerTypeOK, Answer, Page, NoPage
<1>3. TypeOK
  BY <1>1, <1>2, BoundsAssumption DEF TypeOK, Request, Page
<1>4. ControlInv
  BY PageCountAssumption DEF ControlInv, PhaseInv, RequestInv, MoveInv, RoomInv, Sector
<1> QED
  BY <1>3, <1>4 DEF Inv

\* Inv is preserved when load() reads a sector.
LEMMA LoadSectorInv ==
  ASSUME Inv, LoadSector, UNCHANGED requestVars
  PROVE  Inv'
<1> USE DEF LoadSector
<1>1. loadIndex \in Sector
  BY DEF Inv, ControlInv, PhaseInv
<1>2. PageTypeOK'
  BY <1>1, LoadPageType DEF Inv, TypeOK
<1>3. TypeOK'
  BY <1>2, PagesOnly DEF Inv, TypeOK, ManagerTypeOK
<1>4. ControlInv'
  BY <1>1 DEF Inv, ControlInv, PhaseInv, RequestInv, MoveInv, RoomInv,
     managerVars, localVars, requestVars
<1> QED
  BY <1>3, <1>4 DEF Inv

\* Inv is preserved when mLoadEntryTable discards a half-written entry.
LEMMA RepairHalfWrittenInv ==
  ASSUME Inv, RepairHalfWritten, UNCHANGED requestVars
  PROVE  Inv'
<1> USE DEF RepairHalfWritten
<1>1. loadIndex \in Sector
  BY DEF Inv, ControlInv, PhaseInv
<1>2. PageTypeOK'
  BY <1>1, ClearHalfWrittenType DEF Inv, TypeOK
<1>3. TypeOK'
  BY <1>2, PagesOnly DEF Inv, TypeOK, ManagerTypeOK
<1>4. ControlInv'
  BY <1>1 DEF Inv, ControlInv, PhaseInv, RequestInv, MoveInv, RoomInv,
     InUse, managerVars, localVars, requestVars
<1> QED
  BY <1>3, <1>4 DEF Inv

\* Inv is preserved when mLoadEntryTable erases an older version: there is one.
LEMMA RepairDuplicateInv ==
  ASSUME Inv, RepairDuplicate, UNCHANGED requestVars
  PROVE  Inv'
<1> USE DEF RepairDuplicate
<1> DEFINE j == Min(Superseding(loadIndex))
           i == Min(OlderEntries(loadIndex, j))
<1>1. loadIndex \in Sector
  BY DEF Inv, ControlInv, PhaseInv
<1>2. i \in Index
  <2>1. Superseding(loadIndex) \in SUBSET Nat /\ Superseding(loadIndex) # {}
    BY <1>1, WrittenFinite DEF Superseding
  <2>2. OlderEntries(loadIndex, j) # {}
    BY <2>1, MinProperty DEF Superseding
  <2>3. OlderEntries(loadIndex, j) \in SUBSET Nat /\ OlderEntries(loadIndex, j) \in SUBSET Index
    BY <1>1, WrittenFinite DEF OlderEntries
  <2> QED
    BY <2>2, <2>3, MinProperty
<1>3. EraseEntry(loadIndex, i)
  OBVIOUS
<1> HIDE DEF i, j
<1>4. PageTypeOK'
  BY <1>1, <1>2, <1>3, EraseEntryType DEF Inv, TypeOK
<1>5. TypeOK'
  BY <1>4, PagesOnly DEF Inv, TypeOK, ManagerTypeOK
<1>6. ControlInv'
  BY <1>1 DEF Inv, ControlInv, PhaseInv, RequestInv, MoveInv, RoomInv,
     InUse, managerVars, localVars, requestVars
<1> QED
  BY <1>5, <1>6 DEF Inv

\* Inv is preserved when nothing is left to repair on a page.
LEMMA RepairDoneInv ==
  ASSUME Inv, RepairDone, UNCHANGED requestVars
  PROVE  Inv'
<1> USE DEF RepairDone
<1>1. PageTypeOK'
  BY DEF Inv, TypeOK, PageTypeOK, pageVars
<1>2. TypeOK'
  BY <1>1, PagesOnly DEF Inv, TypeOK, ManagerTypeOK
<1>3. ControlInv'
  BY DEF Inv, ControlInv, PhaseInv, RequestInv, MoveInv, RoomInv,
     InUse, managerVars, localVars, requestVars
<1> QED
  BY <1>2, <1>3 DEF Inv

\* A page is inserted at a position in the list, or after it.
LEMMA PositionProperty ==
  ASSUME Inv, NEW p \in Sector
  PROVE  Position(p) \in 1 .. Len(mPageList) + 1
<1>1. mPageList \in Seq(Sector)
  BY DEF Inv, TypeOK, ManagerTypeOK
<1> DEFINE S == {n \in DOMAIN mPageList : mPageSeq[mPageList[n]] > mPageSeq[p]}
<1>2. S \in SUBSET Nat /\ S \in SUBSET (1 .. Len(mPageList))
  BY <1>1
<1>3. Position(p) = LeastOr(S, Len(mPageList) + 1)
  BY DEF Position
<1> HIDE DEF S
<1>4. S # {} => LeastOr(S, Len(mPageList) + 1) \in S
  BY <1>2, LeastOrProperty
<1>5. S = {} => LeastOr(S, Len(mPageList) + 1) = Len(mPageList) + 1
  BY DEF LeastOr
<1>6. Len(mPageList) \in Nat
  BY <1>1
<1>7. 1 .. Len(mPageList) \subseteq 1 .. Len(mPageList) + 1
  BY <1>6
<1>8. Len(mPageList) + 1 \in 1 .. Len(mPageList) + 1
  BY <1>6
<1> QED
  BY <1>2, <1>3, <1>4, <1>5, <1>7, <1>8, Zenon

\* Inv is preserved when load() puts a page into one of the lists.
LEMMA InsertPageInv ==
  ASSUME Inv, InsertPage, UNCHANGED requestVars
  PROVE  Inv'
<1> USE DEF InsertPage
<1>1. loadIndex \in Sector /\ mStorageState = "INVALID" /\ op = NoOp /\ erasedPage = NoPage
  BY DEF Inv, ControlInv, PhaseInv, MoveInv
<1>2. Position(loadIndex) \in 1 .. Len(mPageList) + 1
  BY <1>1, PositionProperty
<1>3. mPageList' \in Seq(Sector) /\ mFreePageList' \in Seq(Sector)
  <2>1. mPageList \in Seq(Sector) /\ mFreePageList \in Seq(Sector)
    BY DEF Inv, TypeOK, ManagerTypeOK
  <2>2. InsertAt(mPageList, Position(loadIndex), loadIndex) \in Seq(Sector)
    BY <1>1, <1>2, <2>1, InsertAtProperty
  <2>3. Append(mFreePageList, loadIndex) \in Seq(Sector)
    BY <1>1, <2>1
  <2> QED
    BY <2>1, <2>2, <2>3
<1>4. PageTypeOK'
  BY DEF Inv, TypeOK, PageTypeOK, pageVars
<1>5. loadIndex' \in 0 .. PageCount /\ (loadIndex + 1 # PageCount => loadIndex' \in Sector)
  BY <1>1, PageCountAssumption DEF Sector
<1>6. ManagerTypeOK'
  BY <1>3, <1>5 DEF Inv, TypeOK, ManagerTypeOK
<1>7. TypeOK'
  BY <1>4, <1>6 DEF Inv, TypeOK, requestVars
<1>8. ControlInv'
  BY <1>1, <1>5 DEF Inv, ControlInv, PhaseInv, RequestInv, MoveInv, RoomInv,
     requestVars
<1> QED
  BY <1>7, <1>8 DEF Inv

\* Inv is preserved when load() has come to the last sector.
LEMMA SettleInv ==
  ASSUME Inv, Settle, UNCHANGED requestVars
  PROVE  Inv'
<1> USE DEF Settle
<1>1. mStorageState = "INVALID" /\ op = NoOp /\ erasedPage = NoPage
  BY DEF Inv, ControlInv, PhaseInv, MoveInv
<1>2. PageTypeOK'
  BY DEF Inv, TypeOK, PageTypeOK, pageVars
<1>3. mSeqNumber' \in Nat
  BY InUseSectors DEF Inv, TypeOK, PageTypeOK
<1>4. ManagerTypeOK'
  BY <1>3 DEF Inv, TypeOK, ManagerTypeOK, localVars
<1>5. TypeOK'
  BY <1>2, <1>4 DEF Inv, TypeOK, requestVars
<1>6. ControlInv'
  BY <1>1 DEF Inv, ControlInv, PhaseInv, RequestInv, MoveInv, RoomInv,
     InUse, localVars, requestVars
<1> QED
  BY <1>5, <1>6 DEF Inv
-----------------------------------------------------------------------------
(* load(), from the check for an old version on. *)

\* The page an old version is found on, and its entry there.
LEMMA OldVersionProperty ==
  ASSUME Inv, OldVersionPages # {}
  PROVE  /\ OldVersionPage \in Sector
         /\ FindOnPage(OldVersionPage, LastItem.key, LastItem.type) \in Index
<1>1. mPageList \in Seq(Sector)
  BY DEF Inv, TypeOK, ManagerTypeOK
<1>2. OldVersionPages \in SUBSET Nat
  BY <1>1 DEF OldVersionPages
<1>3. Min(OldVersionPages) \in OldVersionPages
  BY <1>2, MinProperty
<1> DEFINE n == Min(OldVersionPages)
           i == FindOnPage(mPageList[n], LastItem.key, LastItem.type)
<1>4. n \in 1 .. Len(mPageList) - 1 /\ i # INVALID_ENTRY
  BY <1>3 DEF OldVersionPages
<1>5. mPageList[n] \in Sector
  BY <1>1, <1>4
<1>6. i \in Index
  BY <1>4, <1>5, FindOnPageProperty, WrittenFinite
<1> QED
  BY <1>5, <1>6 DEF OldVersionPage

\* Inv is preserved when load() erases the old version of the last item.
LEMMA EraseOldVersionInv ==
  ASSUME Inv, EraseOldVersion, UNCHANGED requestVars
  PROVE  Inv'
<1> USE DEF EraseOldVersion
<1>1. PageTypeOK'
  <2>1. CASE OldVersionPages = {}
    BY <2>1 DEF Inv, TypeOK, PageTypeOK, pageVars
  <2>2. CASE OldVersionPages # {}
    BY <2>2, OldVersionProperty, EraseEntryType DEF Inv, TypeOK
  <2> QED
    BY <2>1, <2>2
<1>2. TypeOK'
  BY <1>1, PagesOnly DEF Inv, TypeOK, ManagerTypeOK
<1>3. ControlInv'
  BY DEF Inv, ControlInv, PhaseInv, RequestInv, MoveInv, RoomInv,
     InUse, managerVars, localVars, requestVars
<1> QED
  BY <1>2, <1>3 DEF Inv

\* Inv is preserved by the recovery of a FREEING page: it stays in the list.
LEMMA RecoverFreeingInv ==
  ASSUME Inv, RecoverFreeing, UNCHANGED requestVars
  PROVE  Inv'
<1> USE DEF RecoverFreeing
<1> DEFINE n == Min(FreeingPages)
<1>1. /\ mPageList \in Seq(Sector) /\ mFreePageList \in Seq(Sector)
      /\ mStorageState = "INVALID" /\ op = NoOp
  BY DEF Inv, TypeOK, ManagerTypeOK, ControlInv, PhaseInv
<1>2. n \in 1 .. Len(mPageList) /\ mState[mPageList[n]] = "FREEING"
  <2>1. FreeingPages \in SUBSET Nat
    BY <1>1 DEF FreeingPages
  <2>2. n \in FreeingPages
    BY <2>1, MinProperty
  <2> QED
    BY <1>1, <2>2 DEF FreeingPages
<1>3. mPageList # <<>> /\ Back \in Sector /\ Back = mPageList[Len(mPageList)]
  BY <1>1, <1>2, FrontProperty DEF Back
<1> HIDE DEF n
<1>4. erasedPage' = mPageList[n] /\ mPageList[n] \in Sector
  BY <1>1, <1>2 DEF n
<1>5. PageTypeOK'
  <2>1. CASE mState[Back] = "ACTIVE"
    BY <1>3, <2>1, ErasePageType DEF Inv, TypeOK
  <2>2. CASE mState[Back] # "ACTIVE"
    BY <2>2 DEF Inv, TypeOK, PageTypeOK, pageVars
  <2> QED
    BY <2>1, <2>2
<1>6. mPageList' \in Seq(Sector) /\ n \in 1 .. Len(mPageList') /\ mPageList'[n] = mPageList[n]
  <2>1. CASE mState[Back] = "ACTIVE"
    <3>1. n # Len(mPageList)
      BY <1>2, <1>3, <2>1
    <3>2. mPageList' = Front(mPageList)
      BY <2>1
    <3>3. n \in 1 .. Len(mPageList) - 1
      BY <1>1, <1>2, <3>1
    <3> QED
      BY <1>1, <1>3, <3>2, <3>3, FrontProperty
  <2>2. CASE mState[Back] # "ACTIVE"
    BY <1>1, <1>2, <2>2
  <2> QED
    BY <2>1, <2>2
<1>7. mFreePageList' \in Seq(Sector)
  BY <1>1, <1>3
<1>8. TypeOK'
  BY <1>4, <1>5, <1>6, <1>7 DEF Inv, TypeOK, ManagerTypeOK, Page, requestVars
<1>9. erasedPage' \in InUse' /\ mPageList' # <<>>
  BY <1>4, <1>6 DEF InUse
<1>10. ControlInv'
  BY <1>1, <1>9 DEF Inv, ControlInv, PhaseInv, RequestInv, MoveInv, RoomInv, requestVars
<1> QED
  BY <1>8, <1>10 DEF Inv

\* Inv is preserved when load() finds no FREEING page.
LEMMA NothingFreeingInv ==
  ASSUME Inv, NothingFreeing, UNCHANGED requestVars
  PROVE  Inv'
<1> USE DEF NothingFreeing
<1>1. PageTypeOK'
  BY DEF Inv, TypeOK, PageTypeOK, pageVars
<1>2. TypeOK'
  BY <1>1, PagesOnly DEF Inv, TypeOK, ManagerTypeOK
<1>3. ControlInv'
  BY DEF Inv, ControlInv, PhaseInv, RequestInv, MoveInv, RoomInv,
     InUse, managerVars, localVars, requestVars
<1> QED
  BY <1>2, <1>3 DEF Inv

\* Inv is preserved by the last check of load().
LEMMA CheckFreePagesInv ==
  ASSUME Inv, CheckFreePages, UNCHANGED requestVars
  PROVE  Inv'
<1> USE DEF CheckFreePages
<1>1. PageTypeOK'
  BY DEF Inv, TypeOK, PageTypeOK, pageVars
<1>2. TypeOK'
  BY <1>1 DEF Inv, TypeOK, ManagerTypeOK, managerVars, localVars, requestVars
<1>3. ControlInv'
  BY DEF Inv, ControlInv, PhaseInv, RequestInv, MoveInv, RoomInv,
     InUse, managerVars, localVars, requestVars
<1> QED
  BY <1>2, <1>3 DEF Inv
-----------------------------------------------------------------------------
(* requestNewPage() *)

\* Inv is preserved by requestNewPage(): the page it chooses is in the list.
LEMMA RequestNewPageInv ==
  ASSUME Inv, RequestNewPage, UNCHANGED requestVars
  PROVE  Inv'
<1> USE DEF RequestNewPage, Respond
<1>1. PageTypeOK'
  BY DEF Inv, TypeOK, PageTypeOK, pageVars
<1>2. erasedPage' = erasedPage \/ erasedPage' \in InUse
  <2>1. SUFFICES ASSUME MaxUnusedItems # {}
                 PROVE  mPageList[Min(MaxUnusedItems)] \in InUse
    OBVIOUS
  <2>2. MaxUnusedItems \in SUBSET DOMAIN mPageList /\ DOMAIN mPageList \in SUBSET Nat
    BY DEF Inv, TypeOK, ManagerTypeOK, MaxUnusedItems
  <2>3. Min(MaxUnusedItems) \in DOMAIN mPageList
    BY <2>1, <2>2, MinProperty
  <2> QED
    BY <2>3 DEF InUse
<1>3. erasedPage' \in Page
  BY <1>2, InUseSectors DEF Inv, TypeOK, ManagerTypeOK, Page
<1>4. TypeOK'
  BY <1>1, <1>3 DEF Inv, TypeOK, ManagerTypeOK, Answer, Failure, managerVars, requestVars
<1>5. mPageList' = mPageList /\ InUse' = InUse
  BY DEF InUse, managerVars
<1>6. ControlInv'
  BY <1>2, <1>5 DEF Inv, ControlInv, PhaseInv, RequestInv, MoveInv, RoomInv, requestVars
<1> QED
  BY <1>4, <1>6 DEF Inv

\* Inv is preserved when activatePage() erases a CORRUPT page.
LEMMA EraseCorruptInv ==
  ASSUME Inv, EraseCorrupt, UNCHANGED requestVars
  PROVE  Inv'
<1> USE DEF EraseCorrupt
<1>1. Head(mFreePageList) \in Sector
  BY DEF Inv, TypeOK, ManagerTypeOK
<1>2. PageTypeOK'
  BY <1>1, ErasePageType DEF Inv, TypeOK
<1>3. TypeOK'
  BY <1>2, PagesOnly DEF Inv, TypeOK, ManagerTypeOK
<1>4. ControlInv'
  BY DEF Inv, ControlInv, PhaseInv, RequestInv, MoveInv, RoomInv,
     InUse, managerVars, localVars, requestVars
<1> QED
  BY <1>3, <1>4 DEF Inv

\* Inv is preserved by activatePage(): the list then has two pages if one is to be freed.
LEMMA ActivatePageInv ==
  ASSUME Inv, ActivatePage, UNCHANGED requestVars
  PROVE  Inv'
<1> USE DEF ActivatePage
<1>1. mPageList \in Seq(Sector) /\ mFreePageList \in Seq(Sector) /\ mSeqNumber \in Nat
  BY DEF Inv, TypeOK, ManagerTypeOK
<1>2. Head(mFreePageList) \in Sector /\ Tail(mFreePageList) \in Seq(Sector)
  BY <1>1
<1>3. PageTypeOK'
  BY <1>1, <1>2 DEF Inv, TypeOK, PageTypeOK, flashVars
<1>4. /\ mPageList' \in Seq(Sector) /\ InUse' = InUse \cup {Head(mFreePageList)}
      /\ mPageList' # <<>>
      /\ Len(mPageList') = Len(mPageList) + 1
  <2>1. mPageList' = Append(mPageList, Head(mFreePageList))
    OBVIOUS
  <2>2. Range(mPageList') = Range(mPageList) \cup {Head(mFreePageList)}
    BY <1>1, <1>2, <2>1, AppendElements
  <2>3. InUse' = InUse \cup {Head(mFreePageList)}
    BY <2>2 DEF InUse, Range
  <2> HIDE DEF ActivatePage
  <2>4. mPageList' \in Seq(Sector) /\ mPageList' # <<>> /\ Len(mPageList') = Len(mPageList) + 1
    BY <1>1, <1>2, <2>1
  <2> QED
    BY <2>3, <2>4
<1>5. TypeOK'
  BY <1>1, <1>2, <1>3, <1>4 DEF Inv, TypeOK, ManagerTypeOK, localVars, requestVars
<1>6. erasedPage # NoPage => Len(mPageList') >= 2
  BY <1>1, <1>4 DEF Inv, ControlInv, MoveInv, InUse
<1>7. ControlInv'
  BY <1>4, <1>6 DEF Inv, TypeOK, ManagerTypeOK, ControlInv, PhaseInv, RequestInv, MoveInv, RoomInv,
     localVars, requestVars
<1> QED
  BY <1>5, <1>7 DEF Inv

\* Inv is preserved when activatePage() finds no free page.
LEMMA ActivateNothingInv ==
  ASSUME Inv, ActivateNothing, UNCHANGED requestVars
  PROVE  Inv'
<1> USE DEF ActivateNothing, Fail, Respond
<1>1. PageTypeOK'
  BY DEF Inv, TypeOK, PageTypeOK, pageVars
<1>2. TypeOK'
  BY <1>1 DEF Inv, TypeOK, ManagerTypeOK, Answer, Page, managerVars, requestVars
<1>3. ControlInv'
  BY DEF Inv, TypeOK, ManagerTypeOK, ControlInv, PhaseInv, RequestInv, MoveInv, RoomInv,
     InUse, managerVars, requestVars
<1> QED
  BY <1>2, <1>3 DEF Inv

\* Inv is preserved by markFreeing().
LEMMA MarkFreeingInv ==
  ASSUME Inv, MarkFreeing, UNCHANGED requestVars
  PROVE  Inv'
<1> USE DEF MarkFreeing, Respond
<1>1. erasedPage \in Sector
  BY DEF Inv, TypeOK, ManagerTypeOK, ControlInv, MoveInv, Page
<1>2. PageTypeOK'
  <2>1. CASE mState[erasedPage] \in {"FULL", "ACTIVE"}
    BY <1>1, <2>1, AlterPageStateType DEF Inv, TypeOK, HeaderState
  <2>2. CASE mState[erasedPage] \notin {"FULL", "ACTIVE"}
    BY <2>2 DEF Inv, TypeOK, PageTypeOK, pageVars
  <2> QED
    BY <2>1, <2>2
<1>3. TypeOK'
  BY <1>2 DEF Inv, TypeOK, ManagerTypeOK, Answer, Failure, Page, managerVars, requestVars
<1>4. mPageList' = mPageList /\ InUse' = InUse
  BY DEF InUse, managerVars
<1>5. ControlInv'
  BY <1>4 DEF Inv, ControlInv, PhaseInv, RequestInv, MoveInv, RoomInv, requestVars
<1> QED
  BY <1>3, <1>5 DEF Inv

\* Inv is preserved when copyItems() begins.
LEMMA StartCopyInv ==
  ASSUME Inv, StartCopy, UNCHANGED requestVars
  PROVE  Inv'
<1> USE DEF StartCopy
<1>1. erasedPage \in Sector
  BY DEF Inv, TypeOK, ManagerTypeOK, ControlInv, MoveInv, Page
<1>2. PageTypeOK'
  BY DEF Inv, TypeOK, PageTypeOK, pageVars
<1>3. readEntryIndex' \in Index \cup {INVALID_ENTRY}
  BY <1>1 DEF Inv, TypeOK, PageTypeOK
<1>4. TypeOK'
  BY <1>2, <1>3 DEF Inv, TypeOK, ManagerTypeOK, managerVars, requestVars
<1>5. mPageList' = mPageList /\ InUse' = InUse
  BY DEF InUse, managerVars
<1>6. ControlInv'
  BY <1>3, <1>5 DEF Inv, ControlInv, PhaseInv, RequestInv, MoveInv, RoomInv, requestVars
<1> QED
  BY <1>4, <1>6 DEF Inv

\* Inv is preserved when copyItems() initializes the new page.
LEMMA CopyInitInv ==
  ASSUME Inv, CopyInit, UNCHANGED requestVars
  PROVE  Inv'
<1> USE DEF CopyInit
<1>1. Back \in Sector
  BY InUseSectors DEF Inv, TypeOK, ControlInv, MoveInv
<1>2. PageTypeOK'
  BY <1>1, InitializeType DEF Inv, TypeOK
<1>3. TypeOK'
  BY <1>2, PagesOnly DEF Inv, TypeOK, ManagerTypeOK
<1>4. ControlInv'
  BY DEF Inv, ControlInv, PhaseInv, RequestInv, MoveInv, RoomInv,
     InUse, managerVars, localVars, requestVars
<1> QED
  BY <1>3, <1>4 DEF Inv

\* Inv is preserved when copyItems() writes an entry.
LEMMA CopyDataInv ==
  ASSUME Inv, CopyData, UNCHANGED requestVars
  PROVE  Inv'
<1> USE DEF CopyData
<1>1. Back \in Sector /\ erasedPage \in Sector /\ readEntryIndex \in Index
  BY InUseSectors DEF Inv, TypeOK, ManagerTypeOK, ControlInv, MoveInv, Page
<1>2. entryData[erasedPage][readEntryIndex] \in Item \cup {Blank, Garbage}
  BY <1>1 DEF Inv, TypeOK, PageTypeOK
<1>3. PageTypeOK'
  <2>1. CASE NoRoom(Back)
    BY <2>1 DEF Inv, TypeOK, PageTypeOK, pageVars
  <2>2. CASE ~NoRoom(Back)
    BY <1>1, <1>2, <2>2, WriteEntryDataType DEF Inv, TypeOK
  <2> QED
    BY <2>1, <2>2
<1>4. TypeOK'
  BY <1>3, PagesOnly DEF Inv, TypeOK, ManagerTypeOK
<1>5. pc' = "copyState" => ~NoRoom(Back)'
  BY DEF WriteEntryData, objectVars, managerVars, NoRoom, Back
<1>6. ControlInv'
  BY <1>5 DEF Inv, ControlInv, PhaseInv, RequestInv, MoveInv, RoomInv,
     InUse, managerVars, localVars, requestVars
<1> QED
  BY <1>4, <1>6 DEF Inv

\* Inv is preserved when copyItems() marks an entry written and looks for the next.
LEMMA CopyStateInv ==
  ASSUME Inv, CopyState, UNCHANGED requestVars
  PROVE  Inv'
<1> USE DEF CopyState
<1>1. Back \in Sector /\ erasedPage \in Sector
  BY InUseSectors DEF Inv, TypeOK, ManagerTypeOK, ControlInv, MoveInv, Page
<1>2. PageTypeOK'
  BY <1>1, WriteEntryStateType DEF Inv, TypeOK, ControlInv, RoomInv
<1> DEFINE rest == {i \in Written(erasedPage) : i > readEntryIndex}
<1>3. rest \in SUBSET Index /\ rest \in SUBSET Nat
  BY <1>1, WrittenFinite
<1>4. /\ readEntryIndex' = LeastOr(rest, INVALID_ENTRY)
      /\ pc' = IF rest = {} THEN "erasePage" ELSE "copyData"
      /\ ret' = ret
  OBVIOUS
<1> HIDE DEF rest
<1>5. readEntryIndex' \in Index \cup {INVALID_ENTRY} /\ (pc' = "copyData" => readEntryIndex' \in Index)
  BY <1>3, <1>4, LeastOrProperty
<1>6. TypeOK'
  BY <1>2, <1>4, <1>5 DEF Inv, TypeOK, ManagerTypeOK, managerVars, requestVars
<1>7. mPageList' = mPageList /\ InUse' = InUse
  BY DEF InUse, managerVars
<1>8. ControlInv'
  BY <1>4, <1>5, <1>7 DEF Inv, ControlInv, PhaseInv, RequestInv, MoveInv, RoomInv, requestVars
<1> QED
  BY <1>6, <1>8 DEF Inv

\* Inv is preserved when the page whose items were copied is erased: another one is left.
LEMMA FreePageInv ==
  ASSUME Inv, FreePage, UNCHANGED requestVars
  PROVE  Inv'
<1> USE DEF FreePage
<1>1. erasedPage \in Sector /\ erasedPage \in InUse /\ Len(mPageList) >= 2
  BY DEF Inv, TypeOK, ManagerTypeOK, ControlInv, MoveInv, Page
<1>2. PageTypeOK'
  BY <1>1, ErasePageType DEF Inv, TypeOK
<1>3. mPageList \in Seq(Sector) /\ mFreePageList \in Seq(Sector)
  BY DEF Inv, TypeOK, ManagerTypeOK
<1>4. mPageList' \in Seq(Sector) /\ mPageList' # <<>>
  <2>1. PICK i \in 1 .. Len(mPageList) : mPageList' = RemoveAt(mPageList, i)
    BY <1>1, <1>3, WithoutProperty DEF InUse, Range
  <2>2. mPageList' \in Seq(Sector) /\ Len(mPageList') = Len(mPageList) - 1
    BY <1>3, <2>1, RemoveAtProperty
  <2> QED
    BY <1>1, <1>3, <2>2
<1>5. mFreePageList' \in Seq(Sector)
  BY <1>1, <1>3
<1>6. TypeOK'
  BY <1>2, <1>4, <1>5 DEF Inv, TypeOK, ManagerTypeOK, Page, requestVars
<1>7. ControlInv'
  BY <1>4 DEF Inv, TypeOK, ManagerTypeOK, ControlInv, PhaseInv, RequestInv, MoveInv, RoomInv,
     requestVars
<1> QED
  BY <1>6, <1>7 DEF Inv
-----------------------------------------------------------------------------
(* Requests. *)

\* Where a request finds an item.
LEMMA FindPageProperty ==
  ASSUME ManagerTypeOK, NEW k, NEW t
  PROVE  \/ FindPage(k, t) = NoPage
         \/ FindPage(k, t) \in InUse /\ FindPage(k, t) \in Sector
<1>1. FindPages(k, t) \in SUBSET DOMAIN mPageList /\ DOMAIN mPageList \in SUBSET Nat
  BY DEF ManagerTypeOK, FindPages
<1>2. FindPages(k, t) # {} => Min(FindPages(k, t)) \in DOMAIN mPageList
  BY <1>1, MinProperty
<1>3. FindPages(k, t) # {} => mPageList[Min(FindPages(k, t))] \in InUse
  BY <1>2 DEF InUse
<1> QED
  BY <1>3, InUseSectors DEF FindPage

\* The fields of a request.
LEMMA RequestProperty ==
  ASSUME NEW r \in Request
  PROVE  /\ r.name = "set" => r.key \in Key /\ r.type \in Type /\ r.val \in Value
         /\ r.name \in {"none", "set", "erase", "clear"}
         /\ r.name = "none" => r = NoOp
<1>1. \A a \in AppItem : a[1] \in Key /\ a[2] \in Type
  BY AppItemAssumption
<1> QED
  BY <1>1 DEF Request, NoOp

\* Inv is preserved when a request begins.
LEMMA BeginInv ==
  ASSUME Inv, Begin
  PROVE  Inv'
<1> USE DEF Begin
<1>1. PageTypeOK'
  BY DEF Inv, TypeOK, PageTypeOK, pageVars
<1>2. op' \in Request
  BY DEF Request
<1>3. TypeOK'
  BY <1>1, <1>2 DEF Inv, TypeOK, ManagerTypeOK, managerVars, localVars
<1>4. \/ op'.name \in {"set", "erase"} /\ pc' = "find"
      \/ op'.name = "clear" /\ pc' = "clear"
  OBVIOUS
<1>5. ControlInv'
  BY <1>4 DEF Inv, ControlInv, PhaseInv, RequestInv, MoveInv, RoomInv,
     InUse, managerVars, localVars
<1> QED
  BY <1>3, <1>5 DEF Inv

\* Inv is preserved when writeItem() looks for an old version.
LEMMA FindForSetInv ==
  ASSUME Inv, FindForSet
  PROVE  Inv'
<1> USE DEF FindForSet, Respond
<1>1. PageTypeOK'
  BY DEF Inv, TypeOK, PageTypeOK, pageVars
<1>2. findPage' \in Page
  BY FindPageProperty DEF Inv, TypeOK, Page
<1>3. TypeOK'
  BY <1>1, <1>2 DEF Inv, TypeOK, ManagerTypeOK, Answer, managerVars, localVars
<1>4. ControlInv'
  BY DEF Inv, ControlInv, PhaseInv, RequestInv, MoveInv, RoomInv,
     InUse, managerVars, localVars
<1> QED
  BY <1>3, <1>4 DEF Inv

\* Inv is preserved when eraseItem() looks for the item.
LEMMA FindForEraseInv ==
  ASSUME Inv, FindForErase
  PROVE  Inv'
<1> USE DEF FindForErase, Respond
<1>1. PageTypeOK'
  BY DEF Inv, TypeOK, PageTypeOK, pageVars
<1>2. findPage' \in Page
  BY FindPageProperty DEF Inv, TypeOK, Page
<1>3. TypeOK'
  BY <1>1, <1>2 DEF Inv, TypeOK, ManagerTypeOK, Answer, managerVars, localVars
<1>4. ControlInv'
  BY DEF Inv, ControlInv, PhaseInv, RequestInv, MoveInv, RoomInv,
     InUse, managerVars, localVars
<1> QED
  BY <1>3, <1>4 DEF Inv

\* Inv is preserved by the checks of Page::writeItem: data is written only where there is room.
LEMMA TryWriteInv ==
  ASSUME Inv, TryWrite
  PROVE  Inv'
<1> USE DEF TryWrite, Respond
<1>1. PageTypeOK'
  BY DEF Inv, TypeOK, PageTypeOK, pageVars
<1>2. TypeOK'
  BY <1>1, PagesOnly DEF Inv, TypeOK, ManagerTypeOK, Answer, Failure
<1>3. pc' = "data" => ~NoRoom(Back)'
  BY DEF NoRoom, Back, pageVars, managerVars
<1>4. ControlInv'
  BY <1>3 DEF Inv, ControlInv, PhaseInv, RequestInv, MoveInv, RoomInv,
     InUse, managerVars, localVars, requestVars
<1> QED
  BY <1>2, <1>4 DEF Inv

\* Inv is preserved when writeItem() initializes the page.
LEMMA InitPageInv ==
  ASSUME Inv, InitPage
  PROVE  Inv'
<1> USE DEF InitPage
<1>1. Back \in Sector
  BY InUseSectors DEF Inv, TypeOK, ControlInv, MoveInv
<1>2. PageTypeOK'
  BY <1>1, InitializeType DEF Inv, TypeOK
<1>3. TypeOK'
  BY <1>2, PagesOnly DEF Inv, TypeOK, ManagerTypeOK
<1>4. mNextFreeEntry'[Back] = 0 /\ Back' = Back
  BY <1>1 DEF Initialize, Inv, TypeOK, PageTypeOK, Back, managerVars
<1>5. ~NoRoom(Back)'
  BY <1>4, EntryCountAssumption DEF NoRoom
<1>6. ControlInv'
  BY <1>5 DEF Inv, ControlInv, PhaseInv, RequestInv, MoveInv, RoomInv,
     InUse, managerVars, localVars, requestVars
<1> QED
  BY <1>3, <1>6 DEF Inv

\* Inv is preserved when writeItem() writes the entry.
LEMMA WriteDataInv ==
  ASSUME Inv, WriteData
  PROVE  Inv'
<1> USE DEF WriteData
<1>1. Back \in Sector /\ ~NoRoom(Back)
  BY InUseSectors DEF Inv, TypeOK, ControlInv, MoveInv, RoomInv
<1>2. [key |-> op.key, type |-> op.type, val |-> op.val] \in Item
  BY RequestProperty DEF Inv, TypeOK, ControlInv, RequestInv, Item
<1>3. PageTypeOK'
  BY <1>1, <1>2, WriteEntryDataType DEF Inv, TypeOK
<1>4. TypeOK'
  BY <1>3, PagesOnly DEF Inv, TypeOK, ManagerTypeOK
<1>5. ~NoRoom(Back)'
  BY <1>1 DEF WriteEntryData, objectVars, managerVars, NoRoom, Back
<1>6. ControlInv'
  BY <1>5 DEF Inv, ControlInv, PhaseInv, RequestInv, MoveInv, RoomInv,
     InUse, managerVars, localVars, requestVars
<1> QED
  BY <1>4, <1>6 DEF Inv

\* Inv is preserved when writeItem() marks the entry written.
LEMMA WriteStateInv ==
  ASSUME Inv, WriteState
  PROVE  Inv'
<1> USE DEF WriteState, Respond
<1>1. Back \in Sector /\ ~NoRoom(Back)
  BY InUseSectors DEF Inv, TypeOK, ControlInv, MoveInv, RoomInv
<1>2. PageTypeOK'
  BY <1>1, WriteEntryStateType DEF Inv, TypeOK
<1>3. TypeOK'
  BY <1>2, PagesOnly DEF Inv, TypeOK, ManagerTypeOK, Answer
<1>4. ControlInv'
  BY DEF Inv, ControlInv, PhaseInv, RequestInv, MoveInv, RoomInv,
     InUse, managerVars, localVars, requestVars
<1> QED
  BY <1>3, <1>4 DEF Inv

\* Inv is preserved by markFull().
LEMMA MarkFullInv ==
  ASSUME Inv, MarkFull
  PROVE  Inv'
<1> USE DEF MarkFull, Respond
<1>1. Back \in Sector
  BY InUseSectors DEF Inv, TypeOK, ControlInv, MoveInv
<1>2. PageTypeOK'
  <2>1. CASE mState[Back] = "ACTIVE"
    BY <1>1, <2>1, AlterPageStateType DEF Inv, TypeOK, HeaderState
  <2>2. CASE mState[Back] # "ACTIVE"
    BY <2>2 DEF Inv, TypeOK, PageTypeOK, pageVars
  <2> QED
    BY <2>1, <2>2
<1>3. TypeOK'
  BY <1>2, PagesOnly DEF Inv, TypeOK, ManagerTypeOK, Answer, Failure
<1>4. ControlInv'
  BY DEF Inv, ControlInv, PhaseInv, RequestInv, MoveInv, RoomInv,
     InUse, managerVars, localVars, requestVars
<1> QED
  BY <1>3, <1>4 DEF Inv

\* Inv is preserved when the version found is erased.
LEMMA EraseFoundInv ==
  ASSUME Inv, EraseFound
  PROVE  Inv'
<1> USE DEF EraseFound, Respond
<1>1. OldVersionOn # NoPage => OldVersionOn \in Sector
  BY FindPageProperty DEF OldVersionOn, Inv, TypeOK, Page
<1>2. PageTypeOK'
  <2>1. CASE UNCHANGED pageVars
    BY <2>1 DEF Inv, TypeOK, PageTypeOK, pageVars
  <2>2. CASE ~UNCHANGED pageVars
    <3> DEFINE i == FindOnPage(OldVersionOn, op.key, op.type)
    <3>1. OldVersionOn \in Sector /\ i # INVALID_ENTRY /\ EraseEntry(OldVersionOn, i)
      BY <1>1, <2>2
    <3>2. i \in Index
      BY <3>1, FindOnPageProperty, WrittenFinite
    <3> QED
      BY <3>1, <3>2, EraseEntryType DEF Inv, TypeOK
  <2> QED
    BY <2>1, <2>2
<1>3. TypeOK'
  BY <1>2, PagesOnly DEF Inv, TypeOK, ManagerTypeOK, Answer
<1>4. ControlInv'
  BY DEF Inv, ControlInv, PhaseInv, RequestInv, MoveInv, RoomInv,
     InUse, managerVars, localVars, requestVars
<1> QED
  BY <1>3, <1>4 DEF Inv

\* Inv is preserved by a step of eraseNamespace().
LEMMA EraseOfNamespaceInv ==
  ASSUME Inv, EraseOfNamespace
  PROVE  Inv'
<1> USE DEF EraseOfNamespace, Respond
<1>1. PageTypeOK'
  <2>1. CASE ClearPages(op.ns) = {}
    BY <2>1 DEF Inv, TypeOK, PageTypeOK, pageVars
  <2>2. CASE ClearPages(op.ns) # {}
    <3> DEFINE n == Min(ClearPages(op.ns))
               i == FindNamespace(mPageList[n], op.ns)
    <3>1. ClearPages(op.ns) \in SUBSET DOMAIN mPageList /\ DOMAIN mPageList \in SUBSET Nat
      BY DEF Inv, TypeOK, ManagerTypeOK, ClearPages
    <3>2. n \in ClearPages(op.ns)
      BY <2>2, <3>1, MinProperty
    <3>3. n \in DOMAIN mPageList /\ i # INVALID_ENTRY
      BY <3>2 DEF ClearPages
    <3>4. mPageList[n] \in Sector
      BY <3>3, InUseSectors DEF Inv, TypeOK, InUse
    <3>5. i \in Index
      BY <3>3, <3>4, FindNamespaceProperty, WrittenFinite
    <3>6. EraseEntry(mPageList[n], i)
      BY <2>2
    <3> QED
      BY <3>4, <3>5, <3>6, EraseEntryType DEF Inv, TypeOK
  <2> QED
    BY <2>1, <2>2
<1>2. TypeOK'
  BY <1>1, PagesOnly DEF Inv, TypeOK, ManagerTypeOK, Answer
<1>3. ControlInv'
  BY DEF Inv, ControlInv, PhaseInv, RequestInv, MoveInv, RoomInv,
     InUse, managerVars, localVars, requestVars
<1> QED
  BY <1>2, <1>3 DEF Inv

\* Inv is preserved when a request is answered.
LEMMA ReturnInv ==
  ASSUME Inv, Return
  PROVE  Inv'
<1> USE DEF Return
<1>1. PageTypeOK'
  BY DEF Inv, TypeOK, PageTypeOK, pageVars
<1>2. TypeOK'
  BY <1>1 DEF Inv, TypeOK, ManagerTypeOK, Answer, Request, Page, managerVars, localVars
<1>3. ControlInv'
  BY DEF Inv, ControlInv, PhaseInv, RequestInv, MoveInv, RoomInv,
     InUse, managerVars, localVars
<1> QED
  BY <1>2, <1>3 DEF Inv
-----------------------------------------------------------------------------
(* Power failures and flash errors. *)

\* What a flash operation works on is a sector.
LEMMA TargetSectors ==
  ASSUME Inv
  PROVE  EraseTarget \cup HeaderTarget \cup DataTarget \cup WordTarget \subseteq Sector
<1>1. EraseTarget \subseteq Sector
  <2>1. pc = "erasePage" => erasedPage \in Sector
    BY DEF Inv, TypeOK, ManagerTypeOK, ControlInv, MoveInv, Page
  <2>2. pc = "recover" /\ FreeingPages # {} => Back \in Sector
    BY InUseSectors DEF Inv, TypeOK, ControlInv, MoveInv
  <2> QED
    BY <2>1, <2>2 DEF EraseTarget
<1>2. pc \in {"init", "copyInit", "data", "copyData", "state", "copyState", "markFull"} => Back \in Sector
  BY InUseSectors DEF Inv, TypeOK, ControlInv, MoveInv
<1>3. HeaderTarget \subseteq Sector /\ DataTarget \subseteq Sector
  BY <1>2 DEF HeaderTarget, DataTarget
<1>4. pc = "freeing" => erasedPage \in Sector
  BY DEF Inv, TypeOK, ManagerTypeOK, ControlInv, MoveInv, Page
<1>5. pc = "repair" => loadIndex \in Sector
  BY DEF Inv, ControlInv, PhaseInv
<1>6. OldVersionPages # {} => OldVersionPage \in Sector
  BY OldVersionProperty
<1>7. ClearPages(op.ns) # {} => mPageList[Min(ClearPages(op.ns))] \in Sector
  <2>1. ClearPages(op.ns) \in SUBSET DOMAIN mPageList /\ DOMAIN mPageList \in SUBSET Nat
    BY DEF Inv, TypeOK, ManagerTypeOK, ClearPages
  <2>2. ClearPages(op.ns) # {} => Min(ClearPages(op.ns)) \in DOMAIN mPageList
    BY <2>1, MinProperty
  <2> QED
    BY <2>2, InUseSectors DEF Inv, TypeOK, InUse
<1>8. WordTarget \subseteq Sector
  BY <1>2, <1>4, <1>5, <1>6, <1>7 DEF WordTarget
<1> QED
  BY <1>1, <1>3, <1>8

\* An operation that is cut off leaves flash with the right types.
LEMMA HalfDoneType ==
  ASSUME Inv, UNCHANGED flashVars \/ HalfDone
  PROVE  /\ header' \in [Sector -> HeaderState]
         /\ headerSeq' \in [Sector -> Nat]
         /\ entryTable' \in [Sector -> [Index -> EntryState]]
         /\ entryData' \in [Sector -> [Index -> Item \cup {Blank, Garbage}]]
<1> USE DEF HalfDone
<1>0. PageTypeOK /\ "CORRUPT" \in HeaderState
  BY DEF Inv, TypeOK, HeaderState
<1>1. CASE UNCHANGED flashVars
  BY <1>0, <1>1 DEF PageTypeOK, flashVars
<1>2. ASSUME NEW p \in EraseTarget, SectorErased(p, "CORRUPT")
      PROVE  /\ header' \in [Sector -> HeaderState]
             /\ headerSeq' \in [Sector -> Nat]
             /\ entryTable' \in [Sector -> [Index -> EntryState]]
             /\ entryData' \in [Sector -> [Index -> Item \cup {Blank, Garbage}]]
  BY <1>0, <1>2, TargetSectors, SectorErasedType
<1>3. ASSUME NEW p \in HeaderTarget, header' = [header EXCEPT ![p] = "CORRUPT"],
             UNCHANGED <<headerSeq, entryTable, entryData>>
      PROVE  /\ header' \in [Sector -> HeaderState]
             /\ headerSeq' \in [Sector -> Nat]
             /\ entryTable' \in [Sector -> [Index -> EntryState]]
             /\ entryData' \in [Sector -> [Index -> Item \cup {Blank, Garbage}]]
  BY <1>0, <1>3, TargetSectors DEF PageTypeOK
<1>4. ASSUME NEW p \in DataTarget,
             entryData' = [entryData EXCEPT ![p][mNextFreeEntry[p]] = Garbage],
             UNCHANGED <<header, headerSeq, entryTable>>
      PROVE  /\ header' \in [Sector -> HeaderState]
             /\ headerSeq' \in [Sector -> Nat]
             /\ entryTable' \in [Sector -> [Index -> EntryState]]
             /\ entryData' \in [Sector -> [Index -> Item \cup {Blank, Garbage}]]
  BY <1>0, <1>4, TargetSectors DEF PageTypeOK
<1> QED
  BY <1>1, <1>2, <1>3, <1>4

\* A restart establishes Inv, whatever is on flash.
LEMMA StartLoadingInv ==
  ASSUME Inv, UNCHANGED flashVars \/ HalfDone, StartLoading,
         crashes' \in 0 .. MaxCrashes, faults' \in 0 .. MaxFaults
  PROVE  Inv'
<1> USE DEF StartLoading
<1>1. PageTypeOK'
  BY HalfDoneType, NewPageObjectsType DEF PageTypeOK
<1>2. ManagerTypeOK'
  BY PageCountAssumption DEF ManagerTypeOK, Answer, Page, NoPage
<1>3. TypeOK'
  BY <1>1, <1>2 DEF TypeOK, Request, Page
<1>4. ControlInv'
  BY PageCountAssumption DEF ControlInv, PhaseInv, RequestInv, MoveInv, RoomInv, Sector
<1> QED
  BY <1>3, <1>4 DEF Inv

\* Inv is preserved by a power failure.
LEMMA CrashInv ==
  ASSUME Inv, Crash
  PROVE  Inv'
BY StartLoadingInv, BoundsAssumption DEF Crash, Inv, TypeOK

\* Inv is preserved when the storage is initialised again.
LEMMA ReinitializeInv ==
  ASSUME Inv, Reinitialize
  PROVE  Inv'
BY StartLoadingInv DEF Reinitialize, Inv, TypeOK

\* Inv is preserved when a flash operation fails, wherever the program is.
LEMMA FlashErrorInv ==
  ASSUME Inv, FlashError
  PROVE  Inv'
<1> USE DEF FlashError, Fail, Respond
<1>1. PICK p \in EraseTarget \cup HeaderTarget \cup DataTarget \cup WordTarget :
        /\ mState' = [mState EXCEPT ![p] = "INVALID"]
        /\ mUsedEntryCount' = [mUsedEntryCount EXCEPT ![p] =
             IF pc \in {"erase", "dup", "clear"} \/ (pc = "repair" /\ ~HalfWritten(p))
             THEN @ - 1 ELSE @]
  OBVIOUS
<1>2. p \in Sector
  BY <1>1, TargetSectors
<1>3. PageTypeOK'
  <2>1. mState' \in [Sector -> PageState]
    BY <1>1, <1>2 DEF Inv, TypeOK, PageTypeOK, PageState
  <2>2. mUsedEntryCount' \in [Sector -> Int]
    <3> DEFINE decremented == pc \in {"erase", "dup", "clear"} \/ (pc = "repair" /\ ~HalfWritten(p))
    <3>1. mUsedEntryCount \in [Sector -> Int] /\ mUsedEntryCount[p] - 1 \in Int
      BY <1>2 DEF Inv, TypeOK, PageTypeOK
    <3>2. CASE decremented
      <4>1. mUsedEntryCount' = [mUsedEntryCount EXCEPT ![p] = @ - 1]
        BY <1>1, <3>2
      <4> QED
        BY <3>1, <4>1
    <3>3. CASE ~decremented
      <4>1. mUsedEntryCount' = [mUsedEntryCount EXCEPT ![p] = @]
        BY <1>1, <3>3
      <4> QED
        BY <3>1, <4>1
    <3> QED
      BY <3>2, <3>3
  <2> QED
    BY <2>1, <2>2, HalfDoneType DEF Inv, TypeOK, PageTypeOK
<1>4. pc \in {"erasePage", "recover", "activate", "init", "copyInit", "data", "copyData", "state",
              "copyState", "markFull", "freeing", "repair", "dup", "erase", "clear"}
  BY <1>1 DEF EraseTarget, HeaderTarget, DataTarget, WordTarget
<1>5. /\ pc' \in {"insert", "dup", "failed", "return"}
      /\ ret' \in {ret, "REMOVE_FAILED", "FLASH_OP_FAIL"}
      /\ pc' = "insert" => pc = "repair"
      /\ pc' = "dup" => pc = "dup"
      /\ pc' = "return" => mStorageState = "ACTIVE"
      /\ pc' = "failed" => pc \notin {"load", "repair", "insert", "idle", "halted"}
  BY <1>4 DEF Inv, ControlInv, PhaseInv, TypeOK, ManagerTypeOK
<1>6. TypeOK'
  BY <1>3, <1>5, BoundsAssumption
     DEF Inv, TypeOK, ManagerTypeOK, Answer, Failure, Page, managerVars
<1>7. ControlInv'
  BY <1>4, <1>5 DEF Inv, TypeOK, ManagerTypeOK, ControlInv, PhaseInv, RequestInv, MoveInv, RoomInv,
     InUse, managerVars
<1> QED
  BY <1>6, <1>7 DEF Inv

-----------------------------------------------------------------------------
(* The theorems. *)

\* Inv is preserved by every step of the page manager.
LEMMA ManageInv ==
  ASSUME Inv, Manage
  PROVE  Inv'
<1>1. CASE Load /\ UNCHANGED requestVars
  BY <1>1, LoadSectorInv, RepairHalfWrittenInv, RepairDuplicateInv, RepairDoneInv, InsertPageInv,
     SettleInv, EraseOldVersionInv, RecoverFreeingInv, NothingFreeingInv, CheckFreePagesInv DEF Load
<1>2. CASE Move /\ UNCHANGED requestVars
  BY <1>2, RequestNewPageInv, EraseCorruptInv, ActivatePageInv, ActivateNothingInv, MarkFreeingInv,
     StartCopyInv, CopyInitInv, CopyDataInv, CopyStateInv, FreePageInv DEF Move
<1> QED
  BY <1>1, <1>2 DEF Manage

\* Inv is preserved by every step of the storage.
LEMMA ServeInv ==
  ASSUME Inv, Serve
  PROVE  Inv'
BY FindForSetInv, FindForEraseInv, TryWriteInv, InitPageInv, WriteDataInv, WriteStateInv,
   MarkFullInv, EraseFoundInv, EraseOfNamespaceInv, ReturnInv DEF Serve

\* Inv is preserved when nothing changes.
LEMMA StutterInv ==
  ASSUME Inv, UNCHANGED vars
  PROVE  Inv'
<1>1. TypeOK'
  BY DEF Inv, TypeOK, PageTypeOK, ManagerTypeOK, vars, pageVars, managerVars, localVars
<1>2. ControlInv'
  BY DEF Inv, ControlInv, PhaseInv, RequestInv, MoveInv, RoomInv, NoRoom, Back, InUse,
     vars, pageVars, managerVars, localVars
<1> QED
  BY <1>1, <1>2 DEF Inv

\* Inv is an invariant of the storage.
THEOREM InvHolds == Spec => []Inv
<1>1. Init => Inv
  BY InitInv
<1>2. Inv /\ [Next]_vars => Inv'
  <2> SUFFICES ASSUME Inv, [Next]_vars PROVE Inv'
    OBVIOUS
  <2> QED
    BY ManageInv, BeginInv, ServeInv, CrashInv, ReinitializeInv, FlashErrorInv, StutterInv DEF Next
<1> QED
  BY <1>1, <1>2, PTL DEF Spec

(***************************************************************************)
(* The storage is type-correct: in particular load(), however often the    *)
(* power fails, and whichever flash operations fail, only ever works on    *)
(* sectors and entries of the partition.                                   *)
(***************************************************************************)
THEOREM TypeCorrect == Spec => []TypeOK
<1>1. Inv => TypeOK
  BY DEF Inv
<1> QED
  BY <1>1, InvHolds, PTL

(***************************************************************************)
(* Wherever the program is, the page, entry and request it works on are    *)
(* there: the last page exists when it is written to, has room when an     *)
(* entry's state is written, and is another page than the one being freed. *)
(***************************************************************************)
THEOREM ControlCorrect == Spec => []ControlInv
<1>1. Inv => ControlInv
  BY DEF Inv
<1> QED
  BY <1>1, InvHolds, PTL

USE DEF Loading, LoadPC, MovePC, StoragePC, WritePC, Booting, Goto

-----------------------------------------------------------------------------
(* The lists. *)

\* InUse and Free are the elements of the two lists.
LEMMA ListElements ==
  /\ InUse = Range(mPageList) /\ Free = Range(mFreePageList)
  /\ InUse' = Range(mPageList') /\ Free' = Range(mFreePageList')
  /\ IsInjective(mPageList)' <=> IsInjective(mPageList')
  /\ IsInjective(mFreePageList)' <=> IsInjective(mFreePageList')
BY DEF InUse, Free, Range, IsInjective

\* What does not change the lists keeps the sectors listed.
LEMMA SameLists ==
  ASSUME PagesListed, UNCHANGED <<mPageList, mFreePageList, loadIndex>>
  PROVE  PagesListed'
BY DEF PagesListed, InUse, Free, IsInjective

\* A sector moved from one list to the other stays listed.
LEMMA MovedPage ==
  ASSUME PagesListed, NEW p,
         \/ /\ p \in InUse
            /\ InUse' = InUse \ {p} /\ Free' = Free \cup {p}
         \/ /\ p \in Free
            /\ InUse' = InUse \cup {p} /\ Free' = Free \ {p},
         IsInjective(mPageList)', IsInjective(mFreePageList)', loadIndex' = loadIndex
  PROVE  PagesListed'
BY DEF PagesListed

\* load() puts a sector into one of the lists, which none of them held.
LEMMA InsertPageListed ==
  ASSUME Inv, PagesListed, InsertPage
  PROVE  PagesListed'
<1> USE DEF InsertPage
<1>1. loadIndex \in Sector /\ mPageList \in Seq(Sector) /\ mFreePageList \in Seq(Sector)
  BY DEF Inv, TypeOK, ManagerTypeOK, ControlInv, PhaseInv
<1>2. loadIndex \notin InUse \cup Free
  BY <1>1, PageCountAssumption DEF PagesListed, Sector
<1>3. \A p \in Sector : p < loadIndex' <=> p < loadIndex \/ p = loadIndex
  BY <1>1, PageCountAssumption DEF Sector
<1>4. CASE HasSeq(mState[loadIndex])
  <2>1. Position(loadIndex) \in 1 .. Len(mPageList) + 1
    BY <1>1, PositionProperty
  <2>2. InUse' = InUse \cup {loadIndex} /\ IsInjective(mPageList)' /\ Free' = Free
    BY <1>1, <1>2, <1>4, <2>1, InsertOnce, ListElements DEF PagesListed
  <2> QED
    BY <1>2, <1>3, <1>4, <2>2 DEF PagesListed, IsInjective
<1>5. CASE ~HasSeq(mState[loadIndex])
  <2>1. Free' = Free \cup {loadIndex} /\ IsInjective(mFreePageList)' /\ InUse' = InUse
    <3>1. /\ mFreePageList' = Append(mFreePageList, loadIndex) /\ IsInjective(mFreePageList)
          /\ InUse' = InUse
      BY <1>5, ListElements DEF PagesListed
    <3>2. loadIndex \notin Range(mFreePageList)
      BY <1>2, ListElements
    <3>3. IsInjective(Append(mFreePageList, loadIndex))
      BY <1>1, <3>1, <3>2, AppendOnce
    <3> QED
      BY <1>1, <3>1, <3>3, AppendElements, ListElements
  <2> QED
    BY <1>2, <1>3, <1>5, <2>1 DEF PagesListed, IsInjective
<1> QED
  BY <1>4, <1>5

\* The page that load() erases when it finds a FREEING one becomes free.
LEMMA RecoverFreeingListed ==
  ASSUME Inv, PagesListed, RecoverFreeing
  PROVE  PagesListed'
<1> USE DEF RecoverFreeing
<1>1. mPageList \in Seq(Sector) /\ mFreePageList \in Seq(Sector) /\ mPageList # <<>>
  BY DEF Inv, TypeOK, ManagerTypeOK, ControlInv, MoveInv, FreeingPages
<1>2. CASE mState[Back] = "ACTIVE"
  <2>1. Back \in Sector /\ Back \in InUse /\ Back \notin Free
    BY <1>1, FrontProperty DEF Back, InUse, PagesListed
  <2>2. InUse' = InUse \ {Back} /\ IsInjective(mPageList)'
    BY <1>1, <1>2, FrontOnce, ListElements DEF PagesListed, Back
  <2>3. Free' = Free \cup {Back} /\ IsInjective(mFreePageList)'
    <3>1. mFreePageList' = Append(mFreePageList, Back) /\ IsInjective(mFreePageList)
      BY <1>2 DEF PagesListed
    <3>2. Back \notin Range(mFreePageList)
      BY <2>1, ListElements
    <3>3. IsInjective(Append(mFreePageList, Back))
      BY <1>1, <2>1, <3>1, <3>2, AppendOnce
    <3> QED
      BY <1>1, <2>1, <3>1, <3>3, AppendElements, ListElements
  <2> QED
    BY <2>1, <2>2, <2>3, MovedPage
<1>3. CASE mState[Back] # "ACTIVE"
  BY <1>3, SameLists
<1> QED
  BY <1>2, <1>3

\* The page that activatePage() takes from the free ones is in use.
LEMMA ActivatePageListed ==
  ASSUME Inv, PagesListed, ActivatePage
  PROVE  PagesListed'
<1> USE DEF ActivatePage
<1> DEFINE p == Head(mFreePageList)
<1>1. mPageList \in Seq(Sector) /\ mFreePageList \in Seq(Sector) /\ mFreePageList # <<>>
  BY DEF Inv, TypeOK, ManagerTypeOK
<1>2. p \in Sector /\ p \in Free /\ p \notin InUse
  BY <1>1 DEF Free, PagesListed
<1>3. InUse' = InUse \cup {p} /\ IsInjective(mPageList)'
  BY <1>1, <1>2, AppendOnce, AppendElements, ListElements DEF PagesListed
<1>4. Free' = Free \ {p} /\ IsInjective(mFreePageList)'
  BY <1>1, TailOnce, ListElements DEF PagesListed
<1>5. loadIndex' = loadIndex
  BY DEF localVars
<1> HIDE DEF p
<1> QED
  BY <1>2, <1>3, <1>4, <1>5, MovedPage

\* The page that was freed is in the list of free pages, and no longer in use.
LEMMA FreePageListed ==
  ASSUME Inv, PagesListed, FreePage
  PROVE  PagesListed'
<1> USE DEF FreePage
<1>1. mPageList \in Seq(Sector) /\ mFreePageList \in Seq(Sector)
  BY DEF Inv, TypeOK, ManagerTypeOK
<1>2. erasedPage \in Sector /\ erasedPage \in InUse /\ erasedPage \notin Free
  BY InUseSectors DEF Inv, TypeOK, ControlInv, MoveInv, PagesListed
<1>3. InUse' = InUse \ {erasedPage} /\ IsInjective(mPageList)'
  <2>1. PICK i \in 1 .. Len(mPageList) :
          mPageList[i] = erasedPage /\ mPageList' = RemoveAt(mPageList, i)
    BY <1>1, <1>2, WithoutProperty DEF InUse, Range
  <2> QED
    BY <1>1, <2>1, RemoveOnce, ListElements DEF PagesListed
<1>4. Free' = Free \cup {erasedPage} /\ IsInjective(mFreePageList)'
  BY <1>1, <1>2, AppendOnce, AppendElements, ListElements DEF PagesListed
<1> QED
  BY <1>2, <1>3, <1>4, MovedPage

\* When the program starts again the lists are empty and no sector is loaded.
LEMMA StartLoadingListed ==
  ASSUME StartLoading
  PROVE  PagesListed'
BY PageCountAssumption DEF StartLoading, PagesListed, InUse, Free, IsInjective, Sector

\* Every other action leaves the lists alone.
LEMMA NextListed ==
  ASSUME Inv, PagesListed, [Next]_vars
  PROVE  PagesListed'
<1> USE DEF managerVars, localVars
<1>1. CASE Manage
  <2>1. CASE InsertPage \/ RecoverFreeing \/ ActivatePage \/ FreePage
    BY <2>1, InsertPageListed, RecoverFreeingListed, ActivatePageListed, FreePageListed
  <2>2. CASE \/ LoadSector \/ RepairHalfWritten \/ RepairDuplicate \/ RepairDone \/ Settle
             \/ EraseOldVersion \/ NothingFreeing \/ CheckFreePages
    BY <2>2, SameLists DEF LoadSector, RepairHalfWritten, RepairDuplicate, RepairDone, Settle,
       EraseOldVersion, NothingFreeing, CheckFreePages
  <2>3. CASE \/ RequestNewPage \/ EraseCorrupt \/ ActivateNothing \/ MarkFreeing
             \/ StartCopy \/ CopyInit \/ CopyData \/ CopyState
    BY <2>3, SameLists DEF RequestNewPage, EraseCorrupt, ActivateNothing, MarkFreeing,
       StartCopy, CopyInit, CopyData, CopyState
  <2> QED
    BY <1>1, <2>1, <2>2, <2>3 DEF Manage, Load, Move
<1>2. CASE Begin
  BY <1>2, SameLists DEF Begin
<1>3. CASE Serve
  BY <1>3, SameLists DEF Serve, FindForSet, FindForErase, TryWrite, InitPage, WriteData, WriteState,
     MarkFull, EraseFound, EraseOfNamespace, Return
<1>4. CASE Crash \/ Reinitialize
  BY <1>4, StartLoadingListed DEF Crash, Reinitialize
<1>5. CASE FlashError
  BY <1>5, SameLists DEF FlashError
<1>6. CASE UNCHANGED vars
  BY <1>6, SameLists DEF vars
<1> QED
  BY <1>1, <1>2, <1>3, <1>4, <1>5, <1>6 DEF Next

(***************************************************************************)
(* However often the power fails and whichever flash operations fail, each *)
(* sector that was loaded is in one of the lists, once: a page with items  *)
(* on it is never handed out as a free page.                               *)
(***************************************************************************)
THEOREM ListsCorrect == Spec => []PagesListed
<1>1. Init => PagesListed
  BY PageCountAssumption DEF Init, PagesListed, InUse, Free, IsInjective, Sector
<1>2. Inv /\ PagesListed /\ [Next]_vars => PagesListed'
  BY NextListed
<1> QED
  BY <1>1, <1>2, InvHolds, PTL DEF Spec
-----------------------------------------------------------------------------
(* The parts of the invariant. *)

\* What the steps below need of the types.
LEMMA OrderTypes ==
  ASSUME Inv
  PROVE  /\ header \in [Sector -> HeaderState] /\ headerSeq \in [Sector -> Nat]
         /\ mState \in [Sector -> PageState] /\ mPageSeq \in [Sector -> Nat]
         /\ mPageList \in Seq(Sector) /\ mFreePageList \in Seq(Sector) /\ mSeqNumber \in Nat
         /\ DOMAIN mPageList = 1 .. Len(mPageList) /\ Len(mPageList) \in Nat
         /\ InUse \subseteq Sector /\ Free \subseteq Sector
         /\ Sector \subseteq Nat
         /\ mPageList # <<>> => /\ Back \in InUse /\ Back = mPageList[Len(mPageList)]
                                /\ Len(mPageList) >= 1
<1>1. /\ header \in [Sector -> HeaderState] /\ headerSeq \in [Sector -> Nat]
      /\ mState \in [Sector -> PageState] /\ mPageSeq \in [Sector -> Nat]
      /\ mPageList \in Seq(Sector) /\ mFreePageList \in Seq(Sector) /\ mSeqNumber \in Nat
  BY DEF Inv, TypeOK, PageTypeOK, ManagerTypeOK
<1>2. DOMAIN mPageList = 1 .. Len(mPageList) /\ Len(mPageList) \in Nat
  BY <1>1
<1>3. InUse \subseteq Sector /\ Free \subseteq Sector
  BY <1>1 DEF InUse, Free
<1>4. mPageList # <<>> => /\ Back \in InUse /\ Back = mPageList[Len(mPageList)]
                          /\ Len(mPageList) >= 1
  BY <1>1 DEF Back, Last, InUse
<1> QED
  BY <1>1, <1>2, <1>3, <1>4, SectorNat

\* Steps that leave headers, numbers and lists alone keep the order.
LEMMA SameOrder ==
  ASSUME OrderInv,
         UNCHANGED <<header, headerSeq, mState, mPageSeq, mPageList, mFreePageList, mSeqNumber,
                     loadIndex>>,
         pc \in Loading <=> pc' \in Loading,
         pc' \in {"dup", "recover"} => pc \in {"dup", "recover"},
         pc' \in {"repair", "insert"} => pc \in {"repair", "insert"},
         pc' \in {"request", "activate"} =>
           pc \in {"request", "activate"} \/ \A p \in Sector : header[p] # "ACTIVE",
         pc' \in {"init", "copyInit"} =>
           pc \in {"init", "copyInit"} \/ mState[Back] = "UNINITIALIZED",
         pc' \in MovePC \ {"activate"} =>
           pc \in MovePC \ {"activate"} /\ erasedPage' = erasedPage
  PROVE  OrderInv'
<1> USE DEF OrderInv
<1>1. InUse' = InUse /\ Free' = Free /\ Back' = Back /\ Numbered' = Numbered
  BY DEF InUse, Free, Back, Numbered
<1>2. Agree' /\ FreeUnused' /\ Numbers'
  BY <1>1 DEF Agree, FreeUnused, Numbers
<1>3. Loaded'
  BY <1>1 DEF Loaded, Read
<1>4. ActiveLast'
  BY <1>1 DEF ActiveLast
<1>5. NextNumber'
  BY <1>1 DEF NextNumber
<1>6. Apart'
  BY <1>1 DEF Apart
<1>7. ListSorted'
  BY <1>1 DEF ListSorted
<1> QED
  BY <1>2, <1>3, <1>4, <1>5, <1>6, <1>7
-----------------------------------------------------------------------------
(* load() *)

\* A sector that is read agrees with flash; it is in neither list yet.
LEMMA LoadSectorOrder ==
  ASSUME Inv, PagesListed, OrderInv, LoadSector
  PROVE  OrderInv'
<1> USE DEF LoadSector, OrderInv, LoadPage, flashVars, managerVars, localVars
<1>1. loadIndex \in Sector /\ loadIndex \notin InUse /\ loadIndex \in Nat
  BY OrderTypes DEF PagesListed, Inv, ControlInv, PhaseInv
<1>2. InUse' = InUse /\ Free' = Free /\ InUse \subseteq Sector
  BY OrderTypes DEF InUse, Free
<1>3. \A p \in Sector : p # loadIndex => mState'[p] = mState[p] /\ mPageSeq'[p] = mPageSeq[p]
  BY OrderTypes
<1>4. mState'[loadIndex] = header[loadIndex]
  BY <1>1, OrderTypes
<1>5. HasSeq(header[loadIndex]) => mPageSeq'[loadIndex] = headerSeq[loadIndex]
  BY <1>1, OrderTypes
<1>6. Agree' /\ FreeUnused' /\ Numbers'
  BY <1>2, <1>3, <1>4 DEF Agree, FreeUnused, Numbers
<1>7. Loaded'
  BY <1>1, <1>2, <1>3, <1>4, <1>5 DEF Loaded, Read
<1>8. ActiveLast' /\ NextNumber' /\ Apart'
  BY DEF ActiveLast, NextNumber, Apart
<1>9. ListSorted'
  <2>1. \A n \in DOMAIN mPageList : mPageList[n] \in Sector /\ mPageList[n] # loadIndex
    BY <1>1, <1>2 DEF InUse
  <2>2. Numbered' = Numbered
    BY <1>3, <2>1 DEF Numbered
  <2> QED
    BY <1>3, <2>1, <2>2 DEF ListSorted, Numbered
<1> QED
  BY <1>6, <1>7, <1>8, <1>9

\* Inserting a number before the first larger one keeps a sequence sorted.
LEMMA InsertSorted ==
  ASSUME NEW s \in Seq(Sector), NEW e \in Sector, NEW seq \in [Sector -> Nat],
         NEW i \in 1 .. Len(s) + 1,
         \A m, n \in DOMAIN s : m < n => seq[s[m]] < seq[s[n]],
         \A n \in DOMAIN s : n < i => seq[s[n]] < seq[e],
         i \in DOMAIN s => seq[e] < seq[s[i]]
  PROVE  \A m, n \in DOMAIN InsertAt(s, i, e) :
           m < n => seq[InsertAt(s, i, e)[m]] < seq[InsertAt(s, i, e)[n]]
<1> DEFINE t == InsertAt(s, i, e)
<1>1. DOMAIN s = 1 .. Len(s) /\ Len(s) \in Nat
  OBVIOUS
<1>2. DOMAIN t = 1 .. Len(s) + 1 /\ t[i] = e
  BY InsertAtProperty
<1>3. \A n \in 1 .. i - 1 : t[n] = s[n]
  BY InsertAtProperty
<1>4. \A n \in i + 1 .. Len(s) + 1 : t[n] = s[n - 1]
  BY InsertAtProperty
<1>5. \A n \in DOMAIN s : s[n] \in Sector /\ seq[s[n]] \in Nat
  OBVIOUS
<1> HIDE DEF t
<1>6. \A n \in DOMAIN s : n >= i => seq[e] < seq[s[n]]
  <2> SUFFICES ASSUME NEW n \in DOMAIN s, n >= i PROVE seq[e] < seq[s[n]]
    OBVIOUS
  <2>1. i \in DOMAIN s /\ (i < n => seq[s[i]] < seq[s[n]])
    BY <1>1
  <2> QED
    BY <1>1, <1>5, <2>1
<1>7. ASSUME NEW m \in DOMAIN t, NEW n \in DOMAIN t, m < n
      PROVE  seq[t[m]] < seq[t[n]]
  <2>1. CASE n < i
    <3>1. m \in DOMAIN s /\ n \in DOMAIN s /\ t[m] = s[m] /\ t[n] = s[n]
      BY <1>1, <1>2, <1>3, <1>7, <2>1
    <3> QED
      BY <1>7, <3>1
  <2>2. CASE n = i
    <3>1. m \in DOMAIN s /\ t[m] = s[m]
      BY <1>1, <1>2, <1>3, <1>7, <2>2
    <3> QED
      BY <1>2, <1>7, <2>2, <3>1
  <2>3. CASE n > i
    <3>1. n - 1 \in DOMAIN s /\ t[n] = s[n - 1] /\ n - 1 >= i
      <4>1. n \in i + 1 .. Len(s) + 1
        BY <1>1, <1>2, <2>3
      <4> QED
        BY <1>1, <1>4, <4>1
    <3>2. CASE m < i
      <4>1. m \in DOMAIN s /\ t[m] = s[m]
        BY <1>1, <1>2, <1>3, <3>2
      <4> QED
        BY <1>1, <3>1, <3>2, <4>1
    <3>3. CASE m = i
      BY <1>2, <1>6, <3>1, <3>3
    <3>4. CASE m > i
      <4>1. m - 1 \in DOMAIN s /\ t[m] = s[m - 1] /\ m - 1 < n - 1
        BY <1>1, <1>2, <1>4, <1>7, <3>4
      <4> QED
        BY <3>1, <4>1
    <3> QED
      BY <1>2, <3>2, <3>3, <3>4
  <2> QED
    BY <1>2, <2>1, <2>2, <2>3
<1> QED
  BY <1>7 DEF t

\* The pages before Position have smaller or equal numbers, the page at it a larger one.
LEMMA PositionOrder ==
  ASSUME Inv, NEW p \in Sector
  PROVE  /\ \A n \in DOMAIN mPageList : n < Position(p) => mPageSeq[mPageList[n]] <= mPageSeq[p]
         /\ Position(p) \in DOMAIN mPageList => mPageSeq[p] < mPageSeq[mPageList[Position(p)]]
<1> DEFINE S == {n \in DOMAIN mPageList : mPageSeq[mPageList[n]] > mPageSeq[p]}
           i == LeastOr(S, Len(mPageList) + 1)
<1>1. Position(p) = i
  BY DEF Position
<1>2. \A n \in DOMAIN mPageList : mPageList[n] \in Sector /\ mPageSeq[mPageList[n]] \in Nat
  BY OrderTypes
<1>3. S \in SUBSET Nat /\ mPageSeq[p] \in Nat /\ DOMAIN mPageList = 1 .. Len(mPageList)
      /\ Len(mPageList) \in Nat
  BY OrderTypes
<1>4. S = {} => i = Len(mPageList) + 1
  BY <1>3, LeastOrProperty
<1>5. S # {} => i \in S /\ \A n \in S : i <= n
  BY <1>3, LeastOrProperty
<1> HIDE DEF i
<1>6. \A n \in DOMAIN mPageList : n < i => n \notin S
  BY <1>3, <1>5
<1>7. i \in DOMAIN mPageList => i \in S
  BY <1>3, <1>4, <1>5
<1> QED
  BY <1>1, <1>2, <1>3, <1>6, <1>7

\* load() puts a page where its number belongs: no two pages have the same one.
LEMMA InsertPageOrder ==
  ASSUME Inv, PagesListed, OrderInv, InsertPage
  PROVE  OrderInv'
<1> USE DEF InsertPage, OrderInv
<1>1. loadIndex \in Sector /\ loadIndex \notin InUse /\ Read(loadIndex)
  BY OrderTypes DEF PagesListed, Inv, ControlInv, PhaseInv, Loaded
<1>2. \A p \in InUse : HasSeq(mState[p]) /\ Read(p)
  BY DEF Loaded
<1>3. UNCHANGED <<header, headerSeq, mState, mPageSeq>>
  BY DEF pageVars
<1>4. CASE HasSeq(mState[loadIndex])
  <2>1. Position(loadIndex) \in 1 .. Len(mPageList) + 1
    BY <1>1, PositionProperty
  <2>2. InUse' = InUse \cup {loadIndex} /\ Free' = Free
    BY <1>1, <1>4, <2>1, InsertOnce, OrderTypes, ListElements
  <2>3. Agree' /\ FreeUnused' /\ Numbers'
    BY <1>3, <2>2 DEF Agree, FreeUnused, Numbers
  <2>4. Loaded'
    BY <1>1, <1>2, <1>3, <1>4, <2>2 DEF Loaded, Read
  <2>5. ActiveLast' /\ NextNumber' /\ Apart'
    <3>1. pc' \in Loading
      OBVIOUS
    <3> QED
      BY <3>1 DEF ActiveLast, NextNumber, Apart
  <2>6. ListSorted'
    <3>1. \A n \in DOMAIN mPageList : n \in Numbered
      BY <1>2 DEF Numbered, InUse, HasSeq
    <3>2. \A m, n \in DOMAIN mPageList : m < n => mPageSeq[mPageList[m]] < mPageSeq[mPageList[n]]
      BY <3>1 DEF ListSorted
    <3>3. \A p \in InUse : mPageSeq[p] # mPageSeq[loadIndex]
      <4> SUFFICES ASSUME NEW p \in InUse PROVE mPageSeq[p] # mPageSeq[loadIndex]
        OBVIOUS
      <4>1. p \in Sector /\ p # loadIndex /\ HasSeq(header[p]) /\ HasSeq(header[loadIndex])
        BY <1>1, <1>2, <1>4, OrderTypes DEF Read
      <4>2. headerSeq[p] # headerSeq[loadIndex]
        BY <1>1, <4>1 DEF Numbers
      <4> QED
        BY <1>1, <1>2, <4>1, <4>2 DEF Read
    <3>4. \A n \in DOMAIN mPageList : n < Position(loadIndex) =>
            mPageSeq[mPageList[n]] < mPageSeq[loadIndex]
      <4> SUFFICES ASSUME NEW n \in DOMAIN mPageList, n < Position(loadIndex)
                   PROVE  mPageSeq[mPageList[n]] < mPageSeq[loadIndex]
        OBVIOUS
      <4>1. mPageList[n] \in InUse /\ mPageSeq[mPageList[n]] \in Nat /\ mPageSeq[loadIndex] \in Nat
        BY <1>1, OrderTypes DEF InUse
      <4>2. mPageSeq[mPageList[n]] <= mPageSeq[loadIndex]
        BY <1>1, PositionOrder
      <4> QED
        BY <3>3, <4>1, <4>2
    <3>5. Position(loadIndex) \in DOMAIN mPageList =>
            mPageSeq[loadIndex] < mPageSeq[mPageList[Position(loadIndex)]]
      BY <1>1, PositionOrder
    <3> DEFINE i == Position(loadIndex)
               s == mPageList
               e == loadIndex
    <3>6. s \in Seq(Sector) /\ mPageSeq \in [Sector -> Nat]
      BY OrderTypes
    <3>7. mPageList' = InsertAt(s, i, e) /\ i \in 1 .. Len(s) + 1 /\ e \in Sector
      BY <1>1, <1>4, <2>1
    <3> HIDE DEF i, s, e
    <3>8. \A m, n \in DOMAIN mPageList' : m < n => mPageSeq[mPageList'[m]] < mPageSeq[mPageList'[n]]
      BY <3>2, <3>4, <3>5, <3>6, <3>7, InsertSorted DEF i, s, e
    <3> QED
      BY <1>3, <3>8 DEF ListSorted, Numbered
  <2> QED
    BY <2>3, <2>4, <2>5, <2>6
<1>5. CASE ~HasSeq(mState[loadIndex])
  <2>1. mPageList' = mPageList /\ InUse' = InUse
    BY <1>5 DEF InUse
  <2>2. Free' = Free \cup {loadIndex}
    <3>1. mFreePageList' = Append(mFreePageList, loadIndex) /\ mFreePageList \in Seq(Sector)
      BY <1>5, OrderTypes
    <3> HIDE DEF InsertPage
    <3> QED
      BY <1>1, <3>1, AppendElements, ListElements
  <2>3. Agree' /\ FreeUnused' /\ Numbers'
    BY <1>1, <1>3, <1>5, <2>1, <2>2 DEF Agree, FreeUnused, Numbers, Read
  <2>4. Loaded'
    BY <1>2, <1>3, <2>1 DEF Loaded, Read
  <2>5. ActiveLast' /\ NextNumber' /\ Apart'
    BY DEF ActiveLast, NextNumber, Apart
  <2>6. ListSorted'
    BY <1>3, <2>1 DEF ListSorted, Numbered
  <2> QED
    BY <2>3, <2>4, <2>5, <2>6
<1> QED
  BY <1>4, <1>5

\* IsInjective all sectors are loaded the last page of the list has the largest number.
LEMMA SettleOrder ==
  ASSUME Inv, PagesListed, OrderInv, Settle
  PROVE  OrderInv'
<1> USE DEF Settle, OrderInv
<1>1. UNCHANGED <<header, headerSeq, mState, mPageSeq, mPageList, mFreePageList, loadIndex>>
  BY DEF pageVars, localVars
<1>2. InUse' = InUse /\ Free' = Free /\ Back' = Back /\ Numbered' = Numbered
  BY <1>1 DEF InUse, Free, Back, Numbered
<1>3. \A p \in InUse : HasSeq(mState[p]) /\ Read(p)
  BY DEF Loaded
<1>4. \A p \in Sector : HasSeq(header[p]) => p \in InUse
  BY OrderTypes, PageCountAssumption DEF PagesListed, Inv, ControlInv, PhaseInv, FreeUnused, Sector
<1>5. Agree' /\ FreeUnused' /\ Numbers' /\ Apart'
  BY <1>1, <1>2 DEF Agree, FreeUnused, Numbers, Apart
<1>6. Loaded'
  BY <1>1, <1>2, <1>3 DEF Loaded, Read
<1>7. CASE mPageList = <<>>
  <2>1. \A p \in Sector : ~HasSeq(header[p])
    BY <1>4, <1>7 DEF InUse
  <2>2. ActiveLast' /\ NextNumber'
    BY <1>1, <1>7, <2>1 DEF ActiveLast, NextNumber, HasSeq
  <2>3. ListSorted'
    BY <1>1, <1>7 DEF ListSorted, Numbered
  <2> QED
    BY <1>5, <1>6, <2>2, <2>3
<1>8. CASE mPageList # <<>>
  <2>1. /\ Back \in InUse /\ Back = mPageList[Len(mPageList)] /\ Len(mPageList) \in Nat \ {0}
        /\ DOMAIN mPageList = 1 .. Len(mPageList) /\ InUse \subseteq Sector
        /\ \A p \in Sector : mPageSeq[p] \in Nat
    BY <1>8, OrderTypes
  <2>2. \A n \in DOMAIN mPageList : n \in Numbered
    BY <1>3 DEF Numbered, InUse, HasSeq
  <2>3. \A p \in InUse : p # Back => mPageSeq[p] < mPageSeq[Back]
    <3> SUFFICES ASSUME NEW p \in InUse, p # Back PROVE mPageSeq[p] < mPageSeq[Back]
      OBVIOUS
    <3>1. PICK n \in DOMAIN mPageList : mPageList[n] = p
      BY DEF InUse
    <3>2. n < Len(mPageList) /\ Len(mPageList) \in DOMAIN mPageList
      BY <2>1, <3>1
    <3> QED
      BY <2>1, <2>2, <3>1, <3>2 DEF ListSorted
  <2>4. mSeqNumber' = mPageSeq[Back] + 1
    BY <1>8
  <2>5. \A p \in InUse : mPageSeq'[p] < mSeqNumber' /\ headerSeq[p] = mPageSeq[p]
    <3> SUFFICES ASSUME NEW p \in InUse
                 PROVE  mPageSeq[p] < mSeqNumber' /\ headerSeq[p] = mPageSeq[p]
      BY <1>1
    <3>1. headerSeq[p] = mPageSeq[p]
      BY <1>3 DEF Read
    <3>2. mPageSeq[p] \in Nat /\ mPageSeq[Back] \in Nat
      BY <2>1
    <3> QED
      BY <2>3, <2>4, <3>1, <3>2
  <2>6. \A p \in Sector : header[p] = "ACTIVE" => p = Back
    <3> SUFFICES ASSUME NEW p \in Sector, header[p] = "ACTIVE", p # Back PROVE FALSE
      OBVIOUS
    <3>1. p \in InUse /\ HasSeq(header[p]) /\ HasSeq(header[Back]) /\ Back \in Sector
      BY <1>3, <1>4, <2>1 DEF HasSeq, Read
    <3>2. headerSeq[Back] < headerSeq[p]
      BY <3>1 DEF Numbers
    <3>3. headerSeq[p] < headerSeq[Back]
      BY <1>1, <2>1, <2>3, <2>5, <3>1
    <3>4. headerSeq[p] \in Nat /\ headerSeq[Back] \in Nat
      BY <3>1, OrderTypes
    <3> QED
      BY <3>2, <3>3, <3>4
  <2>7. ActiveLast'
    BY <1>1, <1>2, <1>8, <2>6 DEF ActiveLast
  <2>8. NextNumber'
    BY <1>1, <1>2, <1>3, <1>4, <2>1, <2>5 DEF NextNumber, HasSeq
  <2>9. ListSorted'
    BY <1>1, <1>2, <2>5 DEF ListSorted, Numbered, InUse
  <2> QED
    BY <1>5, <1>6, <2>7, <2>8, <2>9
<1> QED
  BY <1>7, <1>8

\* What an erase does to the headers and the Page objects.
LEMMA Erased ==
  ASSUME Inv, OrderInv, NEW p \in Sector, ErasePage(p)
  PROVE  /\ header'[p] = "UNINITIALIZED" /\ mState'[p] = "UNINITIALIZED" /\ mPageSeq' = mPageSeq
         /\ \A q \in Sector : q # p =>
              header'[q] = header[q] /\ headerSeq'[q] = headerSeq[q] /\ mState'[q] = mState[q]
         /\ Agree' /\ Numbers'
<1>1. /\ header'[p] = "UNINITIALIZED" /\ mState'[p] = "UNINITIALIZED" /\ mPageSeq' = mPageSeq
      /\ \A q \in Sector : q # p =>
           header'[q] = header[q] /\ headerSeq'[q] = headerSeq[q] /\ mState'[q] = mState[q]
  BY OrderTypes DEF ErasePage, SectorErased
<1>2. Agree'
  BY <1>1 DEF OrderInv, Agree
<1>3. Numbers'
  BY <1>1 DEF OrderInv, Numbers, HasSeq
<1> QED
  BY <1>1, <1>2, <1>3

\* load() erases the ACTIVE page, if there is one, when it finds one to be freed.
LEMMA RecoverFreeingOrder ==
  ASSUME Inv, PagesListed, OrderInv, RecoverFreeing
  PROVE  OrderInv'
<1> USE DEF RecoverFreeing, OrderInv
<1>1. /\ mPageList # <<>> /\ Back \in InUse /\ Back = mPageList[Len(mPageList)]
      /\ DOMAIN mPageList = 1 .. Len(mPageList) /\ Len(mPageList) \in Nat \ {0}
      /\ InUse \subseteq Sector /\ mPageList \in Seq(Sector)
  BY OrderTypes DEF FreeingPages
<1>2. \A p \in InUse : HasSeq(mState[p]) /\ Read(p)
  BY DEF Loaded
<1>3. \A p \in Sector : header[p] = "ACTIVE" => p = Back /\ mState[Back] = "ACTIVE"
  BY <1>1, <1>2 DEF ActiveLast, Read
<1>4. Apart' /\ Loaded'
  BY DEF Apart, Loaded
<1>5. CASE mState[Back] = "ACTIVE"
  <2>1. ErasePage(Back) /\ mPageList' = Front(mPageList)
        /\ mFreePageList' = Append(mFreePageList, Back)
    BY <1>5
  <2>2. Back \in Sector
    BY <1>1
  <2>3. /\ header'[Back] = "UNINITIALIZED" /\ mState'[Back] = "UNINITIALIZED"
        /\ mPageSeq' = mPageSeq
        /\ \A q \in Sector : q # Back =>
              header'[q] = header[q] /\ headerSeq'[q] = headerSeq[q] /\ mState'[q] = mState[q]
        /\ Agree' /\ Numbers'
    BY <2>1, <2>2, Erased
  <2>4. InUse' = InUse \ {Back} /\ Free' = Free \cup {Back}
    <3>1. mFreePageList \in Seq(Sector) /\ IsInjective(mPageList)
      BY OrderTypes DEF PagesListed
    <3> HIDE DEF RecoverFreeing, OrderInv
    <3>2. InUse' = InUse \ {Back}
      BY <1>1, <2>1, <3>1, FrontOnce, ListElements DEF Back
    <3>3. Free' = Free \cup {Back}
      BY <2>1, <2>2, <3>1, AppendElements, ListElements
    <3> QED
      BY <3>2, <3>3
  <2>5. FreeUnused'
    BY <2>3, <2>4, OrderTypes DEF FreeUnused, HasSeq
  <2>6. ActiveLast'
    BY <1>3, <2>3 DEF ActiveLast
  <2>7. /\ Len(mPageList') = Len(mPageList) - 1 /\ mPageList' \in Seq(Sector)
        /\ DOMAIN mPageList' = 1 .. Len(mPageList) - 1
        /\ \A n \in 1 .. Len(mPageList) - 1 : mPageList'[n] = mPageList[n]
    <3>1. Len(mPageList') = Len(mPageList) - 1 /\ mPageList' \in Seq(Sector)
          /\ \A n \in 1 .. Len(mPageList) - 1 : mPageList'[n] = mPageList[n]
      BY <1>1, <2>1, FrontProperty
    <3> QED
      BY <3>1
  <2>8. mPageList' # <<>> => Back' \in InUse'
    <3>1. mPageList' # <<>> => Len(mPageList') \in DOMAIN mPageList'
      BY <2>7
    <3> QED
      BY <3>1 DEF Back, Last, InUse
  <2>9. NextNumber'
    <3>1. mPageList' # <<>> => mState'[Back'] # "UNINITIALIZED"
      BY <1>1, <1>2, <2>3, <2>4, <2>8 DEF HasSeq
    <3>2. \A p \in Sector : HasSeq(header'[p]) => headerSeq'[p] < mSeqNumber'
      BY <2>3 DEF NextNumber, HasSeq
    <3> QED
      BY <3>1, <3>2 DEF NextNumber
  <2>10. ListSorted'
    <3>1. \A n \in DOMAIN mPageList' : mPageList'[n] = mPageList[n] /\ n \in DOMAIN mPageList
      BY <1>1, <2>7
    <3>2. \A n \in DOMAIN mPageList : n \in Numbered
      BY <1>2 DEF Numbered, InUse, HasSeq
    <3>3. \A m, n \in DOMAIN mPageList : m < n => mPageSeq[mPageList[m]] < mPageSeq[mPageList[n]]
      BY <3>2 DEF ListSorted
    <3>4. \A n \in DOMAIN mPageList : mPageSeq[mPageList[n]] < mSeqNumber
      BY <3>2 DEF ListSorted
    <3>5. \A n \in Numbered' : n \in DOMAIN mPageList'
      BY DEF Numbered
    <3> QED
      BY <2>3, <3>1, <3>3, <3>4, <3>5 DEF ListSorted
  <2> QED
    BY <1>4, <2>3, <2>5, <2>6, <2>9, <2>10
<1>6. CASE mState[Back] # "ACTIVE"
  BY <1>3, <1>6, SameOrder DEF pageVars
<1> QED
  BY <1>5, <1>6
-----------------------------------------------------------------------------
(* requestNewPage() and writeItem() *)

\* A CORRUPT free page that is erased is in no list of pages in use.
LEMMA EraseCorruptOrder ==
  ASSUME Inv, PagesListed, OrderInv, EraseCorrupt
  PROVE  OrderInv'
<1> USE DEF EraseCorrupt, OrderInv
<1> DEFINE e == Head(mFreePageList)
<1>1. e \in Sector /\ e \in Free /\ e \notin InUse
  BY OrderTypes DEF Free, PagesListed
<1>2. UNCHANGED <<mPageList, mFreePageList, mSeqNumber, pc, erasedPage, loadIndex>> /\ ErasePage(e)
  BY DEF managerVars, localVars
<1> HIDE DEF e, EraseCorrupt
<1>3. InUse' = InUse /\ Free' = Free /\ Back' = Back
  BY <1>2 DEF InUse, Free, Back
<1>4. /\ header'[e] = "UNINITIALIZED" /\ mState'[e] = "UNINITIALIZED" /\ mPageSeq' = mPageSeq
      /\ \A q \in Sector : q # e =>
            header'[q] = header[q] /\ headerSeq'[q] = headerSeq[q] /\ mState'[q] = mState[q]
      /\ Agree' /\ Numbers'
  BY <1>1, <1>2, Erased
<1>5. pc = "activate"
  BY DEF EraseCorrupt
<1>6. mPageList # <<>> => Back \in Sector /\ Back # e
  BY <1>1, OrderTypes
<1>7. FreeUnused' /\ Loaded' /\ Apart'
  BY <1>2, <1>3, <1>4, <1>5, OrderTypes DEF FreeUnused, Loaded, Apart, HasSeq
<1>8. ActiveLast'
  BY <1>2, <1>3, <1>4, <1>5 DEF ActiveLast
<1>9. NextNumber'
  BY <1>2, <1>3, <1>4, <1>5, <1>6 DEF NextNumber, HasSeq
<1>10. ListSorted'
  <2>1. \A n \in DOMAIN mPageList : mPageList[n] \in Sector /\ mPageList[n] # e
    BY <1>1, OrderTypes DEF InUse
  <2>2. Numbered' = Numbered
    BY <1>2, <1>4, <2>1 DEF Numbered
  <2> QED
    BY <1>2, <1>4, <1>5, <2>2 DEF ListSorted
<1> QED
  BY <1>4, <1>7, <1>8, <1>9, <1>10

\* The page that is activated gets a number larger than all, and none is ACTIVE yet.
LEMMA ActivatePageOrder ==
  ASSUME Inv, PagesListed, OrderInv, ActivatePage
  PROVE  OrderInv'
<1> USE DEF ActivatePage, OrderInv
<1> DEFINE a == Head(mFreePageList)
<1>1. a \in Sector /\ a \in Free /\ a \notin InUse
  <2>1. mFreePageList # <<>> /\ mFreePageList \in Seq(Sector)
    BY OrderTypes
  <2> HIDE DEF ActivatePage, OrderInv
  <2>2. 1 \in DOMAIN mFreePageList /\ a = mFreePageList[1] /\ a \in Sector
    BY <2>1
  <2> QED
    BY <2>2 DEF Free, PagesListed
<1>2. /\ UNCHANGED <<header, headerSeq, mState, erasedPage, loadIndex>>
      /\ mPageList' = Append(mPageList, a) /\ mFreePageList' = Tail(mFreePageList)
      /\ mFreePageList # <<>>
      /\ mPageSeq' = IF mState[a] = "UNINITIALIZED" THEN [mPageSeq EXCEPT ![a] = mSeqNumber]
                     ELSE mPageSeq
      /\ mSeqNumber' = mSeqNumber + 1
      /\ pc = "activate" /\ mState[a] # "CORRUPT"
      /\ pc' \in {"idle", "copy", "rewrite", "freeing"}
      /\ pc' \in {"copy", "freeing"} => erasedPage # NoPage
  BY DEF flashVars, localVars
<1> HIDE DEF a, ActivatePage
<1>3. mState[a] \in {"UNINITIALIZED", "INVALID"}
  BY <1>1, <1>2, OrderTypes DEF Agree, FreeUnused, HasSeq, HeaderState
<1>4. /\ mPageList' \in Seq(Sector) /\ Len(mPageList') = Len(mPageList) + 1
      /\ DOMAIN mPageList' = 1 .. Len(mPageList) + 1 /\ mPageList'[Len(mPageList) + 1] = a
      /\ \A n \in 1 .. Len(mPageList) : mPageList'[n] = mPageList[n]
      /\ mPageList' # <<>>
  <2>1. mPageList \in Seq(Sector) /\ mPageList' = Append(mPageList, a)
    BY <1>2, OrderTypes
  <2>2. mPageList' \in Seq(Sector) /\ Len(mPageList') = Len(mPageList) + 1
    BY <1>1, <2>1
  <2>3. mPageList'[Len(mPageList) + 1] = a /\ DOMAIN mPageList' = 1 .. Len(mPageList) + 1
    BY <1>1, <2>1
  <2>4. \A n \in 1 .. Len(mPageList) : mPageList'[n] = mPageList[n]
    BY <1>1, <2>1
  <2>5. mPageList' # <<>>
    BY <2>1, <2>3
  <2> QED
    BY <2>2, <2>3, <2>4, <2>5
<1>5. Back' = a
  BY <1>4, OrderTypes DEF Back, Last
<1>6. Free' = Free \ {a}
  BY <1>2, TailOnce, OrderTypes, ListElements DEF PagesListed, a
<1>7. /\ \A p \in Sector : p # a => mPageSeq'[p] = mPageSeq[p]
      /\ mState[a] = "UNINITIALIZED" => mPageSeq'[a] = mSeqNumber
  BY <1>1, <1>2, OrderTypes
<1>8. Agree' /\ FreeUnused' /\ Numbers' /\ Loaded'
  BY <1>2, <1>6 DEF Agree, FreeUnused, Numbers, Loaded
<1>9. ActiveLast'
  BY <1>2 DEF ActiveLast
<1>10. NextNumber'
  <2> SUFFICES ASSUME NEW p \in Sector, HasSeq(header[p])
               PROVE  /\ headerSeq[p] < mSeqNumber'
                      /\ mState[a] = "UNINITIALIZED" => headerSeq[p] < mPageSeq'[a]
    BY <1>2, <1>5 DEF NextNumber, HasSeq
  <2>1. headerSeq[p] < mSeqNumber /\ headerSeq[p] \in Nat /\ mSeqNumber \in Nat
    BY <1>2, OrderTypes DEF NextNumber
  <2> QED
    BY <1>2, <1>7, <2>1
<1>11. Apart'
  BY <1>1, <1>2, <1>5 DEF Apart, Inv, ControlInv, MoveInv
<1>12. ListSorted'
  <2>1. \A n \in 1 .. Len(mPageList) : mPageList[n] \in Sector /\ mPageList[n] # a
    BY <1>1, OrderTypes DEF InUse
  <2>2. \A n \in Numbered' : n # Len(mPageList) + 1 => n \in Numbered /\ n \in 1 .. Len(mPageList)
    <3> SUFFICES ASSUME NEW n \in Numbered', n # Len(mPageList) + 1
                 PROVE  n \in Numbered /\ n \in 1 .. Len(mPageList)
      OBVIOUS
    <3>1. n \in 1 .. Len(mPageList) + 1 /\ mState'[mPageList'[n]] # "INVALID"
      BY <1>4 DEF Numbered
    <3>2. n \in 1 .. Len(mPageList) /\ DOMAIN mPageList = 1 .. Len(mPageList)
      BY <3>1, OrderTypes
    <3> QED
      BY <1>2, <1>4, <3>1, <3>2 DEF Numbered
  <2>3. \A n \in 1 .. Len(mPageList) : mPageSeq'[mPageList'[n]] = mPageSeq[mPageList[n]]
    BY <1>4, <1>7, <2>1
  <2>4. Len(mPageList) + 1 \in Numbered' => mPageSeq'[mPageList'[Len(mPageList) + 1]] = mSeqNumber
    BY <1>2, <1>3, <1>4, <1>7 DEF Numbered
  <2>5. \A n \in Numbered : mPageSeq[mPageList[n]] < mSeqNumber
    BY <1>2 DEF ListSorted
  <2>6. Len(mPageList) \in Nat /\ mSeqNumber \in Nat
        /\ \A n \in 1 .. Len(mPageList) : mPageSeq[mPageList[n]] \in Nat
    BY <2>1, OrderTypes
  <2>7. \A n \in Numbered' : mPageSeq'[mPageList'[n]] < mSeqNumber'
    BY <1>2, <2>2, <2>3, <2>4, <2>5, <2>6
  <2>8. \A m, n \in Numbered' : m < n => mPageSeq'[mPageList'[m]] < mPageSeq'[mPageList'[n]]
    <3> SUFFICES ASSUME NEW m \in Numbered', NEW n \in Numbered', m < n
                 PROVE  mPageSeq'[mPageList'[m]] < mPageSeq'[mPageList'[n]]
      OBVIOUS
    <3>1. m \in 1 .. Len(mPageList) + 1 /\ n \in 1 .. Len(mPageList) + 1
      BY <1>4 DEF Numbered
    <3>2. m \in Numbered /\ m \in 1 .. Len(mPageList)
      BY <2>2, <2>6, <3>1
    <3>3. CASE n = Len(mPageList) + 1
      BY <2>3, <2>4, <2>5, <3>2, <3>3
    <3>4. CASE n # Len(mPageList) + 1
      BY <2>2, <2>3, <3>2, <3>4 DEF ListSorted
    <3> QED
      BY <3>3, <3>4
  <2> QED
    BY <2>7, <2>8 DEF ListSorted
<1> QED
  BY <1>8, <1>9, <1>10, <1>11, <1>12

\* The header that is written has the largest number.
LEMMA InitializeOrder ==
  ASSUME Inv, PagesListed, OrderInv, pc \in {"init", "copyInit"}, Initialize(Back),
         pc' \in {"data", "copyData"}, pc' = "copyData" => pc = "copyInit",
         UNCHANGED <<mPageList, mFreePageList, mSeqNumber, erasedPage, loadIndex>>
  PROVE  OrderInv'
<1> USE DEF OrderInv, Initialize
<1>1. /\ mPageList # <<>> /\ Back \in InUse /\ Back \in Sector /\ Back \notin Free
      /\ Back = mPageList[Len(mPageList)]
      /\ DOMAIN mPageList = 1 .. Len(mPageList) /\ Len(mPageList) \in Nat \ {0}
  BY OrderTypes DEF Inv, ControlInv, MoveInv, PagesListed
<1>2. InUse' = InUse /\ Free' = Free /\ Back' = Back
  BY DEF InUse, Free, Back
<1>3. mState[Back] = "UNINITIALIZED"
  BY DEF ActiveLast
<1>4. /\ header'[Back] = "ACTIVE" /\ mState'[Back] = "ACTIVE" /\ headerSeq'[Back] = mPageSeq[Back]
      /\ mPageSeq' = mPageSeq
      /\ \A q \in Sector : q # Back =>
           header'[q] = header[q] /\ headerSeq'[q] = headerSeq[q] /\ mState'[q] = mState[q]
  BY <1>1, OrderTypes
<1>5. \A p \in Sector : HasSeq(header[p]) => headerSeq[p] < mSeqNumber /\ headerSeq[p] < mPageSeq[Back]
  BY <1>1, <1>3 DEF NextNumber
<1>6. \A p \in Sector : p # Back => header[p] # "ACTIVE"
  BY DEF ActiveLast
<1> HIDE DEF Initialize
<1>7. Agree' /\ FreeUnused' /\ Loaded' /\ Apart'
  BY <1>1, <1>2, <1>4, OrderTypes DEF Agree, FreeUnused, Loaded, Apart, HasSeq
<1>8. Numbers'
  <2> SUFFICES ASSUME NEW p \in Sector, NEW q \in Sector, p # q, HasSeq(header'[p]), HasSeq(header'[q])
               PROVE  /\ headerSeq'[p] # headerSeq'[q]
                      /\ header'[q] = "ACTIVE" => headerSeq'[p] < headerSeq'[q]
    BY DEF Numbers, HasSeq
  <2>1. /\ headerSeq[p] \in Nat /\ headerSeq[q] \in Nat /\ mPageSeq[Back] \in Nat
    BY <1>1, OrderTypes
  <2>2. CASE p # Back /\ q # Back
    BY <1>4, <2>2 DEF Numbers
  <2>3. CASE p = Back
    BY <1>4, <1>5, <1>6, <2>1, <2>3
  <2>4. CASE q = Back
    BY <1>4, <1>5, <1>6, <2>1, <2>4
  <2> QED
    BY <2>2, <2>3, <2>4
<1>9. ActiveLast'
  BY <1>1, <1>2, <1>4, <1>6 DEF ActiveLast
<1>10. Len(mPageList) \in Numbered
  BY <1>1, <1>3 DEF Numbered
<1>11. mPageSeq[Back] < mSeqNumber
  BY <1>1, <1>10 DEF ListSorted
<1>12. NextNumber'
  <2>1. \A p \in Sector : HasSeq(header'[p]) => headerSeq'[p] < mSeqNumber
    BY <1>4, <1>5, <1>11
  <2> QED
    BY <1>2, <1>4, <2>1 DEF NextNumber
<1>13. ListSorted'
  <2>1. \A n \in DOMAIN mPageList : mPageList[n] \in Sector
    BY OrderTypes
  <2>2. Numbered' = Numbered
    BY <1>1, <1>3, <1>4, <2>1 DEF Numbered
  <2> QED
    BY <1>4, <2>2 DEF ListSorted
<1> QED
  BY <1>7, <1>8, <1>9, <1>12, <1>13

\* markFull() and markFreeing() end the ACTIVE state of a page and keep its number.
LEMMA AlterPageStateOrder ==
  ASSUME Inv, PagesListed, OrderInv, pc \in {"markFull", "freeing"},
         NEW p \in Sector, NEW state \in {"FULL", "FREEING"}, AlterPageState(p, state),
         mState[p] \in {"FULL", "ACTIVE"}, p \notin Free,
         pc = "markFull" => p = Back,
         pc' = IF pc = "markFull" THEN "request" ELSE "copy",
         UNCHANGED <<mPageList, mFreePageList, mSeqNumber, erasedPage, loadIndex>>
  PROVE  OrderInv'
<1> USE DEF OrderInv
<1>1. InUse' = InUse /\ Free' = Free /\ Back' = Back
  BY DEF InUse, Free, Back
<1>2. header[p] = mState[p]
  BY DEF Agree
<1>3. /\ header'[p] = state /\ mState'[p] = state /\ mPageSeq' = mPageSeq /\ headerSeq' = headerSeq
      /\ \A q \in Sector : q # p => header'[q] = header[q] /\ mState'[q] = mState[q]
  BY OrderTypes DEF AlterPageState
<1>4. \A q \in Sector : HasSeq(header'[q]) <=> HasSeq(header[q])
  BY <1>2, <1>3 DEF HasSeq
<1>5. Agree' /\ FreeUnused' /\ Loaded' /\ Apart'
  BY <1>1, <1>3, <1>4, OrderTypes DEF Agree, FreeUnused, Loaded, Apart, HasSeq
<1>6. Numbers'
  BY <1>3, <1>4 DEF Numbers, HasSeq
<1>7. ActiveLast'
  <2>1. \A q \in Sector : header'[q] = "ACTIVE" => header[q] = "ACTIVE" /\ q # p
    BY <1>3
  <2>2. \A q \in Sector : header[q] = "ACTIVE" => mPageList # <<>> /\ q = Back
    BY DEF ActiveLast
  <2> QED
    BY <1>1, <2>1, <2>2 DEF ActiveLast
<1>8. NextNumber'
  <2>1. mPageList # <<>> => (mState'[Back] = "UNINITIALIZED" => mState[Back] = "UNINITIALIZED")
    BY <1>3, OrderTypes
  <2> QED
    BY <1>1, <1>3, <1>4, <2>1 DEF NextNumber
<1>9. ListSorted'
  <2>1. \A n \in DOMAIN mPageList : mPageList[n] \in Sector
    BY OrderTypes
  <2>2. Numbered' = Numbered
    BY <1>3, <2>1 DEF Numbered
  <2> QED
    BY <1>3, <2>2 DEF ListSorted
<1> QED
  BY <1>5, <1>6, <1>7, <1>8, <1>9

\* Removing an element other than the last one leaves the order of the others.
LEMMA RemoveSorted ==
  ASSUME NEW T, NEW s \in Seq(T), NEW i \in 1 .. Len(s), s[i] # s[Len(s)]
  PROVE  /\ RemoveAt(s, i) \in Seq(T) /\ RemoveAt(s, i) # <<>>
         /\ Last(RemoveAt(s, i)) = Last(s)
         /\ \E at \in [DOMAIN RemoveAt(s, i) -> DOMAIN s] :
              /\ \A n \in DOMAIN RemoveAt(s, i) : RemoveAt(s, i)[n] = s[at[n]]
              /\ \A m, n \in DOMAIN RemoveAt(s, i) : m < n => at[m] < at[n]
<1> DEFINE t == RemoveAt(s, i)
           at == [n \in DOMAIN t |-> IF n < i THEN n ELSE n + 1]
<1>1. Len(s) \in Nat /\ DOMAIN s = 1 .. Len(s) /\ i \in Nat /\ i < Len(s) /\ i >= 1
  OBVIOUS
<1>2. /\ t \in Seq(T) /\ Len(t) = Len(s) - 1 /\ DOMAIN t = 1 .. Len(s) - 1
      /\ \A n \in 1 .. Len(s) - 1 : t[n] = IF n < i THEN s[n] ELSE s[n + 1]
  BY RemoveAtProperty, Zenon
<1> HIDE DEF t
<1>3. at \in [DOMAIN t -> DOMAIN s]
  BY <1>1, <1>2
<1>4. \A n \in DOMAIN t : t[n] = s[at[n]]
  BY <1>1, <1>2
<1>5. \A m, n \in DOMAIN t : m < n => at[m] < at[n]
  BY <1>1, <1>2
<1>6. Len(t) \in DOMAIN t /\ t[Len(t)] = s[Len(s)]
  BY <1>1, <1>2
<1>7. t # <<>> /\ Last(t) = Last(s)
  BY <1>2, <1>6 DEF Last
<1> HIDE DEF at
<1> QED
  BY <1>2, <1>3, <1>4, <1>5, <1>7 DEF t

\* The page that is freed is not the last one.
LEMMA FreePageOrder ==
  ASSUME Inv, PagesListed, OrderInv, FreePage
  PROVE  OrderInv'
<1> USE DEF FreePage, OrderInv
<1> DEFINE e == erasedPage
<1>1. e \in Sector /\ e \in InUse /\ e \notin Free /\ e # Back /\ mPageList # <<>>
  BY OrderTypes DEF Inv, ControlInv, MoveInv, PagesListed, Apart
<1>2. /\ ErasePage(e) /\ UNCHANGED <<mSeqNumber, loadIndex>>
      /\ mPageList' = Without(mPageList, e) /\ mFreePageList' = Append(mFreePageList, e)
      /\ pc = "erasePage" /\ pc' \in {"check", "rewrite"}
  OBVIOUS
<1> HIDE DEF e, FreePage
<1>3. /\ header'[e] = "UNINITIALIZED" /\ mState'[e] = "UNINITIALIZED" /\ mPageSeq' = mPageSeq
      /\ \A q \in Sector : q # e =>
           header'[q] = header[q] /\ headerSeq'[q] = headerSeq[q] /\ mState'[q] = mState[q]
      /\ Agree' /\ Numbers'
  BY <1>1, <1>2, Erased
<1>4. PICK i \in 1 .. Len(mPageList) :
        mPageList[i] = e /\ mPageList' = RemoveAt(mPageList, i)
  BY <1>1, <1>2, OrderTypes, WithoutProperty, ListElements
<1>5. /\ mPageList' # <<>> /\ Last(mPageList') = Last(mPageList)
      /\ \E at \in [DOMAIN mPageList' -> DOMAIN mPageList] :
           /\ \A n \in DOMAIN mPageList' : mPageList'[n] = mPageList[at[n]]
           /\ \A m, n \in DOMAIN mPageList' : m < n => at[m] < at[n]
  <2>1. mPageList[i] # mPageList[Len(mPageList)] /\ mPageList \in Seq(Sector)
    BY <1>1, <1>4, OrderTypes
  <2> DEFINE s == mPageList
             t == RemoveAt(s, i)
  <2>2. /\ t # <<>> /\ Last(t) = Last(s)
        /\ \E at \in [DOMAIN t -> DOMAIN s] :
             /\ \A n \in DOMAIN t : t[n] = s[at[n]]
             /\ \A m, n \in DOMAIN t : m < n => at[m] < at[n]
    <3> HIDE DEF s
    <3> QED
      BY <2>1, RemoveSorted DEF s
  <2>3. mPageList' = t
    BY <1>4
  <2> HIDE DEF t
  <2> QED
    BY <2>2, <2>3
<1>6. InUse' = InUse \ {e} /\ IsInjective(mPageList')
  BY <1>4, OrderTypes, RemoveOnce, ListElements DEF PagesListed
<1>7. Free' = Free \cup {e}
  BY <1>1, <1>2, OrderTypes, AppendElements, ListElements
<1>8. Back' = Back
  BY <1>5 DEF Back
<1>9. FreeUnused' /\ Loaded' /\ Apart'
  BY <1>2, <1>3, <1>7, OrderTypes DEF FreeUnused, Loaded, Apart, HasSeq
<1>10. ActiveLast'
  BY <1>1, <1>2, <1>3, <1>5, <1>8 DEF ActiveLast
<1>11. NextNumber'
  <2>1. Back \in Sector
    BY <1>1, OrderTypes
  <2> QED
    BY <1>1, <1>2, <1>3, <1>8, <2>1 DEF NextNumber, HasSeq
<1>12. ListSorted'
  <2>1. \A n \in DOMAIN mPageList' : mPageList'[n] \in Sector /\ mPageList'[n] # e
    BY <1>6, OrderTypes DEF InUse
  <2>2. PICK at \in [DOMAIN mPageList' -> DOMAIN mPageList] :
          /\ \A n \in DOMAIN mPageList' : mPageList'[n] = mPageList[at[n]]
          /\ \A m, n \in DOMAIN mPageList' : m < n => at[m] < at[n]
    BY <1>5
  <2>3. \A n \in Numbered' : at[n] \in Numbered /\ n \in DOMAIN mPageList'
    BY <1>3, <2>1, <2>2 DEF Numbered
  <2> QED
    BY <1>2, <1>3, <2>2, <2>3 DEF ListSorted
<1> QED
  BY <1>3, <1>9, <1>10, <1>11, <1>12
-----------------------------------------------------------------------------
(* Restarts and flash errors. *)

\* After a restart nothing is loaded, and the numbers on flash are what they were.
LEMMA HalfDoneNumbers ==
  ASSUME Inv, OrderInv, UNCHANGED flashVars \/ HalfDone
  PROVE  /\ \A p \in Sector : /\ header'[p] \in {header[p], "CORRUPT"}
                              /\ header'[p] # "CORRUPT" => headerSeq'[p] = headerSeq[p]
         /\ Numbers'
<1> USE DEF HalfDone
<1>1. \A p \in Sector : /\ header'[p] \in {header[p], "CORRUPT"}
                        /\ header'[p] # "CORRUPT" => headerSeq'[p] = headerSeq[p]
  <2>1. CASE UNCHANGED flashVars
    BY <2>1 DEF flashVars
  <2>2. ASSUME NEW q \in EraseTarget, SectorErased(q, "CORRUPT")
        PROVE  \A p \in Sector : /\ header'[p] \in {header[p], "CORRUPT"}
                                 /\ header'[p] # "CORRUPT" => headerSeq'[p] = headerSeq[p]
    BY <2>2, OrderTypes DEF SectorErased
  <2>3. ASSUME NEW q \in HeaderTarget, header' = [header EXCEPT ![q] = "CORRUPT"],
               UNCHANGED headerSeq
        PROVE  \A p \in Sector : /\ header'[p] \in {header[p], "CORRUPT"}
                                 /\ header'[p] # "CORRUPT" => headerSeq'[p] = headerSeq[p]
    BY <2>3, OrderTypes
  <2>4. CASE UNCHANGED <<header, headerSeq>>
    BY <2>4
  <2> QED
    BY <2>1, <2>2, <2>3, <2>4
<1>2. Numbers'
  BY <1>1 DEF OrderInv, Numbers, HasSeq
<1> QED
  BY <1>1, <1>2

LEMMA StartLoadingOrder ==
  ASSUME Inv, OrderInv, UNCHANGED flashVars \/ HalfDone, StartLoading
  PROVE  OrderInv'
<1> USE DEF StartLoading, NewPageObjects
<1>1. mPageList' = <<>> /\ mFreePageList' = <<>> /\ pc' = "load" /\ erasedPage' = NoPage
  OBVIOUS
<1>2. Numbers'
  BY HalfDoneNumbers
<1>3. Agree'
  BY DEF Agree
<1>4. InUse' = {} /\ Free' = {} /\ Numbered' = {}
  BY <1>1 DEF InUse, Free, Numbered
<1> QED
  BY <1>1, <1>2, <1>3, <1>4 DEF OrderInv, FreeUnused, Loaded, ActiveLast, NextNumber, Apart, ListSorted

\* There is one sector at most that a flash operation is about to change.
LEMMA OneTarget ==
  ASSUME Inv,
         NEW p \in EraseTarget \cup HeaderTarget \cup DataTarget \cup WordTarget,
         NEW q \in EraseTarget \cup HeaderTarget
  PROVE  p = q
BY DEF EraseTarget, HeaderTarget, DataTarget, WordTarget

\* A flash error outside load() takes a page out of the order.
LEMMA FlashErrorOrder ==
  ASSUME ~FaultsWhileLoading, Inv, OrderInv, FlashError
  PROVE  OrderInv'
<1> USE DEF FlashError
<1>1. PICK p \in EraseTarget \cup HeaderTarget \cup DataTarget \cup WordTarget :
        mState' = [mState EXCEPT ![p] = "INVALID"]
  OBVIOUS
<1>2. p \in Sector
  BY TargetSectors
<1>3. ~Booting /\ mStorageState = "ACTIVE"
  BY DEF Inv, TypeOK, ManagerTypeOK
<1>4. pc \notin LoadPC /\ pc' = "return"
  <2>1. pc \in {"erasePage", "recover", "activate", "init", "copyInit", "data", "copyData", "state",
                "copyState", "markFull", "freeing", "repair", "dup", "erase", "clear"}
    BY <1>1 DEF EraseTarget, HeaderTarget, DataTarget, WordTarget
  <2>2. pc \notin LoadPC
    BY <1>3, <2>1 DEF Inv, ControlInv, PhaseInv
  <2> QED
    BY <1>3, <2>1, <2>2 DEF Fail, Respond
<1>5. \A q \in Sector : /\ header'[q] \in {header[q], "CORRUPT"}
                        /\ header'[q] # "CORRUPT" => headerSeq'[q] = headerSeq[q]
  BY HalfDoneNumbers
<1>6. \A q \in Sector : q # p => header'[q] = header[q]
  BY OneTarget, OrderTypes DEF HalfDone, SectorErased, flashVars
<1>7. UNCHANGED <<mPageList, mFreePageList, mSeqNumber, mPageSeq, loadIndex>>
  BY DEF managerVars
<1>8. InUse' = InUse /\ Free' = Free /\ Back' = Back
  BY <1>7 DEF InUse, Free, Back
<1>9. \A q \in Sector : mState'[q] = IF q = p THEN "INVALID" ELSE mState[q]
  BY <1>1, <1>2, OrderTypes
<1> HIDE DEF FlashError
<1>10. Numbers'
  BY HalfDoneNumbers DEF FlashError
<1>11. Agree' /\ FreeUnused' /\ Loaded' /\ Apart'
  BY <1>4, <1>5, <1>6, <1>8, <1>9, OrderTypes DEF OrderInv, Agree, FreeUnused, Loaded, Apart, HasSeq
<1>12. ActiveLast'
  BY <1>4, <1>5, <1>7, <1>8 DEF OrderInv, ActiveLast
<1>13. NextNumber'
  <2>1. \A q \in Sector : HasSeq(header'[q]) =>
          HasSeq(header[q]) /\ headerSeq'[q] = headerSeq[q]
    BY <1>5 DEF HasSeq
  <2>2. mPageList # <<>> => (mState'[Back] = "UNINITIALIZED" => mState[Back] = "UNINITIALIZED")
    BY <1>9, OrderTypes
  <2> QED
    BY <1>4, <1>7, <1>8, <2>1, <2>2 DEF OrderInv, NextNumber
<1>14. ListSorted'
  <2>1. Numbered' \subseteq Numbered
    BY <1>7, <1>9, OrderTypes DEF Numbered
  <2> QED
    BY <1>4, <1>7, <2>1 DEF OrderInv, ListSorted
<1> QED
  BY <1>10, <1>11, <1>12, <1>13, <1>14 DEF OrderInv

-----------------------------------------------------------------------------
(* The theorems on the order. *)

\* The page manager keeps the order.
LEMMA ManageOrder ==
  ASSUME Inv, PagesListed, OrderInv, Manage
  PROVE  OrderInv'
<1> USE DEF managerVars, localVars, pageVars
<1>1. CASE LoadSector \/ InsertPage \/ Settle \/ RecoverFreeing
  BY <1>1, LoadSectorOrder, InsertPageOrder, SettleOrder, RecoverFreeingOrder
<1>2. CASE RepairHalfWritten \/ RepairDuplicate \/ RepairDone \/ EraseOldVersion
           \/ NothingFreeing \/ CheckFreePages
  BY <1>2, SameOrder DEF RepairHalfWritten, RepairDuplicate, RepairDone, EraseOldVersion,
     NothingFreeing, CheckFreePages, ClearHalfWritten, EraseEntry
<1>3. CASE EraseCorrupt \/ ActivatePage \/ FreePage
  BY <1>3, EraseCorruptOrder, ActivatePageOrder, FreePageOrder
<1>4. CASE CopyInit
  BY <1>4, InitializeOrder DEF CopyInit
<1>5. CASE MarkFreeing
  <2>1. erasedPage \in Sector /\ erasedPage \notin Free
    BY <1>5, OrderTypes DEF MarkFreeing, Inv, ControlInv, MoveInv, PagesListed
  <2>2. CASE mState[erasedPage] \in {"FULL", "ACTIVE"}
    BY <1>5, <2>1, <2>2, AlterPageStateOrder DEF MarkFreeing
  <2>3. CASE mState[erasedPage] \notin {"FULL", "ACTIVE"}
    BY <1>5, <2>3, SameOrder DEF MarkFreeing, Respond
  <2> QED
    BY <2>2, <2>3
<1>6. CASE RequestNewPage \/ ActivateNothing \/ StartCopy \/ CopyData \/ CopyState
  BY <1>6, SameOrder DEF RequestNewPage, ActivateNothing, StartCopy, CopyData, CopyState,
     WriteEntryData, WriteEntryState, objectVars, Respond, Fail
<1> QED
  BY <1>1, <1>2, <1>3, <1>4, <1>5, <1>6 DEF Manage, Load, Move

\* So do requests.
LEMMA ServeOrder ==
  ASSUME Inv, PagesListed, OrderInv, Begin \/ Serve
  PROVE  OrderInv'
<1> USE DEF managerVars, localVars, pageVars, Respond
<1>1. CASE InitPage
  BY <1>1, InitializeOrder DEF InitPage
<1>2. CASE MarkFull
  <2>1. Back \in Sector /\ Back \notin Free
    BY <1>2, OrderTypes DEF MarkFull, Inv, ControlInv, MoveInv, PagesListed
  <2>2. CASE mState[Back] = "ACTIVE"
    BY <1>2, <2>1, <2>2, AlterPageStateOrder DEF MarkFull
  <2>3. CASE mState[Back] # "ACTIVE"
    BY <1>2, <2>3, SameOrder DEF MarkFull
  <2> QED
    BY <2>2, <2>3
<1>3. CASE TryWrite
  <2>1. pc \in {"write", "rewrite"} /\ mPageList # <<>> /\ Back \in Sector
    BY <1>3, OrderTypes DEF TryWrite, Inv, ControlInv, MoveInv
  <2>2. mState[Back] = "FULL" => \A p \in Sector : header[p] # "ACTIVE"
    BY <2>1 DEF OrderInv, ActiveLast, Agree
  <2> QED
    BY <1>3, <2>1, <2>2, SameOrder DEF TryWrite
<1>4. CASE Begin \/ FindForSet \/ FindForErase \/ WriteData \/ WriteState
  BY <1>4, SameOrder DEF Begin, FindForSet, FindForErase, WriteData, WriteState, WriteEntryData,
     WriteEntryState, objectVars
<1>5. CASE EraseFound \/ EraseOfNamespace \/ Return
  BY <1>5, SameOrder DEF EraseFound, EraseOfNamespace, Return, EraseEntry
<1> QED
  BY <1>1, <1>2, <1>3, <1>4, <1>5 DEF Serve

(***************************************************************************)
(* When no operation of load() fails, the numbers on flash, the list and   *)
(* the one ACTIVE page stay in step: in every move and every recovery.     *)
(***************************************************************************)
THEOREM OrderHolds ==
  ASSUME ~FaultsWhileLoading
  PROVE  Spec => []OrderInv
<1>1. Init => OrderInv
  BY DEF Init, OrderInv, Agree, FreeUnused, Numbers, Loaded, ActiveLast, NextNumber, Apart, ListSorted,
     Numbered, InUse, Free, HasSeq
<1>2. Inv /\ PagesListed /\ OrderInv /\ [Next]_vars => OrderInv'
  <2> SUFFICES ASSUME Inv, PagesListed, OrderInv, [Next]_vars PROVE OrderInv'
    OBVIOUS
  <2>1. CASE Manage
    BY <2>1, ManageOrder
  <2>2. CASE Begin \/ Serve
    BY <2>2, ServeOrder
  <2>3. CASE Crash \/ Reinitialize
    BY <2>3, StartLoadingOrder DEF Crash, Reinitialize
  <2>4. CASE FlashError
    BY <2>4, FlashErrorOrder
  <2>5. CASE UNCHANGED vars
    BY <2>5, SameOrder DEF vars, pageVars, managerVars, localVars
  <2> QED
    BY <2>1, <2>2, <2>3, <2>4, <2>5 DEF Next
<1> QED
  BY <1>1, <1>2, InvHolds, ListsCorrect, PTL DEF Spec

(***************************************************************************)
(* The list is in the order of the sequence numbers.                       *)
(***************************************************************************)
THEOREM ListStaysSorted ==
  ASSUME ~FaultsWhileLoading
  PROVE  Spec => []ListSorted
<1>1. OrderInv => ListSorted
  BY DEF OrderInv
<1> QED
  BY <1>1, OrderHolds, PTL

(***************************************************************************)
(* There are never two ACTIVE pages: not while load() is under way either, *)
(* when the numbers tell them apart, nor after a request that failed.      *)
(***************************************************************************)
THEOREM OneActive ==
  ASSUME ~FaultsWhileLoading
  PROVE  Spec => []OneActivePage
<1>1. Inv /\ OrderInv => OneActivePage
  <2> SUFFICES ASSUME Inv, OrderInv, NEW p \in Sector, NEW q \in Sector,
                      header[p] = "ACTIVE", header[q] = "ACTIVE", p # q
               PROVE  FALSE
    BY DEF OneActivePage
  <2>1. headerSeq[p] < headerSeq[q] /\ headerSeq[q] < headerSeq[p]
    BY DEF OrderInv, Numbers, HasSeq
  <2>2. headerSeq[p] \in Nat /\ headerSeq[q] \in Nat
    BY OrderTypes
  <2> QED
    BY <2>1, <2>2
<1> QED
  BY <1>1, InvHolds, OrderHolds, PTL
-----------------------------------------------------------------------------
(* The page kept free. *)

(***************************************************************************)
(* There is a free page wherever a request may need one or may end well,   *)
(* and two where one is about to be used and none to be freed.             *)
(***************************************************************************)
Reserve ==
  /\ pc \in (StoragePC \ {"return", "halted"}) \/ (pc = "return" /\ ret \notin Failure) =>
       mFreePageList # <<>>
  /\ pc = "activate" /\ erasedPage # NoPage /\ ~Booting => mFreePageList # <<>>
  /\ pc = "activate" /\ erasedPage = NoPage => Len(mFreePageList) >= 2

\* Steps that leave the list of free pages alone.
LEMMA SameReserve ==
  ASSUME Inv, Reserve, mFreePageList' = mFreePageList, mStorageState' = mStorageState,
         pc' \in StoragePC \ {"return", "halted"} \/ (pc' = "return" /\ ret' \notin Failure) =>
           \/ pc \in StoragePC \ {"return", "halted"}
           \/ pc = "return" /\ ret \notin Failure
           \/ mFreePageList # <<>>,
         pc' = "activate" => pc = "activate" /\ erasedPage' = erasedPage
  PROVE  Reserve'
BY DEF Reserve

\* A partition without pages in use has two sectors at least that are free.
LEMMA SettleReserve ==
  ASSUME Inv, PagesListed, Reserve, Settle
  PROVE  Reserve'
<1> USE DEF Settle
<1>1. mFreePageList' = mFreePageList /\ mFreePageList \in Seq(Sector) /\ Len(mFreePageList) \in Nat
  BY OrderTypes
<1>2. CASE mPageList = <<>>
  <2>1. 0 \in Sector /\ 1 \in Sector /\ 0 < PageCount /\ 1 < PageCount
    BY PageCountAssumption DEF Sector
  <2>2. loadIndex = PageCount /\ InUse = {}
    BY <1>2 DEF Inv, ControlInv, PhaseInv, InUse
  <2>3. 0 \in Free /\ 1 \in Free
    BY <2>1, <2>2 DEF PagesListed
  <2>4. PICK m, n \in DOMAIN mFreePageList : mFreePageList[m] = 0 /\ mFreePageList[n] = 1
    BY <2>3 DEF Free
  <2>5. m # n /\ m \in 1 .. Len(mFreePageList) /\ n \in 1 .. Len(mFreePageList)
    BY <1>1, <2>4
  <2>6. Len(mFreePageList) >= 2
    BY <1>1, <2>5
  <2> QED
    BY <1>1, <1>2, <2>6 DEF Reserve
<1>3. CASE mPageList # <<>>
  BY <1>3 DEF Reserve
<1> QED
  BY <1>2, <1>3

\* load() gives a page back before it takes one.
LEMMA RecoverFreeingReserve ==
  ASSUME Inv, Reserve, RecoverFreeing
  PROVE  Reserve'
<1> USE DEF RecoverFreeing
<1>1. erasedPage' \in Sector
  <2>1. FreeingPages \in SUBSET Nat /\ FreeingPages \in SUBSET DOMAIN mPageList
    BY OrderTypes DEF FreeingPages
  <2>2. Min(FreeingPages) \in DOMAIN mPageList
    BY <2>1, MinProperty
  <2> QED
    BY <2>2, OrderTypes
<1>2. mStorageState' = "INVALID" /\ pc' = "activate" /\ erasedPage' # NoPage
  BY <1>1, SectorNat DEF Inv, ControlInv, PhaseInv
<1> QED
  BY <1>2 DEF Reserve

\* Without a page to be freed, one of two free pages is left.
LEMMA ActivatePageReserve ==
  ASSUME Inv, Reserve, ActivatePage
  PROVE  Reserve'
<1> USE DEF ActivatePage
<1>1. mFreePageList' = Tail(mFreePageList) /\ mFreePageList \in Seq(Sector) /\ mFreePageList # <<>>
  BY OrderTypes
<1>2. CASE erasedPage = NoPage
  <2>1. Len(mFreePageList) >= 2
    BY <1>2 DEF Reserve
  <2>2. Len(mFreePageList') >= 1
    BY <1>1, <2>1
  <2>3. mFreePageList' # <<>>
    BY <2>2
  <2>4. pc' \in {"idle", "rewrite"}
    BY <1>2
  <2> QED
    BY <2>3, <2>4 DEF Reserve
<1>3. CASE erasedPage # NoPage
  <2>1. pc' \in {"copy", "freeing"}
    BY <1>3
  <2> QED
    BY <2>1 DEF Reserve
<1> QED
  BY <1>2, <1>3

\* A page that was freed is a free page.
LEMMA FreePageReserve ==
  ASSUME Inv, Reserve, FreePage
  PROVE  Reserve'
<1> USE DEF FreePage
<1>1. mFreePageList' = Append(mFreePageList, erasedPage) /\ mFreePageList \in Seq(Sector)
  BY OrderTypes
<1>2. mFreePageList' # <<>>
  BY <1>1
<1>3. pc' \in {"check", "rewrite"}
  OBVIOUS
<1> QED
  BY <1>2, <1>3 DEF Reserve

\* requestNewPage() uses the last free page only if it can free another.
LEMMA RequestNewPageReserve ==
  ASSUME Inv, Reserve, RequestNewPage
  PROVE  Reserve'
<1> USE DEF RequestNewPage, Respond, managerVars
<1>1. mFreePageList' = mFreePageList /\ mFreePageList # <<>> /\ mFreePageList \in Seq(Sector)
      /\ Len(mFreePageList) \in Nat /\ mStorageState' = mStorageState
  BY OrderTypes DEF Reserve
<1>2. CASE Len(mFreePageList) >= 2
  BY <1>1, <1>2 DEF Reserve
<1>3. CASE Len(mFreePageList) = 1 /\ MaxUnusedItems = {}
  BY <1>1, <1>3 DEF Reserve
<1>4. CASE Len(mFreePageList) = 1 /\ MaxUnusedItems # {}
  <2>1. MaxUnusedItems \in SUBSET DOMAIN mPageList /\ DOMAIN mPageList \in SUBSET Nat
    BY OrderTypes DEF MaxUnusedItems
  <2>2. mPageList[Min(MaxUnusedItems)] \in Sector
    <3>1. Min(MaxUnusedItems) \in DOMAIN mPageList
      BY <1>4, <2>1, MinProperty
    <3> QED
      BY <3>1, OrderTypes
  <2>3. erasedPage' # NoPage /\ pc' = "activate"
    BY <1>4, <2>2, SectorNat
  <2> QED
    BY <1>1, <2>3 DEF Reserve
<1> QED
  BY <1>1, <1>2, <1>3, <1>4

\* Every step keeps the reserve, unless the application goes on after a failure.
LEMMA NextReserve ==
  ASSUME ~ContinueAfterFailure, Inv, PagesListed, Reserve, [Next]_vars
  PROVE  Reserve'
<1> USE DEF managerVars, localVars, Respond, Failure
<1>1. CASE Settle \/ RecoverFreeing \/ ActivatePage \/ FreePage \/ RequestNewPage
  BY <1>1, SettleReserve, RecoverFreeingReserve, ActivatePageReserve, FreePageReserve,
     RequestNewPageReserve
<1>2. CASE InsertPage \/ LoadSector \/ RepairHalfWritten \/ RepairDuplicate \/ RepairDone
  BY <1>2 DEF InsertPage, LoadSector, RepairHalfWritten, RepairDuplicate, RepairDone, Reserve
<1>3. CASE EraseOldVersion \/ NothingFreeing \/ StartCopy \/ CopyInit \/ CopyData \/ CopyState
  BY <1>3 DEF EraseOldVersion, NothingFreeing, StartCopy, CopyInit, CopyData, CopyState, Reserve
<1>4. CASE CheckFreePages
  BY <1>4 DEF CheckFreePages, Reserve
<1>5. CASE EraseCorrupt \/ MarkFreeing
  BY <1>5, SameReserve DEF EraseCorrupt, MarkFreeing
<1>6. CASE ActivateNothing
  <2>1. mFreePageList = <<>> /\ pc = "activate" /\ Len(mFreePageList) = 0
    BY <1>6 DEF ActivateNothing
  <2>2. Booting
    BY <2>1 DEF Reserve
  <2>3. pc' = "failed"
    BY <1>6, <2>2 DEF ActivateNothing, Fail
  <2> QED
    BY <2>3 DEF Reserve
<1>7. CASE Begin \/ Serve
  <2>1. CASE Begin \/ FindForSet \/ FindForErase \/ TryWrite \/ InitPage \/ WriteData \/ WriteState
    BY <1>7, <2>1, SameReserve DEF Begin, FindForSet, FindForErase, TryWrite, InitPage, WriteData,
       WriteState
  <2>2. CASE MarkFull \/ EraseFound \/ EraseOfNamespace \/ Return
    BY <1>7, <2>2, SameReserve DEF MarkFull, EraseFound, EraseOfNamespace, Return
  <2> QED
    BY <1>7, <2>1, <2>2 DEF Serve
<1>8. CASE Crash \/ Reinitialize
  BY <1>8 DEF Crash, Reinitialize, StartLoading, Reserve
<1>9. CASE FlashError
  <2> USE DEF FlashError
  <2>1. pc \in {"erasePage", "recover", "activate", "init", "copyInit", "data", "copyData", "state",
                "copyState", "markFull", "freeing", "repair", "dup", "erase", "clear"}
    BY <1>9 DEF EraseTarget, HeaderTarget, DataTarget, WordTarget
  <2>2. pc' \in {"insert", "dup", "failed"} \/ (pc' = "return" /\ ret' \in Failure)
    BY <1>9, <2>1 DEF Fail
  <2> QED
    BY <2>2 DEF Reserve
<1>10. CASE UNCHANGED vars
  BY <1>10, SameReserve DEF vars
<1> QED
  BY <1>1, <1>2, <1>3, <1>4, <1>5, <1>6, <1>7, <1>8, <1>9, <1>10 DEF Next, Manage, Load, Move

(***************************************************************************)
(* The reserve is there as long as the application initialises again after *)
(* a failure.                                                              *)
(***************************************************************************)
THEOREM ReserveHolds ==
  ASSUME ~ContinueAfterFailure
  PROVE  Spec => []Reserve
<1>1. Init => Reserve
  BY DEF Init, Reserve
<1>2. Inv /\ PagesListed /\ Reserve /\ [Next]_vars => Reserve'
  BY NextReserve
<1> QED
  BY <1>1, <1>2, InvHolds, ListsCorrect, PTL DEF Spec

(***************************************************************************)
(* As long as the application initialises again after a failure, a page is *)
(* kept free for the next move, whatever fails.                            *)
(***************************************************************************)
THEOREM FreePageStays ==
  ASSUME ~ContinueAfterFailure
  PROVE  Spec => []FreePageKept
<1>1. Reserve => FreePageKept
  BY DEF Reserve, FreePageKept
<1> QED
  BY <1>1, ReserveHolds, PTL
=============================================================================
