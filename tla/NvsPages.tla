------------------------------- MODULE NvsPages -------------------------------
(***************************************************************************)
(* The pages of an NVS partition: what one flash sector holds, what the    *)
(* Page object (src/src/nvs_page.cpp) keeps about it in RAM, and the       *)
(* page-level operations, each as the change of state one flash operation  *)
(* makes.  Items occupy one entry (primitive types); a key stands for the  *)
(* pair <namespace, key name> of the item header.                          *)
(***************************************************************************)
EXTENDS Integers, FiniteSets, FiniteSetsExt

CONSTANTS
  PageCount,    \* sectors of the partition
  ENTRY_COUNT,  \* entries of a page (126 in the code)
  Key,          \* <namespace, key> pairs the application uses
  Type,         \* primitive item types
  ANY,          \* ItemType::ANY: an item of whatever type is looked for
  Value,        \* values
  NsOf,         \* namespace of each key
  Hash,         \* the 24-bit hash of each key: the datatype is not hashed
  NoValue,      \* "no such item"
  Blank,        \* data of an entry: all bytes 0xff
  Garbage       \* data of an entry: written in part, or discarded

Sector == 0 .. PageCount - 1
Index  == 0 .. ENTRY_COUNT - 1
Item   == [key : Key, type : Type, val : Value]

ASSUME PageCountAssumption  == PageCount \in Nat /\ PageCount >= 2
ASSUME EntryCountAssumption == ENTRY_COUNT \in Nat /\ ENTRY_COUNT >= 1
ASSUME KeyAssumption        == DOMAIN NsOf = Key /\ DOMAIN Hash = Key
ASSUME DataAssumption       == Blank # Garbage /\ {Blank, Garbage} \cap Item = {}
ASSUME NoValueAssumption    == NoValue \notin Value /\ ANY \notin Type

(***************************************************************************)
(* INVALID_ENTRY is UINT32_MAX in the code: larger than any index.         *)
(***************************************************************************)
INVALID_ENTRY == ENTRY_COUNT + 1

(***************************************************************************)
(* What a sector's header reads as (CORRUPT stands for a header with a     *)
(* wrong CRC, or a blank header over data), and the states of a Page       *)
(* object.                                                                 *)
(***************************************************************************)
HeaderState == {"UNINITIALIZED", "ACTIVE", "FULL", "FREEING", "CORRUPT"}
PageState   == HeaderState \cup {"INVALID"}
EntryState  == {"EMPTY", "WRITTEN", "ERASED"}

VARIABLES
  \* flash: what survives a restart
  header,           \* header[p]: state word of sector p
  headerSeq,        \* headerSeq[p]: sequence number in the header
  entryTable,       \* entryTable[p][i]: entry state bitmap
  entryData,        \* entryData[p][i]: the 32 bytes of entry i
  \* RAM: members of the Page objects
  mState,
  mPageSeq,         \* Page::mSeqNumber
  mNextFreeEntry,
  mFirstUsedEntry,
  mUsedEntryCount

flashVars == <<header, headerSeq, entryTable, entryData>>
objectVars == <<mState, mPageSeq, mNextFreeEntry, mFirstUsedEntry, mUsedEntryCount>>
pageVars == <<header, headerSeq, entryTable, entryData,
              mState, mPageSeq, mNextFreeEntry, mFirstUsedEntry, mUsedEntryCount>>

PageTypeOK ==
  /\ header \in [Sector -> HeaderState]
  /\ headerSeq \in [Sector -> Nat]
  /\ entryTable \in [Sector -> [Index -> EntryState]]
  /\ entryData \in [Sector -> [Index -> Item \cup {Blank, Garbage}]]
  /\ mState \in [Sector -> PageState]
  /\ mPageSeq \in [Sector -> Nat]
  /\ mNextFreeEntry \in [Sector -> Nat]
  /\ mFirstUsedEntry \in [Sector -> Index \cup {INVALID_ENTRY}]
  /\ mUsedEntryCount \in [Sector -> Int]

-----------------------------------------------------------------------------
(* Reading a page. *)

Written(p) == {i \in Index : entryTable[p][i] = "WRITTEN"}

LeastOr(S, default) == IF S = {} THEN default ELSE Min(S)

\* getSeqNumber() succeeds: the page belongs in the list of pages.
HasSeq(state) == state \notin {"UNINITIALIZED", "INVALID", "CORRUPT"}

\* findItem() scans the entries from mFirstUsedEntry to mNextFreeEntry.
Scanned(p) == {i \in Written(p) : mFirstUsedEntry[p] <= i /\ i < mNextFreeEntry[p]}

(***************************************************************************)
(* findItem(ns, datatype, key): the first entry whose key matches, to      *)
(* which the hash list leads.  If its type is another one than that looked *)
(* for the result is TYPE_MISMATCH, even when a later entry would match.   *)
(* INVALID_ENTRY stands for every result other than ESP_OK.                *)
(***************************************************************************)
FindOnPage(p, k, t) ==
  LET match == {i \in Scanned(p) : entryData[p][i].key = k}
  IN  IF HasSeq(mState[p]) /\ match # {} /\ t \in {ANY, entryData[p][Min(match)].type}
      THEN Min(match) ELSE INVALID_ENTRY

\* findItem(ns, ANY, nullptr): the first item of a namespace.
FindNamespace(p, ns) ==
  IF HasSeq(mState[p])
  THEN LeastOr({i \in Scanned(p) : NsOf[entryData[p][i].key] = ns}, INVALID_ENTRY)
  ELSE INVALID_ENTRY

\* writeItem() would answer ESP_ERR_NVS_PAGE_FULL on an ACTIVE page.
NoRoom(p) == mNextFreeEntry[p] + 1 > ENTRY_COUNT

-----------------------------------------------------------------------------
(* Changing a page. *)

\* The members of a default-constructed Page: PageManager::load allocates them.
\* (mSeqNumber is UINT32_MAX in the code; it is set before it is ever used.)
NewPageObjects ==
  /\ mState' = [p \in Sector |-> "INVALID"]
  /\ mPageSeq' = [p \in Sector |-> 0]
  /\ mNextFreeEntry' = [p \in Sector |-> INVALID_ENTRY]
  /\ mFirstUsedEntry' = [p \in Sector |-> INVALID_ENTRY]
  /\ mUsedEntryCount' = [p \in Sector |-> 0]

(***************************************************************************)
(* Page::load and the table scan of mLoadEntryTable (no flash is written). *)
(* The repairs that follow on an ACTIVE page are ClearHalfWritten and the  *)
(* erasing of OlderEntries.                                                *)
(***************************************************************************)
LoadPage(p) ==
  /\ mState' = [mState EXCEPT ![p] = header[p]]
  /\ IF HasSeq(header[p])
     THEN /\ mPageSeq' = [mPageSeq EXCEPT ![p] = headerSeq[p]]
          /\ mFirstUsedEntry' =
               [mFirstUsedEntry EXCEPT ![p] = LeastOr(Written(p), INVALID_ENTRY)]
          /\ mUsedEntryCount' = [mUsedEntryCount EXCEPT ![p] = Cardinality(Written(p))]
          /\ mNextFreeEntry' = [mNextFreeEntry EXCEPT ![p] =
               IF header[p] = "ACTIVE"
               THEN LeastOr({i \in Index : entryTable[p][i] = "EMPTY"}, INVALID_ENTRY)
               ELSE INVALID_ENTRY]
     ELSE UNCHANGED <<mPageSeq, mFirstUsedEntry, mUsedEntryCount, mNextFreeEntry>>
  /\ UNCHANGED flashVars

\* Mutant: only the entry table is trusted.
HalfWrittenIgnored(p) == FALSE

\* mLoadEntryTable: data was written at mNextFreeEntry but its state was not.
HalfWritten(p) ==
  /\ mNextFreeEntry[p] \in Index
  /\ entryData[p][mNextFreeEntry[p]] # Blank

\* Mutant: the next free entry stays where it is.
ClearHalfWrittenInPlace(p) ==
  /\ entryTable' = [entryTable EXCEPT ![p][mNextFreeEntry[p]] = "ERASED"]
  /\ entryData' = [entryData EXCEPT ![p][mNextFreeEntry[p]] = Garbage]
  /\ UNCHANGED <<header, headerSeq>>
  /\ UNCHANGED objectVars

ClearHalfWritten(p) ==
  /\ entryTable' = [entryTable EXCEPT ![p][mNextFreeEntry[p]] = "ERASED"]
  /\ entryData' = [entryData EXCEPT ![p][mNextFreeEntry[p]] = Garbage]
  /\ mNextFreeEntry' = [mNextFreeEntry EXCEPT ![p] = @ + 1]
  /\ UNCHANGED <<header, headerSeq, mState, mPageSeq, mFirstUsedEntry, mUsedEntryCount>>

(***************************************************************************)
(* mLoadEntryTable goes through the items of an ACTIVE page and takes an   *)
(* earlier entry with the same hash for an older version of the item,      *)
(* which it erases.                                                        *)
(***************************************************************************)
OlderEntriesKept(p, j) == {}    \* Mutant: no duplicate is looked for.

OlderEntries(p, j) ==
  {i \in Written(p) : i < j /\ Hash[entryData[p][i].key] = Hash[entryData[p][j].key]}

Superseding(p) == {j \in Written(p) : j < mNextFreeEntry[p] /\ OlderEntries(p, j) # {}}

\* Page::initialize: the header of an ACTIVE page.
Initialize(p) ==
  /\ header' = [header EXCEPT ![p] = "ACTIVE"]
  /\ headerSeq' = [headerSeq EXCEPT ![p] = mPageSeq[p]]
  /\ mState' = [mState EXCEPT ![p] = "ACTIVE"]
  /\ mNextFreeEntry' = [mNextFreeEntry EXCEPT ![p] = 0]
  /\ UNCHANGED <<entryTable, entryData, mPageSeq, mFirstUsedEntry, mUsedEntryCount>>

\* writeEntry, first flash operation: the 32 bytes of the entry.
WriteEntryData(p, item) ==
  /\ entryData' = [entryData EXCEPT ![p][mNextFreeEntry[p]] = item]
  /\ UNCHANGED <<header, headerSeq, entryTable>>
  /\ UNCHANGED objectVars

\* writeEntry, second flash operation (alterEntryState) and the members.
WriteEntryState(p) ==
  /\ entryTable' = [entryTable EXCEPT ![p][mNextFreeEntry[p]] = "WRITTEN"]
  /\ mFirstUsedEntry' = [mFirstUsedEntry EXCEPT ![p] =
       IF @ = INVALID_ENTRY THEN mNextFreeEntry[p] ELSE @]
  /\ mUsedEntryCount' = [mUsedEntryCount EXCEPT ![p] = @ + 1]
  /\ mNextFreeEntry' = [mNextFreeEntry EXCEPT ![p] = @ + 1]
  /\ UNCHANGED <<header, headerSeq, entryData, mState, mPageSeq>>

\* Mutants: the end of the page is taken for "no entry"; the entry is kept.
NextUsedEntryOrEnd(p, i) ==
  LeastOr({j \in Written(p) : i < j /\ j < mNextFreeEntry[p]}, ENTRY_COUNT)

NextUsedEntryKept(p, i) == i

\* updateFirstUsedEntry after entry i was erased.
NextUsedEntry(p, i) ==
  LeastOr({j \in Written(p) : i < j /\ j < mNextFreeEntry[p]}, INVALID_ENTRY)

\* Mutants: mUsedEntryCount is not decremented; the state word is not written.
EraseEntryUncounted(p, i) ==
  /\ entryTable' = [entryTable EXCEPT ![p][i] = "ERASED"]
  /\ entryData' = [entryData EXCEPT ![p][i] = Garbage]
  /\ mFirstUsedEntry' = [mFirstUsedEntry EXCEPT ![p] =
       IF @ = i THEN NextUsedEntry(p, i) ELSE @]
  /\ mNextFreeEntry' = [mNextFreeEntry EXCEPT ![p] = IF i + 1 > @ THEN i + 1 ELSE @]
  /\ UNCHANGED <<header, headerSeq, mState, mPageSeq, mUsedEntryCount>>

\* eraseEntryAndSpan of a one-entry item; what is left there is never read again.
EraseEntry(p, i) ==
  /\ entryTable' = [entryTable EXCEPT ![p][i] = "ERASED"]
  /\ entryData' = [entryData EXCEPT ![p][i] = Garbage]
  /\ mUsedEntryCount' = [mUsedEntryCount EXCEPT ![p] = @ - 1]
  /\ mFirstUsedEntry' = [mFirstUsedEntry EXCEPT ![p] =
       IF @ = i THEN NextUsedEntry(p, i) ELSE @]
  /\ mNextFreeEntry' = [mNextFreeEntry EXCEPT ![p] = IF i + 1 > @ THEN i + 1 ELSE @]
  /\ UNCHANGED <<header, headerSeq, mState, mPageSeq>>

\* alterPageState: markFull and markFreeing.
AlterPageState(p, state) ==
  /\ header' = [header EXCEPT ![p] = state]
  /\ mState' = [mState EXCEPT ![p] = state]
  /\ UNCHANGED <<headerSeq, entryTable, entryData,
                 mPageSeq, mNextFreeEntry, mFirstUsedEntry, mUsedEntryCount>>

\* The sector after erase_range, or when that was cut off (outcome CORRUPT).
SectorErased(p, outcome) ==
  /\ header' = [header EXCEPT ![p] = outcome]
  /\ headerSeq' = [headerSeq EXCEPT ![p] = 0]
  /\ entryTable' = [entryTable EXCEPT ![p] = [i \in Index |-> "EMPTY"]]
  /\ entryData' = [entryData EXCEPT ![p] = [i \in Index |-> Blank]]

\* Page::erase.
ErasePage(p) ==
  /\ SectorErased(p, "UNINITIALIZED")
  /\ mState' = [mState EXCEPT ![p] = "UNINITIALIZED"]
  /\ mNextFreeEntry' = [mNextFreeEntry EXCEPT ![p] = INVALID_ENTRY]
  /\ mFirstUsedEntry' = [mFirstUsedEntry EXCEPT ![p] = INVALID_ENTRY]
  /\ mUsedEntryCount' = [mUsedEntryCount EXCEPT ![p] = 0]
  /\ UNCHANGED mPageSeq
=============================================================================
