------------------------------ MODULE NvsBlobPages ------------------------------
(***************************************************************************)
(* The pages under multi-page blobs: items that take several entries, how  *)
(* they are found, and the page manager reduced to what it does as a       *)
(* whole.  NvsStorage has the flash operations of the page manager one by  *)
(* one; here requestNewPage() happens or does not.                         *)
(***************************************************************************)
EXTENDS Integers, FiniteSets, FiniteSetsExt, SequencesExt

CONSTANTS
  PageCount,    \* sectors of the partition
  ENTRY_COUNT,  \* entries of a page (126 in the code)
  Key,          \* <namespace, key> pairs
  Blob,         \* values: sequences of entries' worth of data
  EMPTY, ERASED,  \* states of an entry without an item
  BODY          \* an entry with data of the item that begins before it

Sector == 0 .. PageCount - 1
Index  == 0 .. ENTRY_COUNT - 1

ASSUME PageCountAssumption  == PageCount \in Nat /\ PageCount >= 2
ASSUME EntryCountAssumption == ENTRY_COUNT \in Nat /\ ENTRY_COUNT >= 2

\* An entry's worth of the data of some blob.
Datum == UNION {Range(v) : v \in Blob}

ASSUME BlobAssumption == Blob \subseteq Seq(Datum)

NONE == ENTRY_COUNT      \* no such entry
NoPage == PageCount

CHUNK_ANY      == 255
CHUNK_MAX_SIZE == ENTRY_COUNT - 1    \* in entries

VER_0_OFFSET == 0
VER_1_OFFSET == 128
VER_ANY      == 255

VARIABLES
  mPageList,      \* pages in the order of their sequence numbers
  mFreePageList,
  mState,         \* state of a page: "UNINITIALIZED", "ACTIVE", "FULL"
  entry           \* entry[p][i]: EMPTY, ERASED, BODY, or the item that begins there

blobPageVars == <<mPageList, mFreePageList, mState, entry>>

Back == Last(mPageList)

-----------------------------------------------------------------------------
(* Items: the index of a blob, a chunk of its data, a blob of the old format. *)

BlobIndex(k, start, count, size) ==
  [kind |-> "BLOB_IDX", key |-> k, chunk |-> CHUNK_ANY,
   chunkStart |-> start, chunkCount |-> count, dataSize |-> size]

BlobData(k, chunk, data) == [kind |-> "BLOB_DATA", key |-> k, chunk |-> chunk, data |-> data]

OldBlob(k, data) == [kind |-> "BLOB", key |-> k, chunk |-> CHUNK_ANY, data |-> data]

Item ==
  [kind : {"BLOB_IDX"}, key : Key, chunk : {CHUNK_ANY},
   chunkStart : {VER_0_OFFSET, VER_1_OFFSET}, chunkCount : Nat, dataSize : Nat]
  \cup [kind : {"BLOB_DATA"}, key : Key, chunk : Nat, data : Seq(Datum)]
  \cup [kind : {"BLOB"}, key : Key, chunk : {CHUNK_ANY}, data : Blob]

ASSUME EntryAssumption ==
  /\ EMPTY # ERASED /\ EMPTY # BODY /\ ERASED # BODY
  /\ {EMPTY, ERASED, BODY} \cap Item = {}

Span(item) == IF item.kind = "BLOB_IDX" THEN 1 ELSE 1 + Len(item.data)

Items(p)   == {i \in Index : entry[p][i] \notin {EMPTY, ERASED, BODY}}
Used(p)    == Cardinality({i \in Index : entry[p][i] \notin {EMPTY, ERASED}})
NextFree(p) == Min({i \in Index : entry[p][i] = EMPTY} \cup {ENTRY_COUNT})

\* getVarDataTailroom(), in entries: what is left beside the header of a chunk.
Tailroom(p) ==
  IF mState[p] = "UNINITIALIZED" THEN CHUNK_MAX_SIZE
  ELSE IF mState[p] = "FULL" \/ NextFree(p) >= ENTRY_COUNT - 1 THEN 0
  ELSE ENTRY_COUNT - NextFree(p) - 1

(***************************************************************************)
(* findItem() for a blob: the hash list leads to the first entry with this *)
(* key and chunk index; if that is of another kind (an index where a blob  *)
(* of the old format is looked for) the search ends with TYPE_MISMATCH.    *)
(***************************************************************************)
FindOnPage(p, kind, k, chunk, ver) ==
  LET match == {i \in Items(p) :
                  /\ entry[p][i].key = k /\ entry[p][i].chunk = chunk
                  /\ kind = "BLOB_IDX" /\ ver # VER_ANY /\ entry[p][i].kind = "BLOB_IDX" =>
                       entry[p][i].chunkStart = ver}
  IN  IF match # {} /\ entry[p][Min(match)].kind = kind THEN Min(match) ELSE NONE

(***************************************************************************)
(* Storage::findItem(): the item is looked for page by page.  FindPage is  *)
(* where it is found, FoundItem (a set with at most one element) what.     *)
(***************************************************************************)
PagesWith(kind, k, chunk, ver) ==
  {n \in DOMAIN mPageList : FindOnPage(mPageList[n], kind, k, chunk, ver) # NONE}

FindPage(kind, k, chunk, ver) ==
  IF PagesWith(kind, k, chunk, ver) = {} THEN NoPage
  ELSE mPageList[Min(PagesWith(kind, k, chunk, ver))]

FoundItem(kind, k, chunk, ver) ==
  {entry[p][FindOnPage(p, kind, k, chunk, ver)] :
     p \in {FindPage(kind, k, chunk, ver)} \ {NoPage}}

-----------------------------------------------------------------------------
(* Changing pages. *)

\* The entries of a page with item written at n, and without the item at i.
Written(e, n, item) ==
  [j \in Index |-> IF j = n THEN item
                   ELSE IF n < j /\ j < n + Span(item) THEN BODY ELSE e[j]]

\* Mutant: only the entry at the beginning of an item is erased.
WithoutFirst(e, i) == [e EXCEPT ![i] = ERASED]

Without(e, i) ==
  [j \in Index |-> IF i <= j /\ j < i + Span(e[i]) THEN ERASED ELSE e[j]]

\* writeItem() on the last page, where there is room for it.
WriteBack(item) ==
  /\ entry' = [entry EXCEPT ![Back] = Written(@, NextFree(Back), item)]
  /\ mState' = [mState EXCEPT ![Back] = "ACTIVE"]
  /\ UNCHANGED <<mPageList, mFreePageList>>

Fits(item) == mState[Back] # "FULL" /\ NextFree(Back) + Span(item) <= ENTRY_COUNT

EraseItem(p, i) ==
  /\ entry' = [entry EXCEPT ![p] = Without(@, i)]
  /\ UNCHANGED <<mPageList, mFreePageList, mState>>

MarkBackFull ==
  /\ mState' = [mState EXCEPT ![Back] = "FULL"]
  /\ UNCHANGED <<mPageList, mFreePageList, entry>>

\* The members of a finite set of numbers in ascending order: SetToSortSeq(S, <).
Rank(S, n) == Cardinality({m \in S : m <= n})

Ascending(S) == [m \in 1 .. Cardinality(S) |-> CHOOSE n \in S : Rank(S, n) = m]

\* copyItems(): the entries in use, without gaps.
Copied(p) ==
  LET used == Ascending({i \in Index : entry[p][i] \notin {EMPTY, ERASED}})
  IN  [j \in Index |-> IF j < Len(used) THEN entry[p][used[j + 1]] ELSE EMPTY]

\* The first page of the list with the most unused entries.
MostUnused ==
  CHOOSE n \in DOMAIN mPageList :
    \A m \in DOMAIN mPageList :
      \/ Used(mPageList[n]) < Used(mPageList[m])
      \/ Used(mPageList[n]) = Used(mPageList[m]) /\ n <= m

\* Mutant: two pages are kept free.
NewPageRefusedTwo == Len(mFreePageList) <= 2

NewPageRefused ==
  \/ mFreePageList = <<>>
  \/ Len(mFreePageList) = 1 /\ Used(mPageList[MostUnused]) = ENTRY_COUNT

(***************************************************************************)
(* requestNewPage(): with two free pages one is activated; otherwise the   *)
(* items of the page with the most unused entries are moved to the last    *)
(* free page, and that page becomes the free one.                          *)
(***************************************************************************)
RequestNewPage ==
  LET new == Head(mFreePageList)
      old == mPageList[MostUnused]
  IN  IF Len(mFreePageList) >= 2
      THEN /\ mPageList' = Append(mPageList, new)
           /\ mFreePageList' = Tail(mFreePageList)
           /\ UNCHANGED <<mState, entry>>
      ELSE /\ mPageList' = Append(RemoveAt(mPageList, MostUnused), new)
           /\ mFreePageList' = <<old>>
           /\ mState' = [mState EXCEPT ![old] = "UNINITIALIZED",
                           ![new] = IF Items(old) = {} THEN "UNINITIALIZED" ELSE "ACTIVE"]
           /\ entry' = [entry EXCEPT ![old] = [j \in Index |-> EMPTY], ![new] = Copied(old)]

(***************************************************************************)
(* PageManager::load(), up to its first look at items: the pages with a    *)
(* header stay in their order, the others are free.                        *)
(***************************************************************************)
LoadLists ==
  LET kept == Ascending({n \in DOMAIN mPageList : mState[mPageList[n]] # "UNINITIALIZED"})
      used == [n \in DOMAIN kept |-> mPageList[kept[n]]]
      free == Ascending({p \in Sector : mState[p] = "UNINITIALIZED"})
  IN  /\ mPageList' = IF used = <<>> THEN <<Head(free)>> ELSE used
      /\ mFreePageList' = IF used = <<>> THEN Tail(free) ELSE free
      /\ UNCHANGED <<mState, entry>>
=============================================================================
