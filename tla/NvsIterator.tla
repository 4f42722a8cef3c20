------------------------------ MODULE NvsIterator ------------------------------
(***************************************************************************)
(* Iterators (nvs_entry_find() and nvs_entry_next() of src/src/nvs_api.cpp,*)
(* Storage::findEntry() and nextEntry()) over the pages of NvsStorage.  An *)
(* iterator keeps a pointer to a page and the index of an entry while any  *)
(* number of requests changes both.                                        *)
(***************************************************************************)
EXTENDS NvsStorage

CONSTANTS
  NS_ANY,         \* every namespace is iterated over
  Criteria,       \* [ns, type] an iterator is opened for
  MaxFailures     \* bound: none is opened after more power failures and errors than this

ASSUME IterationAssumption ==
  /\ NS_ANY \notin {NsOf[k] : k \in Key}
  /\ \A c \in Criteria : c.ns = NS_ANY \/ c.ns \in {NsOf[k] : k \in Key}
  /\ \A c \in Criteria : c.type \in Type \cup {ANY}
  /\ MaxFailures \in Nat

VARIABLES
  iterator,     \* members of the nvs_opaque_iterator_t, or NoIterator
  \* what the application, which keeps a record of it all, knows
  steady,       \* the keys whose items are where they were when it was opened,
                \* none any more when a page has been freed or has failed since
  reported      \* those the iterator has reported

iteratorVars == <<iterator, steady, reported>>
allVars      == <<vars, iteratorVars>>

NoIterator == [page |-> NoPage]

IteratorInit ==
  /\ Init
  /\ iterator = NoIterator
  /\ steady = {} /\ reported = {}

Matches(item, sought) ==
  /\ sought.ns \in {NS_ANY, NsOf[item.key]}
  /\ sought.type \in {ANY, item.type}

(***************************************************************************)
(* ++page follows the links of the page, which is on the list of pages or, *)
(* when it was freed under the iterator, on that of the free pages.        *)
(***************************************************************************)
PagesFrom(p) ==
  LET list == IF Contains(mPageList, p) THEN mPageList ELSE mFreePageList
  IN  SubSeq(list, CHOOSE n \in DOMAIN list : list[n] = p, Len(list))

\* Mutant: the index is not set to 0 for the next page.
EntriesFromEvery(it, p) ==
  {i \in Scanned(p) : i >= it.entryIndex /\ Matches(entryData[p][i], it.sought)}

\* The entries of page p that are still to be reported.
EntriesFrom(it, p) ==
  IF ~HasSeq(mState[p]) THEN {}
  ELSE {i \in Scanned(p) :
          (p = it.page => i >= it.entryIndex) /\ Matches(entryData[p][i], it.sought)}

\* nextEntry(): the first page with such an entry, and the first entry there.
NextEntry(it) ==
  LET pages == PagesFrom(it.page)
      with  == {n \in DOMAIN pages : EntriesFrom(it, pages[n]) # {}}
  IN  IF with = {} THEN NoIterator
      ELSE [page |-> pages[Min(with)],
            entryIndex |-> Min(EntriesFrom(it, pages[Min(with)])) + 1,
            sought |-> it.sought]

\* The key of the item that entry_info describes.
EntryInfo(it) == entryData[it.page][it.entryIndex - 1].key

\* Where requests find an item of key k.
Places(k) ==
  {place \in Sector \X Index :
     /\ HasSeq(mState[place[1]]) /\ place[2] \in Scanned(place[1])
     /\ entryData[place[1]][place[2]].key = k}

\* The keys whose one item matches.
Single(sought) ==
  {k \in Key : \E place \in Places(k) :
     Places(k) = {place} /\ Matches(entryData[place[1]][place[2]], sought)}

-----------------------------------------------------------------------------
(* The functions of the API; they take the lock, so no request is served. *)

Forget ==
  iterator' = NoIterator /\ steady' = {} /\ reported' = {}

\* nvs_entry_find()
EntryFind ==
  /\ pc = "idle" /\ iterator = NoIterator /\ crashes + faults <= MaxFailures
  /\ \E c \in Criteria :
       LET it == NextEntry([page |-> Head(mPageList), entryIndex |-> 0, sought |-> c])
       IN  IF it = NoIterator THEN Forget
           ELSE /\ iterator' = it
                /\ steady' = Single(c)
                /\ reported' = {EntryInfo(it)} \cap steady'
  /\ UNCHANGED vars

\* nvs_entry_next()
EntryNext ==
  /\ pc = "idle" /\ iterator # NoIterator
  /\ LET it == NextEntry(iterator)
     IN  IF it = NoIterator THEN Forget
         ELSE /\ iterator' = it
              /\ reported' = reported \cup ({EntryInfo(it)} \cap steady)
              /\ UNCHANGED steady
  /\ UNCHANGED vars

ReleaseIterator ==
  /\ pc = "idle" /\ iterator # NoIterator
  /\ Forget
  /\ UNCHANGED vars

\* A step of the storage, under the iterator; load() deletes all the pages.
StorageStep ==
  /\ Next
  /\ IF pc' = "load" \/ iterator = NoIterator THEN Forget
     ELSE /\ UNCHANGED iterator
          /\ steady' = IF \E p \in Sector : HasSeq(mState[p]) /\ ~HasSeq(mState'[p]) THEN {}
                       ELSE {k \in steady : Places(k)' = Places(k)}
          /\ reported' = reported \cap steady'

IteratorNext == StorageStep \/ EntryFind \/ EntryNext \/ ReleaseIterator

IteratorSpec == IteratorInit /\ [][IteratorNext]_allVars

-----------------------------------------------------------------------------
(***************************************************************************)
(* "nvs_entry_next returns iterator to the next key-value pair" (README):  *)
(* whatever the requests served in between, an item that stays where it is *)
(* is reported, and reported once, unless a page has been freed under the  *)
(* iterator or has failed.                                                 *)
(***************************************************************************)
IterationComplete ==
  [][iterator # NoIterator /\ EntryNext =>
       IF iterator' = NoIterator THEN steady \subseteq reported
       ELSE EntryInfo(iterator)' \notin reported]_allVars
=============================================================================
