------------------------- MODULE NvsStorageProperties -------------------------
(***************************************************************************)
(* What the page manager and the storage have to maintain, stated of       *)
(* NvsStorage.                                                             *)
(***************************************************************************)
EXTENDS NvsStorage

(***************************************************************************)
(* The refinement mapping.  The value of an item is that of its newest     *)
(* version on flash, newest by the sequence number of the page and then by *)
(* the index of the entry.                                                 *)
(***************************************************************************)
Versions(a) ==
  {v \in Sector \X Index :
     /\ HasSeq(header[v[1]])
     /\ entryTable[v[1]][v[2]] = "WRITTEN"
     /\ entryData[v[1]][v[2]].key = a[1] /\ entryData[v[1]][v[2]].type = a[2]}

NotOlder(v, w) ==
  \/ headerSeq[v[1]] > headerSeq[w[1]]
  \/ headerSeq[v[1]] = headerSeq[w[1]] /\ v[2] >= w[2]

Newest(a) == CHOOSE v \in Versions(a) : \A w \in Versions(a) : NotOlder(v, w)

Stored(a) == IF Versions(a) = {} THEN NoValue ELSE entryData[Newest(a)[1]][Newest(a)[2]].val

Phase ==
  IF op = NoOp THEN "idle"
  ELSE IF pc = "return" THEN ret
  ELSE IF op.name = "set" /\ pc = "erase" THEN "applied"
  ELSE "pending"

MappedRequest ==
  CASE op.name = "set"   -> [name |-> "set", item |-> <<op.key, op.type>>, val |-> op.val]
    [] op.name = "erase" -> [name |-> "erase", key |-> op.key]
    [] OTHER -> op

KV == INSTANCE KVStore WITH
        ItemName <- AppItem,
        KeyOf    <- [a \in AppItem |-> a[1]],
        NsOf     <- [a \in AppItem |-> NsOf[a[1]]],
        store    <- [a \in AppItem |-> Stored(a)],
        request  <- MappedRequest,
        phase    <- Phase

(***************************************************************************)
(* Sets, erases and clears, with everything the page manager moves around  *)
(* for them, and with a power failure at any point, implement the store:   *)
(* a value once acknowledged stays until a later request replaces it, and  *)
(* an interrupted request leaves the old value or the new one.             *)
(***************************************************************************)
StoreImplemented == KV!Spec

(***************************************************************************)
(* Where the program may be in each phase, and what its local variables    *)
(* then hold: the part of the inductive invariant that concerns control.   *)
(***************************************************************************)
InUse == {mPageList[n] : n \in DOMAIN mPageList}

WritePC == {"write", "rewrite", "init", "data", "state", "markFull", "request"}

PhaseInv ==
  /\ pc \in LoadPC => mStorageState = "INVALID" \/ pc = "failed"
  /\ pc \in StoragePC \cup {"freeing"} => mStorageState = "ACTIVE"
  /\ Booting => op = NoOp
  /\ pc \in {"load", "repair", "insert"} => loadIndex \in Sector
  /\ pc \notin {"load", "repair", "insert"} => loadIndex = PageCount

RequestInv ==
  /\ pc \in {"idle", "halted"} => op = NoOp
  /\ pc \in WritePC \/ (pc \in MovePC /\ ~Booting) => op.name = "set"
  /\ pc \in {"find", "erase"} => op.name \in {"set", "erase"}
  /\ pc = "clear" => op.name = "clear"
  /\ pc = "erase" => findPage # NoPage

MoveInv ==
  /\ pc \notin {"load", "repair", "insert", "settle", "failed"} =>
       mPageList # <<>> \/ (Booting /\ pc = "activate" /\ erasedPage = NoPage)
  /\ erasedPage # NoPage => pc \in MovePC \cup {"failed"} /\ erasedPage \in InUse
  /\ pc \in MovePC \ {"activate"} => erasedPage # NoPage /\ Len(mPageList) >= 2
  /\ pc \in {"copyInit", "copyData", "copyState"} => readEntryIndex \in Index

RoomInv == pc \in {"data", "state", "copyState"} => ~NoRoom(Back)

ControlInv == PhaseInv /\ RequestInv /\ MoveInv /\ RoomInv

(***************************************************************************)
(* README: "Active ... at any given moment" a single page: a second ACTIVE *)
(* sector would take part in no recovery of load().                        *)
(***************************************************************************)
OneActivePage == \A p, q \in Sector : header[p] = "ACTIVE" /\ header[q] = "ACTIVE" => p = q

(***************************************************************************)
(* The two lists hold every sector that was loaded, and each one once: a   *)
(* page in both would be written to as a new page with its items on it.    *)
(***************************************************************************)
Free == {mFreePageList[n] : n \in DOMAIN mFreePageList}

PagesListed ==
  /\ \A p \in Sector : p \in InUse \cup Free <=> p < loadIndex
  /\ InUse \cap Free = {}
  /\ IsInjective(mPageList) /\ IsInjective(mFreePageList)

(***************************************************************************)
(* mPageList is in the order of the sequence numbers, and the next number  *)
(* is larger than all of them: load() relies on the last page being the    *)
(* newest.  (A page that failed may keep an old number.)                   *)
(***************************************************************************)
Numbered == {n \in DOMAIN mPageList : mState[mPageList[n]] # "INVALID"}

ListSorted ==
  /\ \A m, n \in Numbered : m < n => mPageSeq[mPageList[m]] < mPageSeq[mPageList[n]]
  /\ pc \notin {"load", "repair", "insert", "settle"} =>
       \A n \in Numbered : mPageSeq[mPageList[n]] < mSeqNumber

(***************************************************************************)
(* How the order of the pages and the one ACTIVE page come about: the      *)
(* numbers on flash are distinct and the ACTIVE page has the largest; RAM  *)
(* agrees with flash once load() has read it; a new page is begun only     *)
(* when none is ACTIVE, with a number larger than all on flash.            *)
(***************************************************************************)
Loading == {"load", "repair", "insert", "settle"}

Agree == \A p \in Sector : mState[p] \in {"INVALID", header[p]}

FreeUnused == \A p \in Free : ~HasSeq(header[p])

Numbers ==
  \A p, q \in Sector : p # q /\ HasSeq(header[p]) /\ HasSeq(header[q]) =>
    /\ headerSeq[p] # headerSeq[q]
    /\ header[q] = "ACTIVE" => headerSeq[p] < headerSeq[q]

Read(p) == mState[p] = header[p] /\ (HasSeq(header[p]) => mPageSeq[p] = headerSeq[p])

Loaded ==
  /\ pc \in Loading \cup {"dup", "recover"} => \A p \in InUse : HasSeq(mState[p]) /\ Read(p)
  /\ pc \in {"repair", "insert"} => Read(loadIndex)

ActiveLast ==
  /\ pc \notin Loading =>
       \A p \in Sector : header[p] = "ACTIVE" => mPageList # <<>> /\ p = Back
  /\ pc \in {"request", "activate"} => \A p \in Sector : header[p] # "ACTIVE"
  /\ pc \in {"init", "copyInit"} => mState[Back] = "UNINITIALIZED"

NextNumber ==
  pc \notin Loading => \A p \in Sector : HasSeq(header[p]) =>
    /\ headerSeq[p] < mSeqNumber
    /\ mPageList # <<>> /\ mState[Back] = "UNINITIALIZED" => headerSeq[p] < mPageSeq[Back]

Apart == pc \in MovePC \ {"activate"} => erasedPage # Back

OrderInv ==
  /\ Agree /\ FreeUnused /\ Numbers /\ Loaded /\ ActiveLast /\ NextNumber /\ Apart
  /\ ListSorted

(***************************************************************************)
(* While a page is being freed, the ACTIVE page holds copies of its items  *)
(* and nothing else.  load() erases that page on the strength of this.     *)
(***************************************************************************)
OnlyCopiesWhileFreeing ==
  \A p, q \in Sector : header[p] = "FREEING" /\ header[q] = "ACTIVE" =>
    {entryData[q][i] : i \in Written(q)} \subseteq {entryData[p][i] : i \in Written(p)}

(***************************************************************************)
(* debugCheck(): with no request in progress no item is found twice, so    *)
(* that findItem() finds the newest version of it, and the count of used   *)
(* entries is right on every page.                                         *)
(***************************************************************************)
Consistent ==
  pc = "idle" =>
    /\ \A p, q \in InUse : \A i \in Written(p), j \in Written(q) :
         /\ entryData[p][i].key = entryData[q][j].key
         /\ entryData[p][i].type = entryData[q][j].type
         => p = q /\ i = j
    /\ \A p \in InUse : mUsedEntryCount[p] = Cardinality(Written(p))

(***************************************************************************)
(* requestNewPage() asserts that as many entries are used on the new page  *)
(* as were on the page just freed.                                         *)
(***************************************************************************)
CopyComplete ==
  pc = "erasePage" => mUsedEntryCount[Back] = mUsedEntryCount[erasedPage]

(***************************************************************************)
(* A free page is kept for the next requestNewPage(): without one no page  *)
(* can be freed, and the partition could not be written or loaded again.   *)
(***************************************************************************)
FreePageKept == pc = "idle" => mFreePageList # <<>>

(***************************************************************************)
(* load() never fails, wherever the power failed before.                   *)
(***************************************************************************)
LoadSucceeds == pc # "failed"

(***************************************************************************)
(* NOT_ENOUGH_SPACE is answered only when every entry of every page but    *)
(* the free one is in use.                                                 *)
(***************************************************************************)
RefusedOnlyWhenFull ==
  pc = "return" /\ ret = "NOT_ENOUGH_SPACE" =>
    /\ Cardinality(InUse) = PageCount - 1
    /\ \A p \in InUse : Written(p) = Index

(***************************************************************************)
(* mFirstUsedEntry is the first entry in use: copyItems() starts there and *)
(* findItem() never looks before it.                                       *)
(***************************************************************************)
FirstUsedExact ==
  \A p \in Sector : HasSeq(mState[p]) =>
    mFirstUsedEntry[p] = LeastOr(Written(p), INVALID_ENTRY)

(***************************************************************************)
(* Flash bits can only be cleared: a header or an entry is written only    *)
(* where the sector is still blank.                                        *)
(***************************************************************************)
WritesOnlyBlank ==
  [][\A p \in Sector :
       /\ header'[p] = "ACTIVE" /\ header[p] # "ACTIVE" =>
            /\ header[p] = "UNINITIALIZED"
            /\ \A i \in Index : entryData[p][i] = Blank
       /\ \A i \in Index : entryData'[p][i] # entryData[p][i] /\ entryData'[p][i] \in Item =>
            entryData[p][i] = Blank]_vars

(***************************************************************************)
(* The erase of a sector discards no item: each is written on another one. *)
(***************************************************************************)
EraseDiscardsNothing ==
  [][\A p \in Sector :
       HasSeq(header[p]) /\ ~HasSeq(header'[p]) =>
         \A i \in Written(p) : \E q \in Sector \ {p} :
           HasSeq(header[q]) /\ \E j \in Written(q) : entryData[q][j] = entryData[p][i]]_vars

-----------------------------------------------------------------------------
(* Liveness. *)

(***************************************************************************)
(* The program runs as long as it can.  Requests and power failures come   *)
(* as they please, the latter a bounded number of times.                   *)
(***************************************************************************)
FairSpec == Spec /\ WF_vars(Manage \/ Serve \/ Reinitialize)

(***************************************************************************)
(* The program always returns to where it waits for a request: the loops   *)
(* of mLoadEntryTable over half-written entries and duplicates, and those  *)
(* of eraseNamespace() and copyItems(), end, and load() is left behind     *)
(* also after power failures in the middle of it.                          *)
(***************************************************************************)
EveryCallEnds == []<>(pc = "idle")

(***************************************************************************)
(* README, "Erasing": a transient state; in case of a power failure the    *)
(* move-and-erase is completed upon the next power-on.  No page stays in   *)
(* this state, not even by being freed over and over.                      *)
(***************************************************************************)
FreeingEnds == []<>(\A p \in Sector : header[p] # "FREEING")

-----------------------------------------------------------------------------
(* What the documentation claims and the code does not do. *)

(***************************************************************************)
(* README, "Item hash list": a hash collision is handled by falling back   *)
(* to iteration over the items.  load() then changes no item.              *)
(***************************************************************************)
LoadKeepsItems == [][Booting => \A a \in AppItem : Stored(a)' = Stored(a)]_vars

(***************************************************************************)
(* README, "Keys and values": keys are unique, and assigning a value of    *)
(* another type to an existing key is an error.                            *)
(***************************************************************************)
KeysUnique ==
  pc = "idle" => \A p, q \in InUse : \A i \in Written(p), j \in Written(q) :
    entryData[p][i].key = entryData[q][j].key => p = q /\ i = j
=============================================================================
