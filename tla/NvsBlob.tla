-------------------------------- MODULE NvsBlob --------------------------------
(***************************************************************************)
(* Multi-page blobs (src/src/nvs_storage.cpp): a blob is written as chunks *)
(* over several pages and then an index entry; an update writes the chunks *)
(* of the other version, its index, and erases the old one.  The power may *)
(* fail between any two of these, and space may run out.                   *)
(***************************************************************************)
EXTENDS NvsBlobPages

CONSTANTS
  TailroomMin,  \* CHUNK_MAX_SIZE / 10: a tailroom below that takes no first chunk
  OldBlobs,     \* <<key, blob>>: what a partition may hold in the old format
  MaxCrashes    \* bound on power failures

\* An item of the old format is on one page.
ASSUME PartitionAssumption ==
  /\ TailroomMin \in 0 .. CHUNK_MAX_SIZE /\ MaxCrashes \in Nat
  /\ OldBlobs \subseteq Key \X Blob
  /\ \A old \in OldBlobs : Len(old[2]) <= CHUNK_MAX_SIZE

VARIABLES
  op,          \* the request being served
  pc, ret,
  prevStart,   \* version of the blob that is replaced, or VER_ANY
  nextStart,   \* version that is written
  tailroom,    \* of the page that is skipped
  offset,      \* entries' worth of data written
  usedPages,   \* the page of each chunk written
  chunkStart, chunkCount, chunkNum,   \* of the version being erased
  crashes

localVars == <<prevStart, nextStart, tailroom, offset, usedPages>>
eraseVars == <<chunkStart, chunkCount, chunkNum>>
vars == <<blobPageVars, op, pc, ret, localVars, eraseVars, crashes>>

NoOp == [name |-> "none"]

Goto(l) == pc' = l /\ UNCHANGED ret
Respond(err) == pc' = "return" /\ ret' = err

-----------------------------------------------------------------------------
(* Reading. *)

IndexOf(k) == FoundItem("BLOB_IDX", k, CHUNK_ANY, VER_ANY)
HasIndex(k) == IndexOf(k) # {}
PrevStart(k) == (CHOOSE x \in IndexOf(k) : TRUE).chunkStart

ChunkPage(k, chunk) == FindPage("BLOB_DATA", k, chunk, VER_ANY)

OldBlobPage(k) == FindPage("BLOB", k, CHUNK_ANY, VER_ANY)

\* Is a chunk missing that this index asks for?  What do the chunks hold?
ChunkMissing(index) ==
  \E n \in 1 .. index.chunkCount : ChunkPage(index.key, index.chunkStart + n - 1) = NoPage

ChunkData(k, chunk) ==
  CHOOSE d \in {x.data : x \in FoundItem("BLOB_DATA", k, chunk, VER_ANY)} : TRUE

DataOf(index) ==
  FlattenSeq([n \in 1 .. index.chunkCount |->
                ChunkData(index.key, index.chunkStart + n - 1)])

-----------------------------------------------------------------------------
(* Requests. *)

BlankPage == [i \in Index |-> EMPTY]

Init ==
  /\ mPageList = <<0>> /\ mFreePageList = [n \in 1 .. PageCount - 1 |-> n]
  /\ \/ /\ mState = [p \in Sector |-> "UNINITIALIZED"]
        /\ entry = [p \in Sector |-> BlankPage]
     \/ /\ mState = [p \in Sector |-> IF p = 0 THEN "ACTIVE" ELSE "UNINITIALIZED"]
        /\ \E old \in OldBlobs :
             entry = [p \in Sector |->
               IF p = 0 THEN Written(BlankPage, 0, OldBlob(old[1], old[2])) ELSE BlankPage]
  /\ op = NoOp /\ pc = "idle" /\ ret = "OK"
  /\ prevStart = VER_ANY /\ nextStart = VER_0_OFFSET
  /\ tailroom = 0 /\ offset = 0 /\ usedPages = <<>>
  /\ chunkStart = VER_ANY /\ chunkCount = 0 /\ chunkNum = 0
  /\ crashes = 0

ResetLocals ==
  /\ prevStart' = VER_ANY /\ nextStart' = VER_0_OFFSET
  /\ tailroom' = 0 /\ offset' = 0 /\ usedPages' = <<>>
  /\ chunkStart' = VER_ANY /\ chunkCount' = 0 /\ chunkNum' = 0

Begin ==
  /\ pc = "idle"
  /\ \E k \in Key :
       \/ \E v \in Blob : op' = [name |-> "set", key |-> k, val |-> v] /\ Goto("find")
       \/ op' = [name |-> "get", key |-> k] /\ Goto("read")
       \/ op' = [name |-> "erase", key |-> k] /\ Goto("findAny")
  /\ UNCHANGED <<blobPageVars, localVars, eraseVars, crashes>>

Return ==
  /\ pc = "return"
  /\ pc' = "idle" /\ ret' = "OK" /\ op' = NoOp
  /\ ResetLocals
  /\ UNCHANGED <<blobPageVars, crashes>>

\* readItem() when there is no blob with an index, or no longer.
ReadOldFormat == Respond(IF OldBlobPage(op.key) = NoPage THEN "NOT_FOUND" ELSE "OK")

\* readMultiPageBlob(): a blob with a missing chunk is erased.
Read ==
  /\ pc = "read"
  /\ \/ ~HasIndex(op.key) /\ ReadOldFormat
     \/ \E index \in IndexOf(op.key) :
          IF ChunkMissing(index) THEN Goto("eraseIndex")
          ELSE IF Len(DataOf(index)) = index.dataSize THEN Respond("OK")
          ELSE Goto("aborted")     \* assert(offset == dataSize)
  /\ UNCHANGED <<blobPageVars, op, localVars, eraseVars, crashes>>

\* eraseItem(ANY), as nvs_erase_key calls it: the first item of the key decides.
ItemsOf(p, k) == {i \in Items(p) : entry[p][i].key = k}

EraseAny ==
  /\ pc = "findAny"
  /\ LET found == {n \in DOMAIN mPageList : ItemsOf(mPageList[n], op.key) # {}}
     IN  \/ /\ found = {}
            /\ Respond("NOT_FOUND") /\ UNCHANGED blobPageVars
         \/ /\ found # {}
            /\ LET p == mPageList[Min(found)]
                   i == Min(ItemsOf(p, op.key))
               IN  IF entry[p][i].kind = "BLOB" THEN EraseItem(p, i) /\ Respond("OK")
                   ELSE Goto("eraseIndex") /\ UNCHANGED blobPageVars
  /\ UNCHANGED <<op, localVars, eraseVars, crashes>>

-----------------------------------------------------------------------------
(* writeItem() and writeMultiPageBlob(). *)

OtherVersionSame(start) == start    \* Mutant: the version is not toggled.

OtherVersion(start) == IF start = VER_1_OFFSET THEN VER_0_OFFSET ELSE VER_1_OFFSET

MaxPages == Min({PageCount - 1, (CHUNK_ANY - 1) \div 2})

(***************************************************************************)
(* cmpMultiPageBlob() finds the same value, and nothing is written; or the *)
(* chunks hold only a beginning of it, which an assertion excludes.        *)
(***************************************************************************)
Compared(k, v) ==
  {DataOf(x) : x \in {x \in IndexOf(k) : x.dataSize = Len(v) /\ ~ChunkMissing(x)}}

Unmodified(k, v) == v \in Compared(k, v)
TooShort(k, v)   == \E d \in Compared(k, v) : IsStrictPrefix(d, v)

Find ==
  /\ pc = "find"
  /\ LET k == op.key
     IN  /\ IF Unmodified(k, op.val) THEN Respond("OK")
            ELSE IF TooShort(k, op.val) THEN Goto("aborted")
            ELSE IF Len(op.val) > MaxPages * CHUNK_MAX_SIZE THEN Respond("VALUE_TOO_LONG")
            ELSE Goto("chunk")
         /\ prevStart' = IF HasIndex(k) THEN PrevStart(k) ELSE VER_ANY
         /\ nextStart' = IF HasIndex(k) THEN OtherVersion(PrevStart(k)) ELSE VER_0_OFFSET
  /\ UNCHANGED <<blobPageVars, op, tailroom, offset, usedPages, eraseVars, crashes>>

\* No chunk is written yet, and the current page is not worth beginning on.
TailroomTooSmall ==
  /\ usedPages = <<>>
  /\ Tailroom(Back) < Len(op.val) /\ Tailroom(Back) < TailroomMin

SkipPage ==
  /\ pc = "chunk" /\ TailroomTooSmall
  /\ tailroom' = Tailroom(Back)
  /\ IF mState[Back] = "FULL" THEN UNCHANGED blobPageVars ELSE MarkBackFull
  /\ Goto("skip")
  /\ UNCHANGED <<op, prevStart, nextStart, offset, usedPages, eraseVars, crashes>>

\* Mutant: another page is tried however small its tailroom.
NotImprovingNever == FALSE

\* "We got the same page or we are not improving."
NotImproving == Tailroom(Back)' = tailroom

SkipToNewPage ==
  /\ pc = "skip"
  /\ IF NewPageRefused THEN Respond("NOT_ENOUGH_SPACE") /\ UNCHANGED blobPageVars
     ELSE /\ RequestNewPage
          /\ IF NotImproving THEN Respond("NOT_ENOUGH_SPACE") ELSE Goto("chunk")
  /\ UNCHANGED <<op, localVars, eraseVars, crashes>>

NoTailroom ==
  /\ pc = "chunk" /\ ~TailroomTooSmall /\ Tailroom(Back) = 0
  /\ pc' = "cleanup" /\ ret' = "NOT_ENOUGH_SPACE"
  /\ UNCHANGED <<blobPageVars, op, localVars, eraseVars, crashes>>

\* Mutant: the next page is not requested when the chunk fills this one.
GoOnIfMore(size) == offset + size < Len(op.val)

\* The page is marked full for the rest of the data, or for the index.
GoOn(size) == offset + size < Len(op.val) \/ Tailroom(Back) = size

WriteChunk ==
  /\ pc = "chunk" /\ ~TailroomTooSmall /\ Tailroom(Back) > 0
  /\ LET size == Min({Tailroom(Back), Len(op.val) - offset})
         data == SubSeq(op.val, offset + 1, offset + size)
     IN  /\ WriteBack(BlobData(op.key, nextStart + Len(usedPages), data))
         /\ offset' = offset + size
         /\ usedPages' = Append(usedPages, Back)
         /\ Goto(IF GoOn(size) THEN "full" ELSE "index")
  /\ UNCHANGED <<op, prevStart, nextStart, tailroom, eraseVars, crashes>>

MarkFull ==
  /\ pc = "full"
  /\ MarkBackFull
  /\ Goto("next")
  /\ UNCHANGED <<op, localVars, eraseVars, crashes>>

NextPage ==
  /\ pc = "next"
  /\ IF NewPageRefused
     THEN pc' = "cleanup" /\ ret' = "NOT_ENOUGH_SPACE" /\ UNCHANGED blobPageVars
     ELSE RequestNewPage /\ Goto(IF offset < Len(op.val) THEN "chunk" ELSE "index")
  /\ UNCHANGED <<op, localVars, eraseVars, crashes>>

(***************************************************************************)
(* The step at which the new value takes effect.  An assertion says that   *)
(* there is room for the index.                                            *)
(***************************************************************************)
WriteIndex ==
  /\ pc = "index"
  /\ LET index == BlobIndex(op.key, nextStart, Len(usedPages), Len(op.val))
     IN  IF Fits(index)
         THEN WriteBack(index) /\ Goto(IF prevStart = VER_ANY THEN "eraseOld" ELSE "eraseIndex")
         ELSE Goto("aborted") /\ UNCHANGED blobPageVars
  /\ UNCHANGED <<op, localVars, eraseVars, crashes>>

\* Mutant: the chunks written are left.
CleanupNot ==
  /\ pc = "cleanup"
  /\ pc' = "return"
  /\ UNCHANGED <<blobPageVars, op, ret, localVars, eraseVars, crashes>>

\* The chunks written are erased, counted from 0 whatever their version.
Cleanup ==
  /\ pc = "cleanup"
  /\ IF chunkNum = Len(usedPages) THEN pc' = "return" /\ UNCHANGED <<blobPageVars, chunkNum>>
     ELSE LET p == usedPages[chunkNum + 1]
              i == FindOnPage(p, "BLOB_DATA", op.key, chunkNum, VER_ANY)
          IN  /\ IF i = NONE THEN UNCHANGED blobPageVars ELSE EraseItem(p, i)
              /\ chunkNum' = chunkNum + 1
              /\ UNCHANGED pc
  /\ UNCHANGED <<op, ret, localVars, chunkStart, chunkCount, crashes>>

\* A blob of the old format under the same key is erased.
EraseOldFormat ==
  /\ pc = "eraseOld"
  /\ LET p == OldBlobPage(op.key)
     IN  IF p = NoPage THEN UNCHANGED blobPageVars
         ELSE EraseItem(p, FindOnPage(p, "BLOB", op.key, CHUNK_ANY, VER_ANY))
  /\ Respond("OK")
  /\ UNCHANGED <<op, localVars, eraseVars, crashes>>

-----------------------------------------------------------------------------
(* eraseMultiPageBlob(): the index first, then the chunks it counts. *)

EraseIndex ==
  /\ pc = "eraseIndex"
  /\ LET ver == IF op.name = "set" THEN prevStart ELSE VER_ANY
         p == FindPage("BLOB_IDX", op.key, CHUNK_ANY, ver)
         i == FindOnPage(p, "BLOB_IDX", op.key, CHUNK_ANY, ver)
     IN  IF p = NoPage
         THEN Respond("NOT_FOUND") /\ UNCHANGED <<blobPageVars, eraseVars>>
         ELSE /\ EraseItem(p, i)
              /\ chunkStart' = entry[p][i].chunkStart /\ chunkCount' = entry[p][i].chunkCount
              /\ chunkNum' = 0
              /\ Goto("eraseChunks")
  /\ UNCHANGED <<op, localVars, crashes>>

EraseChunk ==
  /\ pc = "eraseChunks" /\ chunkNum < chunkCount
  /\ LET p == ChunkPage(op.key, chunkStart + chunkNum)
     IN  IF p = NoPage THEN UNCHANGED blobPageVars
         ELSE EraseItem(p, FindOnPage(p, "BLOB_DATA", op.key, chunkStart + chunkNum, VER_ANY))
  /\ chunkNum' = chunkNum + 1
  /\ UNCHANGED <<op, pc, ret, localVars, chunkStart, chunkCount, crashes>>

ChunksErased ==
  /\ pc = "eraseChunks" /\ chunkNum = chunkCount
  /\ IF op.name = "get" THEN ReadOldFormat ELSE Respond("OK")
  /\ UNCHANGED <<blobPageVars, op, localVars, eraseVars, crashes>>

-----------------------------------------------------------------------------
(* Power failures, and what load() and init() do about blobs. *)

Crash ==
  /\ crashes < MaxCrashes
  /\ crashes' = crashes + 1
  /\ LoadLists
  /\ op' = NoOp /\ pc' = "load" /\ ret' = "OK"
  /\ ResetLocals

\* mLoadEntryTable: of two items with the same hash on the ACTIVE page the first goes.
Duplicates(p) ==
  {j \in Items(p) : \E i \in Items(p) :
     i < j /\ entry[p][i].key = entry[p][j].key /\ entry[p][i].chunk = entry[p][j].chunk}

Superseded(p, j) ==
  Min({i \in Items(p) : entry[p][i].key = entry[p][j].key /\ entry[p][i].chunk = entry[p][j].chunk})

ActiveDuplicates == {p \in Sector : mState[p] = "ACTIVE" /\ Duplicates(p) # {}}

RepairDuplicate ==
  /\ pc = "load"
  /\ IF ActiveDuplicates = {} THEN Goto("dup") /\ UNCHANGED blobPageVars
     ELSE LET p == Min(ActiveDuplicates)
          IN  EraseItem(p, Superseded(p, Min(Duplicates(p)))) /\ UNCHANGED <<pc, ret>>
  /\ UNCHANGED <<op, localVars, eraseVars, crashes>>

\* Mutant: only the last page is searched.
AlikeNowhere(item, kind) == {}

(***************************************************************************)
(* PageManager::load(): an item like the last one of the last page, on the *)
(* first page that has one, is erased; for an index, failing that, a blob  *)
(* of the old format.                                                      *)
(***************************************************************************)
Alike(item, kind) ==
  {n \in 1 .. Len(mPageList) - 1 :
     FindOnPage(mPageList[n], kind, item.key, item.chunk, VER_ANY) # NONE}

EraseAlike(item, kind) ==
  LET p == mPageList[Min(Alike(item, kind))]
  IN  EraseItem(p, FindOnPage(p, kind, item.key, item.chunk, VER_ANY))

EraseOldVersion ==
  /\ pc = "dup"
  /\ IF Items(Back) = {} THEN UNCHANGED blobPageVars
     ELSE LET item == entry[Back][Max(Items(Back))]
          IN  IF Alike(item, item.kind) # {} THEN EraseAlike(item, item.kind)
              ELSE IF item.kind = "BLOB_IDX" /\ Alike(item, "BLOB") # {}
              THEN EraseAlike(item, "BLOB")
              ELSE UNCHANGED blobPageVars
  /\ Goto(IF mFreePageList = <<>> THEN "aborted" ELSE "orphans")
  /\ UNCHANGED <<op, localVars, eraseVars, crashes>>

\* populateBlobIndices() and eraseOrphanDataBlobs(): chunks no index counts.
IndicesOn(p) == {i \in Items(p) : entry[p][i].kind = "BLOB_IDX"}

Indices == UNION {{entry[p][i] : i \in IndicesOn(p)} : p \in Sector}

\* Mutant: the last chunk is not counted.
CountsAllButLast(index, item) ==
  /\ index.key = item.key
  /\ index.chunkStart <= item.chunk /\ item.chunk < index.chunkStart + index.chunkCount - 1

Counts(index, item) ==
  /\ index.key = item.key
  /\ index.chunkStart <= item.chunk /\ item.chunk < index.chunkStart + index.chunkCount

Orphans(p) ==
  {i \in Items(p) : entry[p][i].kind = "BLOB_DATA" /\ ~\E x \in Indices : Counts(x, entry[p][i])}

EraseOrphan ==
  /\ pc = "orphans"
  /\ LET found == {n \in DOMAIN mPageList : Orphans(mPageList[n]) # {}}
         p == mPageList[Min(found)]
     IN  IF found = {} THEN Goto("idle") /\ UNCHANGED blobPageVars
         ELSE EraseItem(p, Min(Orphans(p))) /\ UNCHANGED <<pc, ret>>
  /\ UNCHANGED <<op, localVars, eraseVars, crashes>>

-----------------------------------------------------------------------------
Write == Find \/ SkipPage \/ SkipToNewPage \/ NoTailroom \/ WriteChunk \/ MarkFull \/ NextPage
         \/ WriteIndex \/ Cleanup \/ EraseOldFormat

Erase == EraseAny \/ EraseIndex \/ EraseChunk \/ ChunksErased

Load == RepairDuplicate \/ EraseOldVersion \/ EraseOrphan

Next == Begin \/ Return \/ Read \/ Write \/ Erase \/ Load \/ Crash

Spec == Init /\ [][Next]_vars

\* The program runs; requests and power failures come as they please.
FairSpec == Spec /\ WF_vars(Return \/ Read \/ Write \/ Erase \/ Load)
=============================================================================
