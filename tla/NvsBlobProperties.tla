--------------------------- MODULE NvsBlobProperties ---------------------------
(***************************************************************************)
(* What multi-page blobs have to satisfy, stated of NvsBlob.               *)
(***************************************************************************)
EXTENDS NvsBlob

CONSTANT NoValue

ASSUME NoValueAssumption == NoValue \notin Blob

PC == {"idle", "return", "read", "findAny", "find", "chunk", "skip", "full", "next", "index",
       "cleanup", "eraseOld", "eraseIndex", "eraseChunks", "load", "dup", "orphans", "aborted"}

Request ==
  {NoOp}
  \cup {[name |-> "set", key |-> k, val |-> v] : k \in Key, v \in Blob}
  \cup {[name |-> n, key |-> k] : n \in {"get", "erase"}, k \in Key}

\* Every item is followed by as many entries of data as it spans, and no others are data.
WholeItems(p) ==
  /\ \A i \in Items(p) : \A j \in i + 1 .. i + Span(entry[p][i]) - 1 :
       j \in Index /\ entry[p][j] = BODY
  /\ \A j \in Index : entry[p][j] = BODY =>
       \E i \in Items(p) : i < j /\ j < i + Span(entry[p][i])

BlobTypeOK ==
  /\ mPageList \in Seq(Sector) /\ mFreePageList \in Seq(Sector)
  /\ mState \in [Sector -> {"UNINITIALIZED", "ACTIVE", "FULL"}]
  /\ \A p \in Sector : WholeItems(p)
  /\ op \in Request /\ pc \in PC
  /\ prevStart \in {VER_0_OFFSET, VER_1_OFFSET, VER_ANY}
  /\ nextStart \in {VER_0_OFFSET, VER_1_OFFSET}
  /\ usedPages \in Seq(Sector) /\ offset \in Nat /\ tailroom \in Nat
  /\ chunkStart \in {VER_0_OFFSET, VER_1_OFFSET, VER_ANY}
  /\ chunkCount \in Nat /\ chunkNum \in Nat
  /\ crashes \in 0 .. MaxCrashes

-----------------------------------------------------------------------------
(***************************************************************************)
(* The refinement mapping.  The newest index of a key, that in the last    *)
(* place of the page list, decides which version counts; a blob of the old *)
(* format counts if there is none.                                         *)
(***************************************************************************)
Places(k, kind) ==
  {v \in (1 .. Len(mPageList)) \X Index :
     /\ v[2] \in Items(mPageList[v[1]])
     /\ entry[mPageList[v[1]]][v[2]].kind = kind /\ entry[mPageList[v[1]]][v[2]].key = k}

NewestItems(k, kind) ==
  {entry[mPageList[v[1]]][v[2]] : v \in
     {v \in Places(k, kind) : \A w \in Places(k, kind) :
        w[1] < v[1] \/ (w[1] = v[1] /\ w[2] <= v[2])}}

StoredValues(k) ==
  IF Places(k, "BLOB_IDX") # {}
  THEN {IF ChunkMissing(x) THEN NoValue ELSE DataOf(x) : x \in NewestItems(k, "BLOB_IDX")}
  ELSE IF Places(k, "BLOB") # {} THEN {x.data : x \in NewestItems(k, "BLOB")}
  ELSE {NoValue}

Stored(k) == CHOOSE v \in StoredValues(k) : TRUE

Phase ==
  IF op = NoOp \/ op.name = "get" THEN "idle"
  ELSE IF pc = "return" THEN ret
  ELSE IF op.name = "set" /\ pc \in {"eraseIndex", "eraseChunks", "eraseOld"} THEN "applied"
  ELSE IF op.name = "erase" /\ pc = "eraseChunks" THEN "OK"
  ELSE "pending"

MappedRequest ==
  IF op = NoOp \/ op.name = "get" THEN NoOp
  ELSE IF op.name = "set" THEN [name |-> "set", item |-> op.key, val |-> op.val]
  ELSE op

KV == INSTANCE KVStore WITH
        ItemName <- Key,
        Value    <- Blob,
        KeyOf    <- [k \in Key |-> k],
        NsOf     <- [k \in Key |-> "ns"],
        store    <- [k \in Key |-> Stored(k)],
        request  <- MappedRequest,
        phase    <- Phase

(***************************************************************************)
(* However many chunks it takes, a blob is replaced and erased in one      *)
(* step, and a power failure leaves one of its versions, whole.            *)
(***************************************************************************)
BlobsImplemented == KV!Spec

-----------------------------------------------------------------------------
(***************************************************************************)
(* populateBlobIndices(): "we should never find a duplicate index at this  *)
(* point".                                                                 *)
(***************************************************************************)
OneIndex ==
  pc \in {"orphans", "idle"} =>
    \A p, q \in Sector : \A i \in IndicesOn(p), j \in IndicesOn(q) :
      entry[p][i].key = entry[q][j].key => p = q /\ i = j

(***************************************************************************)
(* Between requests the chunks on flash are those the indices count, each  *)
(* of them once: nothing is missing and nothing left over.                 *)
(***************************************************************************)
Chunks(k) ==
  {v \in Sector \X Index :
     v[2] \in Items(v[1]) /\ entry[v[1]][v[2]].kind = "BLOB_DATA" /\ entry[v[1]][v[2]].key = k}

ChunksCounted(k) ==
  /\ \A v \in Chunks(k) : \E x \in Indices : Counts(x, entry[v[1]][v[2]])
  /\ \A v, w \in Chunks(k) : entry[v[1]][v[2]].chunk = entry[w[1]][w[2]].chunk => v = w
  /\ \A x \in Indices : x.key = k => ~ChunkMissing(x)

NoChunkLeft == pc = "idle" => \A k \in Key : ChunksCounted(k)

(***************************************************************************)
(* The assertions on the way hold: there is room for the index, the chunks *)
(* have the size the index gives, load() finds a free page.                *)
(***************************************************************************)
NeverAborts == pc # "aborted"

(***************************************************************************)
(* Every request ends, the loop of writeMultiPageBlob() that goes on to    *)
(* another page until one has room included.                               *)
(***************************************************************************)
BlobRequestEnds == op # NoOp ~> pc = "idle"

-----------------------------------------------------------------------------
(***************************************************************************)
(* nvs.h: ESP_ERR_NVS_NOT_ENOUGH_SPACE "if there is not enough space in    *)
(* the underlying storage to save the value".  Nothing is refused while    *)
(* there is a free page beside the one that is kept for moving items.      *)
(***************************************************************************)
RefusedForSpace ==
  pc = "return" /\ op.name = "set" /\ ret = "NOT_ENOUGH_SPACE" => Len(mFreePageList) = 1

(***************************************************************************)
(* writeMultiPageBlob(): "Anything failed, then we should erase all the    *)
(* written chunks": those, and not the chunks of the value that was there, *)
(* nor of any other.                                                       *)
(***************************************************************************)
RefusedKeepsValue ==
  [][op.name = "set" /\ (pc = "cleanup" \/ ret' = "NOT_ENOUGH_SPACE") =>
       \A k \in Key : Stored(k)' = Stored(k)]_vars

(***************************************************************************)
(* writeMultiPageBlob(): "Anything failed, then we should erase all the    *)
(* written chunks": the loop that does so finds the chunks, under the      *)
(* numbers it counts and on the pages they were written to.                *)
(***************************************************************************)
CleanupFinds ==
  pc = "cleanup" /\ chunkNum < Len(usedPages) =>
    /\ nextStart = VER_0_OFFSET
    /\ FindOnPage(usedPages[chunkNum + 1], "BLOB_DATA", op.key, chunkNum, VER_ANY) # NONE

(***************************************************************************)
(* writeMultiPageBlob(): "Anything failed, then we should erase all the    *)
(* written chunks": when it comes to that, each chunk is on the page that  *)
(* was remembered for it.                                                  *)
(***************************************************************************)
ChunksWhereWritten ==
  pc = "cleanup" /\ chunkNum < Len(usedPages) =>
    FindOnPage(usedPages[chunkNum + 1], "BLOB_DATA", op.key, nextStart + chunkNum, VER_ANY) # NONE
=============================================================================
