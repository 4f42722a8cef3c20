---------------------------- MODULE NvsPageManager ----------------------------
(***************************************************************************)
(* PageManager (src/src/nvs_pagemanager.cpp): the list of pages in use, in *)
(* the order of their sequence numbers, and the list of free pages; load,  *)
(* which rebuilds both after a restart and completes what a power failure  *)
(* cut off; and requestNewPage, which makes room by moving the items of a  *)
(* page to a free one.                                                     *)
(*                                                                         *)
(* Every flash operation is an action of its own, so that the power may    *)
(* fail, or the operation return an error, between any two of them.  pc    *)
(* names the operation that is next.                                       *)
(***************************************************************************)
EXTENDS NvsPages, Sequences, SequencesExt

VARIABLES
  mPageList,
  mFreePageList,
  mSeqNumber,       \* PageManager::mSeqNumber: for the next page activated
  mStorageState,    \* Storage::mState: ACTIVE once init() has loaded the pages
  loadIndex,        \* the sector load() has come to
  erasedPage,       \* the page being freed, or NoPage
  readEntryIndex,   \* copyItems: the entry to be copied next
  pc,
  ret               \* what the storage operation answers

managerVars == <<mPageList, mFreePageList, mSeqNumber>>
localVars   == <<loadIndex, erasedPage, readEntryIndex>>

\* Return codes that mean the operation failed on flash or met a failed page.
Failure == {"INVALID_STATE", "FLASH_OP_FAIL", "REMOVE_FAILED"}
Answer  == {"OK", "NOT_FOUND", "NOT_ENOUGH_SPACE"} \cup Failure

NoPage == PageCount
Page   == Sector \cup {NoPage}

LoadPC == {"load", "repair", "insert", "settle", "dup", "recover", "check", "failed"}
MovePC == {"activate", "freeing", "copy", "copyInit", "copyData", "copyState", "erasePage"}

ManagerTypeOK ==
  /\ mPageList \in Seq(Sector)
  /\ mFreePageList \in Seq(Sector)
  /\ mSeqNumber \in Nat
  /\ mStorageState \in {"INVALID", "ACTIVE"}
  /\ loadIndex \in 0 .. PageCount
  /\ erasedPage \in Page
  /\ readEntryIndex \in Index \cup {INVALID_ENTRY}
  /\ ret \in Answer

Back == Last(mPageList)    \* getCurrentPage() of the storage

WithoutNone(list, p) == list    \* Mutant: the page stays in the list.

Without(list, p) == RemoveAt(list, CHOOSE n \in DOMAIN list : list[n] = p)

Booting == mStorageState = "INVALID"

Goto(label) == pc' = label /\ UNCHANGED ret

Respond(code) == pc' = "return" /\ ret' = code

\* The error code of a page manager operation goes to whoever called it.
Fail(code) == IF Booting THEN Goto("failed") ELSE Respond(code)

-----------------------------------------------------------------------------
(* load(): the sectors one by one. *)

LoadSector ==
  /\ pc = "load"
  /\ LoadPage(loadIndex)
  /\ Goto(IF header[loadIndex] = "ACTIVE" THEN "repair" ELSE "insert")
  /\ UNCHANGED <<managerVars, localVars, mStorageState>>

\* mLoadEntryTable of an ACTIVE page: a half-written entry, then duplicates.
RepairHalfWritten ==
  /\ pc = "repair" /\ HalfWritten(loadIndex)
  /\ ClearHalfWritten(loadIndex)
  /\ UNCHANGED <<managerVars, localVars, mStorageState, pc, ret>>

RepairDuplicate ==
  /\ pc = "repair" /\ ~HalfWritten(loadIndex) /\ Superseding(loadIndex) # {}
  /\ EraseEntry(loadIndex, Min(OlderEntries(loadIndex, Min(Superseding(loadIndex)))))
  /\ UNCHANGED <<managerVars, localVars, mStorageState, pc, ret>>

RepairDone ==
  /\ pc = "repair" /\ ~HalfWritten(loadIndex) /\ Superseding(loadIndex) = {}
  /\ Goto("insert")
  /\ UNCHANGED <<pageVars, managerVars, localVars, mStorageState>>

\* Mutant: the pages are taken in the order of the sectors.
PositionLast(p) == Len(mPageList) + 1

\* Where a page goes in the list: before the first page with a larger number.
Position(p) ==
  LeastOr({n \in DOMAIN mPageList : mPageSeq[mPageList[n]] > mPageSeq[p]},
          Len(mPageList) + 1)

InsertPage ==
  /\ pc = "insert"
  /\ IF HasSeq(mState[loadIndex])
     THEN /\ mPageList' = InsertAt(mPageList, Position(loadIndex), loadIndex)
          /\ UNCHANGED mFreePageList
     ELSE /\ mFreePageList' = Append(mFreePageList, loadIndex)
          /\ UNCHANGED mPageList
  /\ loadIndex' = loadIndex + 1
  /\ Goto(IF loadIndex + 1 = PageCount THEN "settle" ELSE "load")
  /\ UNCHANGED <<pageVars, mSeqNumber, mStorageState, erasedPage, readEntryIndex>>

\* An empty partition only needs a page to write to; any other is checked.
Settle ==
  /\ pc = "settle"
  /\ IF mPageList = <<>>
     THEN mSeqNumber' = 0 /\ Goto("activate")
     ELSE mSeqNumber' = mPageSeq[Back] + 1 /\ Goto("dup")
  /\ UNCHANGED <<pageVars, mPageList, mFreePageList, localVars, mStorageState>>

(***************************************************************************)
(* The last item of the last page may be the new version of an item whose  *)
(* old version was not erased any more: it is, in the first page before    *)
(* that has one and is not being freed.                                    *)
(***************************************************************************)
LastItem == entryData[Back][Max(Scanned(Back))]

OldVersionPages ==
  IF Scanned(Back) = {} THEN {}
  ELSE {n \in 1 .. Len(mPageList) - 1 :
          /\ mState[mPageList[n]] # "FREEING"
          /\ FindOnPage(mPageList[n], LastItem.key, LastItem.type) # INVALID_ENTRY}

OldVersionPage == mPageList[Min(OldVersionPages)]

\* Mutant: only a page's own duplicates are erased.
EraseOldVersionNot ==
  /\ pc = "dup"
  /\ Goto("recover")
  /\ UNCHANGED <<pageVars, managerVars, localVars, mStorageState>>

EraseOldVersion ==
  /\ pc = "dup"
  /\ IF OldVersionPages = {}
     THEN UNCHANGED pageVars
     ELSE EraseEntry(OldVersionPage,
                     FindOnPage(OldVersionPage, LastItem.key, LastItem.type))
  /\ Goto("recover")
  /\ UNCHANGED <<managerVars, localVars, mStorageState>>

(***************************************************************************)
(* The power failed while a page was being freed.  The page its items were *)
(* copied to is erased, and the copy starts again.                         *)
(***************************************************************************)
FreeingPagesNone == {}    \* Mutant: an interrupted move is not looked for.

FreeingPages == {n \in DOMAIN mPageList : mState[mPageList[n]] = "FREEING"}

RecoverFreeing ==
  /\ pc = "recover" /\ FreeingPages # {}
  /\ erasedPage' = mPageList[Min(FreeingPages)]
  /\ IF mState[Back] = "ACTIVE"
     THEN /\ ErasePage(Back)
          /\ mPageList' = Front(mPageList)
          /\ mFreePageList' = Append(mFreePageList, Back)
     ELSE UNCHANGED <<pageVars, mPageList, mFreePageList>>
  /\ Goto("activate")
  /\ UNCHANGED <<mSeqNumber, mStorageState, loadIndex, readEntryIndex>>

NothingFreeing ==
  /\ pc = "recover" /\ FreeingPages = {}
  /\ Goto("check")
  /\ UNCHANGED <<pageVars, managerVars, localVars, mStorageState>>

\* load() fails with NO_FREE_PAGES; otherwise the storage becomes ACTIVE.
CheckFreePages ==
  /\ pc = "check"
  /\ IF mFreePageList = <<>>
     THEN Goto("failed") /\ UNCHANGED mStorageState
     ELSE Goto("idle") /\ mStorageState' = "ACTIVE"
  /\ UNCHANGED <<pageVars, managerVars, localVars>>

-----------------------------------------------------------------------------
(* requestNewPage() and what load() shares with it. *)

Unused(p) == ENTRY_COUNT - mUsedEntryCount[p]

\* Positions of the pages with the most unused entries, if any has one.
MaxUnusedItems ==
  {n \in DOMAIN mPageList :
     /\ Unused(mPageList[n]) > 0
     /\ \A m \in DOMAIN mPageList : Unused(mPageList[m]) <= Unused(mPageList[n])}

\* Mutant: the last free page is given away.
RequestNewPageLast ==
  /\ pc = "request"
  /\ IF mFreePageList = <<>> THEN Respond("INVALID_STATE") ELSE Goto("activate")
  /\ UNCHANGED <<pageVars, managerVars, mStorageState, localVars>>

RequestNewPage ==
  /\ pc = "request"
  /\ \/ /\ mFreePageList = <<>>
        /\ Respond("INVALID_STATE") /\ UNCHANGED erasedPage
     \/ /\ Len(mFreePageList) >= 2
        /\ Goto("activate") /\ UNCHANGED erasedPage
     \/ /\ Len(mFreePageList) = 1 /\ MaxUnusedItems = {}
        /\ Respond("NOT_ENOUGH_SPACE") /\ UNCHANGED erasedPage
     \/ /\ Len(mFreePageList) = 1 /\ MaxUnusedItems # {}
        /\ Goto("activate") /\ erasedPage' = mPageList[Min(MaxUnusedItems)]
  /\ UNCHANGED <<pageVars, managerVars, mStorageState, loadIndex, readEntryIndex>>

\* activatePage(): a CORRUPT page is erased first.
EraseCorrupt ==
  /\ pc = "activate" /\ mFreePageList # <<>> /\ mState[Head(mFreePageList)] = "CORRUPT"
  /\ ErasePage(Head(mFreePageList))
  /\ UNCHANGED <<managerVars, localVars, mStorageState, pc, ret>>

\* setSeqNumber() refuses a page that is not UNINITIALIZED; nobody looks.
ActivatePage ==
  /\ pc = "activate" /\ mFreePageList # <<>> /\ mState[Head(mFreePageList)] # "CORRUPT"
  /\ mPageList' = Append(mPageList, Head(mFreePageList))
  /\ mFreePageList' = Tail(mFreePageList)
  /\ mPageSeq' = IF mState[Head(mFreePageList)] = "UNINITIALIZED"
                 THEN [mPageSeq EXCEPT ![Head(mFreePageList)] = mSeqNumber]
                 ELSE mPageSeq
  /\ mSeqNumber' = mSeqNumber + 1
  /\ IF Booting
     THEN IF erasedPage = NoPage
          THEN Goto("idle") /\ mStorageState' = "ACTIVE"
          ELSE Goto("copy") /\ UNCHANGED mStorageState
     ELSE /\ Goto(IF erasedPage = NoPage THEN "rewrite" ELSE "freeing")
          /\ UNCHANGED mStorageState
  /\ UNCHANGED <<flashVars, mState, mNextFreeEntry, mFirstUsedEntry, mUsedEntryCount,
                 localVars>>

ActivateNothing ==
  /\ pc = "activate" /\ mFreePageList = <<>>
  /\ Fail("NOT_ENOUGH_SPACE") /\ erasedPage' = NoPage
  /\ UNCHANGED <<pageVars, managerVars, loadIndex, readEntryIndex, mStorageState>>

MarkFreeing ==
  /\ pc = "freeing"
  /\ IF mState[erasedPage] \in {"FULL", "ACTIVE"}
     THEN AlterPageState(erasedPage, "FREEING") /\ Goto("copy") /\ UNCHANGED erasedPage
     ELSE UNCHANGED pageVars /\ Respond("INVALID_STATE") /\ erasedPage' = NoPage
  /\ UNCHANGED <<managerVars, loadIndex, readEntryIndex, mStorageState>>

\* copyItems(): nothing to copy leaves the new page without a header.
StartCopy ==
  /\ pc = "copy"
  /\ readEntryIndex' = mFirstUsedEntry[erasedPage]
  /\ Goto(IF mFirstUsedEntry[erasedPage] = INVALID_ENTRY THEN "erasePage"
          ELSE IF mState[Back] = "UNINITIALIZED" THEN "copyInit" ELSE "copyData")
  /\ UNCHANGED <<pageVars, managerVars, loadIndex, erasedPage, mStorageState>>

CopyInit ==
  /\ pc = "copyInit"
  /\ Initialize(Back)
  /\ Goto("copyData")
  /\ UNCHANGED <<managerVars, localVars, mStorageState>>

\* getEntryAddress() asserts that there is an entry left.
CopyData ==
  /\ pc = "copyData"
  /\ IF NoRoom(Back)
     THEN Goto("failed") /\ UNCHANGED pageVars
     ELSE /\ WriteEntryData(Back, entryData[erasedPage][readEntryIndex])
          /\ Goto("copyState")
  /\ UNCHANGED <<managerVars, localVars, mStorageState>>

\* Mutants: the copying ends with the first item; the move ends with the copying.
CopyStateOnce ==
  /\ pc = "copyState"
  /\ WriteEntryState(Back)
  /\ readEntryIndex' = INVALID_ENTRY
  /\ Goto("erasePage")
  /\ UNCHANGED <<managerVars, loadIndex, erasedPage, mStorageState>>

CopyStateOnly ==
  /\ pc = "copyState"
  /\ WriteEntryState(Back)
  /\ LET rest == {i \in Written(erasedPage) : i > readEntryIndex}
     IN  /\ readEntryIndex' = LeastOr(rest, INVALID_ENTRY)
         /\ erasedPage' = IF rest = {} THEN NoPage ELSE erasedPage
         /\ Goto(IF rest # {} THEN "copyData" ELSE IF Booting THEN "check" ELSE "rewrite")
  /\ UNCHANGED <<managerVars, loadIndex, mStorageState>>

CopyState ==
  /\ pc = "copyState"
  /\ WriteEntryState(Back)
  /\ LET rest == {i \in Written(erasedPage) : i > readEntryIndex}
     IN  /\ readEntryIndex' = LeastOr(rest, INVALID_ENTRY)
         /\ Goto(IF rest = {} THEN "erasePage" ELSE "copyData")
  /\ UNCHANGED <<managerVars, loadIndex, erasedPage, mStorageState>>

FreePage ==
  /\ pc = "erasePage"
  /\ ErasePage(erasedPage)
  /\ mPageList' = Without(mPageList, erasedPage)
  /\ mFreePageList' = Append(mFreePageList, erasedPage)
  /\ erasedPage' = NoPage
  /\ readEntryIndex' = INVALID_ENTRY
  /\ Goto(IF Booting THEN "check" ELSE "rewrite")
  /\ UNCHANGED <<mSeqNumber, mStorageState, loadIndex>>
=============================================================================
