------------------------------ MODULE NvsStorage ------------------------------
(***************************************************************************)
(* Storage (src/src/nvs_storage.cpp) over its PageManager: writeItem,      *)
(* eraseItem and eraseNamespace for items of primitive type, a power       *)
(* failure between or within any two flash operations, and flash           *)
(* operations that return an error.                                        *)
(***************************************************************************)
EXTENDS NvsPageManager

CONSTANTS
  AppItem,     \* the <<key, type>> pairs the application sets
  MaxSeq,      \* bound: no request is begun once this many pages were activated
  MaxCrashes,  \* bound on power failures
  MaxFaults,   \* bound on flash operations that return an error
  FaultsWhileLoading,     \* may one of these be an operation of load()?
  ContinueAfterFailure    \* does the application go on after a Failure?

ASSUME AppItemAssumption == AppItem \subseteq Key \X Type
ASSUME BoundsAssumption ==
  /\ MaxSeq \in Nat /\ MaxCrashes \in Nat /\ MaxFaults \in Nat
  /\ FaultsWhileLoading \in BOOLEAN /\ ContinueAfterFailure \in BOOLEAN

VARIABLES
  op,        \* the request being served
  findPage,  \* writeItem, eraseItem: the page holding the old version, or NoPage
  crashes, faults

vars == <<pageVars, managerVars, mStorageState, localVars, pc, ret, op, findPage,
          crashes, faults>>

NoOp == [name |-> "none"]

Request ==
  {NoOp}
  \cup {[name |-> "set", key |-> a[1], type |-> a[2], val |-> v] : a \in AppItem, v \in Value}
  \cup {[name |-> "erase", key |-> a[1], type |-> ANY] : a \in AppItem}
  \cup {[name |-> "clear", ns |-> NsOf[a[1]]] : a \in AppItem}

StoragePC == {"idle", "find", "write", "rewrite", "init", "data", "state", "markFull",
              "request", "erase", "clear", "return", "halted"}

TypeOK ==
  /\ PageTypeOK
  /\ ManagerTypeOK
  /\ pc \in LoadPC \cup MovePC \cup StoragePC
  /\ op \in Request
  /\ findPage \in Page
  /\ crashes \in 0 .. MaxCrashes
  /\ faults \in 0 .. MaxFaults

\* All sectors erased, the storage about to load them for the first time.
Init ==
  /\ header = [p \in Sector |-> "UNINITIALIZED"]
  /\ headerSeq = [p \in Sector |-> 0]
  /\ entryTable = [p \in Sector |-> [i \in Index |-> "EMPTY"]]
  /\ entryData = [p \in Sector |-> [i \in Index |-> Blank]]
  /\ mState = [p \in Sector |-> "INVALID"]
  /\ mPageSeq = [p \in Sector |-> 0]
  /\ mNextFreeEntry = [p \in Sector |-> INVALID_ENTRY]
  /\ mFirstUsedEntry = [p \in Sector |-> INVALID_ENTRY]
  /\ mUsedEntryCount = [p \in Sector |-> 0]
  /\ mPageList = <<>> /\ mFreePageList = <<>> /\ mSeqNumber = 0
  /\ mStorageState = "INVALID"
  /\ loadIndex = 0 /\ erasedPage = NoPage /\ readEntryIndex = INVALID_ENTRY
  /\ pc = "load" /\ ret = "OK"
  /\ op = NoOp /\ findPage = NoPage
  /\ crashes = 0 /\ faults = 0

-----------------------------------------------------------------------------
(* Requests.  The lock of the C API admits one at a time. *)

requestVars == <<op, findPage, crashes, faults>>

\* findItem(): the first page in the list with the item; errors are passed over.
FindPages(k, t) ==
  {n \in DOMAIN mPageList : FindOnPage(mPageList[n], k, t) # INVALID_ENTRY}

FindPage(k, t) == IF FindPages(k, t) = {} THEN NoPage ELSE mPageList[Min(FindPages(k, t))]

\* cmpItem(): the item found has this value already.
Unmodified(p, k, t, v) == p # NoPage /\ entryData[p][FindOnPage(p, k, t)].val = v

Begin ==
  /\ pc = "idle"
  /\ \/ /\ mSeqNumber <= MaxSeq
        /\ \E a \in AppItem, v \in Value :
             op' = [name |-> "set", key |-> a[1], type |-> a[2], val |-> v]
        /\ Goto("find")
     \/ /\ \E a \in AppItem : op' = [name |-> "erase", key |-> a[1], type |-> ANY]
        /\ Goto("find")
     \/ /\ \E a \in AppItem : op' = [name |-> "clear", ns |-> NsOf[a[1]]]
        /\ Goto("clear")
  /\ UNCHANGED <<pageVars, managerVars, mStorageState, localVars, findPage, crashes, faults>>

FindForSet ==
  /\ pc = "find" /\ op.name = "set"
  /\ findPage' = FindPage(op.key, op.type)
  /\ IF Unmodified(findPage', op.key, op.type, op.val) THEN Respond("OK") ELSE Goto("write")
  /\ UNCHANGED <<pageVars, managerVars, mStorageState, localVars, op, crashes, faults>>

FindForErase ==
  /\ pc = "find" /\ op.name = "erase"
  /\ findPage' = FindPage(op.key, op.type)
  /\ IF findPage' = NoPage THEN Respond("NOT_FOUND") ELSE Goto("erase")
  /\ UNCHANGED <<pageVars, managerVars, mStorageState, localVars, op, crashes, faults>>

-----------------------------------------------------------------------------
(* writeItem() *)

\* Mutant: a page without room is not marked FULL.
TryWriteUnmarked ==
  /\ pc \in {"write", "rewrite"}
  /\ LET full == mState[Back] = "FULL" \/ NoRoom(Back)
     IN  \/ mState[Back] = "INVALID" /\ Respond("INVALID_STATE")
         \/ mState[Back] = "UNINITIALIZED" /\ Goto("init")
         \/ /\ mState[Back] \notin {"INVALID", "UNINITIALIZED"}
            /\ Goto(IF ~full THEN "data" ELSE "request")
  /\ UNCHANGED <<pageVars, managerVars, mStorageState, localVars, requestVars>>

\* Mutant: the room left on the page is not looked at.
TryWriteUnchecked ==
  /\ pc \in {"write", "rewrite"}
  /\ \/ mState[Back] = "INVALID" /\ Respond("INVALID_STATE")
     \/ mState[Back] = "UNINITIALIZED" /\ Goto("init")
     \/ mState[Back] = "FULL" /\ Goto("request")
     \/ mState[Back] \in {"ACTIVE", "FREEING"} /\ Goto("data")
  /\ UNCHANGED <<pageVars, managerVars, mStorageState, localVars, requestVars>>

(***************************************************************************)
(* Page::writeItem up to its first flash operation.  "write" is the first  *)
(* attempt; "rewrite" the one after requestNewPage.                        *)
(***************************************************************************)
TryWrite ==
  /\ pc \in {"write", "rewrite"}
  /\ LET full == mState[Back] = "FULL" \/ NoRoom(Back)
     IN  \/ mState[Back] = "INVALID" /\ Respond("INVALID_STATE")
         \/ mState[Back] = "UNINITIALIZED" /\ Goto("init")
         \/ /\ mState[Back] \notin {"INVALID", "UNINITIALIZED"} /\ ~full
            /\ Goto("data")
         \/ /\ mState[Back] \notin {"INVALID", "UNINITIALIZED"} /\ full
            /\ pc = "write"
            /\ Goto(IF mState[Back] = "FULL" THEN "request" ELSE "markFull")
         \/ /\ mState[Back] \notin {"INVALID", "UNINITIALIZED"} /\ full
            /\ pc = "rewrite"
            /\ Respond("NOT_ENOUGH_SPACE")
  /\ UNCHANGED <<pageVars, managerVars, mStorageState, localVars, requestVars>>

InitPage ==
  /\ pc = "init"
  /\ Initialize(Back)
  /\ Goto("data")
  /\ UNCHANGED <<managerVars, mStorageState, localVars, requestVars>>

WriteData ==
  /\ pc = "data"
  /\ WriteEntryData(Back, [key |-> op.key, type |-> op.type, val |-> op.val])
  /\ Goto("state")
  /\ UNCHANGED <<managerVars, mStorageState, localVars, requestVars>>

\* The item is written; an old version is still to be erased.
WriteState ==
  /\ pc = "state"
  /\ WriteEntryState(Back)
  /\ IF findPage = NoPage THEN Respond("OK") ELSE Goto("erase")
  /\ UNCHANGED <<managerVars, mStorageState, localVars, requestVars>>

MarkFull ==
  /\ pc = "markFull"
  /\ IF mState[Back] = "ACTIVE"
     THEN AlterPageState(Back, "FULL") /\ Goto("request")
     ELSE UNCHANGED pageVars /\ Respond("INVALID_STATE")
  /\ UNCHANGED <<managerVars, mStorageState, localVars, requestVars>>

-----------------------------------------------------------------------------
(* The last step of writeItem(), and eraseItem(). *)

OldVersionOnFound == findPage    \* Mutant: it is not.

\* The page of the old version may have been freed: it is looked up again.
OldVersionOn ==
  IF mState[findPage] \in {"UNINITIALIZED", "INVALID"} THEN FindPage(op.key, op.type)
  ELSE findPage

EraseFound ==
  /\ pc = "erase"
  /\ LET p == OldVersionOn
         i == FindOnPage(p, op.key, op.type)
     IN  \/ /\ p = NoPage     \* ESP_ERROR_CHECK aborts the program
            /\ Goto("failed") /\ UNCHANGED pageVars
         \/ /\ p # NoPage /\ i = INVALID_ENTRY
            /\ Respond("NOT_FOUND") /\ UNCHANGED pageVars
         \/ /\ p # NoPage /\ i # INVALID_ENTRY
            /\ EraseEntry(p, i) /\ Respond("OK")
  /\ UNCHANGED <<managerVars, mStorageState, localVars, requestVars>>

(***************************************************************************)
(* eraseNamespace(): item by item, page by page.                           *)
(***************************************************************************)
ClearPages(ns) ==
  {n \in DOMAIN mPageList : FindNamespace(mPageList[n], ns) # INVALID_ENTRY}

EraseOfNamespace ==
  /\ pc = "clear"
  /\ IF ClearPages(op.ns) = {}
     THEN Respond("OK") /\ UNCHANGED pageVars
     ELSE LET p == mPageList[Min(ClearPages(op.ns))]
          IN  EraseEntry(p, FindNamespace(p, op.ns)) /\ UNCHANGED <<pc, ret>>
  /\ UNCHANGED <<managerVars, mStorageState, localVars, requestVars>>

Return ==
  /\ pc = "return"
  /\ pc' = IF ret \in Failure /\ ~ContinueAfterFailure THEN "halted" ELSE "idle"
  /\ ret' = "OK"
  /\ op' = NoOp /\ findPage' = NoPage
  /\ UNCHANGED <<pageVars, managerVars, mStorageState, localVars, crashes, faults>>

-----------------------------------------------------------------------------
(* Power failures and flash errors. *)

\* The page the next flash operation is on, for each kind of operation.
EraseTarget ==
  IF pc = "erasePage" THEN {erasedPage}
  ELSE IF pc = "recover" /\ FreeingPages # {} /\ mState[Back] = "ACTIVE" THEN {Back}
  ELSE IF pc = "activate" /\ mFreePageList # <<>>
       THEN {Head(mFreePageList)} \cap {p \in Sector : mState[p] = "CORRUPT"}
  ELSE {}

HeaderTarget == IF pc \in {"init", "copyInit"} THEN {Back} ELSE {}

DataTarget ==
  IF pc = "data" \/ (pc = "copyData" /\ ~NoRoom(Back)) THEN {Back} ELSE {}

\* Operations on one word, which is written or not.
WordTarget ==
  CASE pc \in {"state", "copyState"} -> {Back}
    [] pc = "markFull" /\ mState[Back] = "ACTIVE" -> {Back}
    [] pc = "freeing" /\ mState[erasedPage] \in {"FULL", "ACTIVE"} -> {erasedPage}
    [] pc = "repair" /\ (HalfWritten(loadIndex) \/ Superseding(loadIndex) # {}) -> {loadIndex}
    [] pc = "dup" /\ OldVersionPages # {} -> {OldVersionPage}
    [] pc = "erase" ->
         {p \in Sector : p = OldVersionOn /\ FindOnPage(p, op.key, op.type) # INVALID_ENTRY}
    [] pc = "clear" /\ ClearPages(op.ns) # {} -> {mPageList[Min(ClearPages(op.ns))]}
    [] OTHER -> {}

\* An operation cut off part-way: an erase, a header or an entry of several words.
HalfDone ==
  /\ \/ \E p \in EraseTarget : SectorErased(p, "CORRUPT")
     \/ \E p \in HeaderTarget :
          /\ header' = [header EXCEPT ![p] = "CORRUPT"]
          /\ UNCHANGED <<headerSeq, entryTable, entryData>>
     \/ \E p \in DataTarget :
          /\ entryData' = [entryData EXCEPT ![p][mNextFreeEntry[p]] = Garbage]
          /\ UNCHANGED <<header, headerSeq, entryTable>>

\* The program starts again with what is on flash.
StartLoading ==
  /\ NewPageObjects
  /\ mPageList' = <<>> /\ mFreePageList' = <<>> /\ mSeqNumber' = 0
  /\ mStorageState' = "INVALID"
  /\ loadIndex' = 0 /\ erasedPage' = NoPage /\ readEntryIndex' = INVALID_ENTRY
  /\ pc' = "load" /\ ret' = "OK"
  /\ op' = NoOp /\ findPage' = NoPage

Crash ==
  /\ crashes < MaxCrashes
  /\ crashes' = crashes + 1
  /\ UNCHANGED flashVars \/ HalfDone
  /\ StartLoading
  /\ UNCHANGED faults

\* The application initialises the storage again after an error.
Reinitialize ==
  /\ pc \in {"halted", "failed"}
  /\ StartLoading
  /\ UNCHANGED <<flashVars, crashes, faults>>

(***************************************************************************)
(* The flash operation returns an error: the page becomes INVALID, and the *)
(* error goes to the caller.  Errors of mLoadEntryTable are not looked at  *)
(* by Page::load, and eraseItem in load() goes on to the next page.        *)
(***************************************************************************)
FlashError ==
  /\ faults < MaxFaults
  /\ Booting => FaultsWhileLoading
  /\ faults' = faults + 1
  /\ \E p \in EraseTarget \cup HeaderTarget \cup DataTarget \cup WordTarget :
       /\ mState' = [mState EXCEPT ![p] = "INVALID"]
       /\ mUsedEntryCount' = [mUsedEntryCount EXCEPT ![p] =
            IF pc \in {"erase", "dup", "clear"} \/ (pc = "repair" /\ ~HalfWritten(p))
            THEN @ - 1 ELSE @]
  /\ UNCHANGED flashVars \/ HalfDone
  /\ CASE pc = "repair" -> Goto("insert")
       [] pc = "dup" -> UNCHANGED <<pc, ret>>
       [] pc = "erase" /\ op.name = "set" -> Respond("REMOVE_FAILED")
       [] OTHER -> Fail("FLASH_OP_FAIL")
  /\ erasedPage' = NoPage /\ readEntryIndex' = INVALID_ENTRY
  /\ UNCHANGED <<managerVars, mStorageState, loadIndex, op, findPage, crashes>>
  /\ UNCHANGED <<mPageSeq, mNextFreeEntry, mFirstUsedEntry>>

-----------------------------------------------------------------------------
Load == LoadSector \/ RepairHalfWritten \/ RepairDuplicate \/ RepairDone \/ InsertPage
        \/ Settle \/ EraseOldVersion \/ RecoverFreeing \/ NothingFreeing \/ CheckFreePages

Move == RequestNewPage \/ EraseCorrupt \/ ActivatePage \/ ActivateNothing \/ MarkFreeing
        \/ StartCopy \/ CopyInit \/ CopyData \/ CopyState \/ FreePage

Manage == (Load \/ Move) /\ UNCHANGED requestVars

Serve == FindForSet \/ FindForErase \/ TryWrite \/ InitPage \/ WriteData \/ WriteState \/ MarkFull
         \/ EraseFound \/ EraseOfNamespace \/ Return

Next ==
  \/ Manage
  \/ Begin
  \/ Serve
  \/ Crash \/ Reinitialize \/ FlashError

Spec == Init /\ [][Next]_vars
=============================================================================
