------------------------------ MODULE NvsStrings ------------------------------
(***************************************************************************)
(* Items of several entries on one page (src/src/nvs_page.cpp), a flash    *)
(* word at a time: a string is a header entry followed by entries of data, *)
(* and its entry states may lie in several words of the bitmap.  Covered   *)
(* are writeItem, eraseItem and the repairs of mLoadEntryTable, power      *)
(* failures between any two words, and operations that return an error.    *)
(* The page has its header; requestNewPage() always finds no other.        *)
(***************************************************************************)
EXTENDS Integers, Sequences, FiniteSets, FiniteSetsExt

CONSTANTS
  ENTRY_COUNT,   \* entries of the page (126 in the code)
  WORD_ENTRIES,  \* entry states in a word of the bitmap (16 in the code)
  Key,
  String,        \* strings, each the sequence of its entries of data
  Ragged,        \* the strings whose last entry of data is not filled
  BlankFirst,    \* the entries of data whose first word is ffffffff
  NoValue,       \* of a key without a string
  Blank,         \* an entry with all bytes 0xff
  Part,          \* one that was written in part, or over another
  PartBlank,     \* likewise, but its first word is still ffffffff
  MaxCrashes, MaxFaults,  \* bounds on power failures and on errors
  ContinueAfterFailure    \* does the application go on after an error?

Index == 0 .. ENTRY_COUNT - 1
INVALID_ENTRY == ENTRY_COUNT + 1

ASSUME SizeAssumption == ENTRY_COUNT \in Nat \ {0} /\ WORD_ENTRIES \in Nat \ {0}
ASSUME StringAssumption ==
  /\ \A v \in String : v \in Seq({v[n] : n \in DOMAIN v}) /\ Len(v) >= 1 /\ Len(v) < ENTRY_COUNT
  /\ Ragged \subseteq String /\ NoValue \notin String

VARIABLES
  \* flash
  header, entryTable, entryData,
  \* RAM: the Page object
  mState, mEntryTable, mNextFreeEntry, mFirstUsedEntry, mUsedEntryCount,
  mHashList,     \* indices of the items in the hash list
  \* RAM: the request and where it is
  op, pc, ret,
  found,         \* writeItem: there is an older version
  written,       \* writeItem: entries of the item written so far
  altering,      \* what is left to do of alterEntryState or alterEntryRangeState
  at, end,       \* mLoadEntryTable: the loop over the items
  crashes, faults

flashVars == <<header, entryTable, entryData>>
pageVars  == <<mState, mEntryTable, mNextFreeEntry, mFirstUsedEntry, mUsedEntryCount, mHashList>>
scanVars  == <<at, end>>
boundVars == <<crashes, faults>>
vars == <<flashVars, pageVars, op, pc, ret, found, written, altering, scanVars, boundVars>>

NoOp == [name |-> "none"]
Unaltered == [begin |-> 0, end |-> 0, span |-> 0, state |-> "EMPTY", range |-> FALSE,
              then |-> "idle"]

-----------------------------------------------------------------------------
(* Entries. *)

Header(k, v) == [key |-> k, val |-> v]
Headers == [key : Key, val : String]

FirstWordBlank(c) == c \in {Blank, PartBlank} \cup BlankFirst

(***************************************************************************)
(* The first word of a header, namespace and type, is not ffffffff, and    *)
(* nothing else has the CRC of one.                                        *)
(***************************************************************************)
ASSUME HeaderAssumption ==
  /\ \A c \in {Part, PartBlank, Blank} \cup BlankFirst : c \notin Headers
  /\ \A v \in String : \A n \in DOMAIN v : v[n] \notin Headers
  /\ ~FirstWordBlank(Part)

\* What is left of an entry cut off after its first word, and of one written over another.
Torn(c) == IF FirstWordBlank(c) THEN PartBlank ELSE Part
Over(old, c) ==
  IF old = Blank THEN c ELSE IF FirstWordBlank(old) /\ FirstWordBlank(c) THEN PartBlank ELSE Part

\* Entries cs written from mNextFreeEntry on, and what a write that was cut off leaves.
Programmed(cs) ==
  [i \in Index |-> IF i \in mNextFreeEntry .. mNextFreeEntry + Len(cs) - 1
                   THEN Over(entryData[i], cs[i - mNextFreeEntry + 1]) ELSE entryData[i]]

CutOff(cs) ==
  UNION {{Programmed(SubSeq(cs, 1, n - 1)), Programmed(Append(SubSeq(cs, 1, n - 1), Torn(cs[n])))} :
           n \in DOMAIN cs}

WrittenEntries == {i \in Index : mEntryTable[i] = "WRITTEN"}
LeastOr(S, default) == IF S = {} THEN default ELSE Min(S)

\* Entries of the item at i; one whose CRC is wrong counts as a single entry.
SpanAt(i) ==
  IF mEntryTable[i] = "WRITTEN" /\ entryData[i] \in Headers THEN 1 + Len(entryData[i].val) ELSE 1

\* findItem(): the hash list leads to the first item with the key.
Find(k) ==
  IF mState = "INVALID" THEN INVALID_ENTRY
  ELSE LeastOr({i \in mHashList \cap WrittenEntries :
                  entryData[i] \in Headers /\ entryData[i].key = k}, INVALID_ENTRY)

\* cmpItem(): the item at i has this value.
Unmodified(i, v) ==
  /\ i # INVALID_ENTRY /\ entryData[i].val = v
  /\ \A n \in DOMAIN v : entryData[i + n] = v[n]

-----------------------------------------------------------------------------
(* The state bitmap. *)

Word(i) == i \div WORD_ENTRIES

\* The part of the range that lies in the word of its last entry.
LastPart ==
  {i \in altering.begin .. altering.end - 1 : Word(i) = Word(altering.end - 1)}

TableInRAM ==
  [i \in Index |-> IF i \in LastPart THEN altering.state ELSE mEntryTable[i]]

Alter(i, n, state, range, then) ==
  /\ altering' = [begin |-> i, end |-> i + n, span |-> n, state |-> state,
                  range |-> range, then |-> then]
  /\ pc' = "alter"

(***************************************************************************)
(* alterEntryState, or a turn of the loop of alterEntryRangeState that     *)
(* writes: from the end of the range, a word of the bitmap at a time.      *)
(***************************************************************************)
AlterWord ==
  /\ pc = "alter"
  /\ mEntryTable' = TableInRAM
  /\ entryTable' = [i \in Index |-> IF Word(i) = Word(altering.end - 1)
                                    THEN TableInRAM[i] ELSE entryTable[i]]
  /\ altering' = [altering EXCEPT !.end = Min(LastPart)]
  /\ pc' = IF Min(LastPart) = altering.begin THEN altering.then ELSE "alter"
  /\ UNCHANGED <<header, entryData, mState, mNextFreeEntry, mFirstUsedEntry, mUsedEntryCount,
                 mHashList, op, ret, found, written, scanVars, boundVars>>

-----------------------------------------------------------------------------
(* Requests. *)

Respond(answer) == pc' = "return" /\ ret' = answer

Begin ==
  /\ pc = "idle"
  /\ \/ \E k \in Key, v \in String : op' = [name |-> "set", key |-> k, val |-> v]
     \/ \E k \in Key : op' = [name |-> "erase", key |-> k]
  /\ pc' = "find"
  /\ UNCHANGED <<flashVars, pageVars, ret, found, written, altering, scanVars, boundVars>>

FindForSet ==
  /\ pc = "find" /\ op.name = "set"
  /\ found' = (Find(op.key) # INVALID_ENTRY)
  /\ IF Unmodified(Find(op.key), op.val)
     THEN Respond("OK") ELSE pc' = "write" /\ UNCHANGED ret
  /\ UNCHANGED <<flashVars, pageVars, op, written, altering, scanVars, boundVars>>

\* eraseEntryAndSpan() up to its first flash operation.
EraseEntryAndSpan(i) ==
  /\ mHashList' = mHashList \ {i}
  /\ mUsedEntryCount' =
       mUsedEntryCount - Cardinality(WrittenEntries \cap i .. i + SpanAt(i) - 1)
  /\ Alter(i, SpanAt(i), "ERASED", SpanAt(i) > 1, "erased")
  /\ UNCHANGED <<flashVars, mState, mEntryTable, mNextFreeEntry, mFirstUsedEntry>>

FindForErase ==
  /\ pc = "find" /\ op.name = "erase"
  /\ IF Find(op.key) = INVALID_ENTRY
     THEN Respond("NOT_FOUND") /\ UNCHANGED <<flashVars, pageVars, altering>>
     ELSE EraseEntryAndSpan(Find(op.key)) /\ UNCHANGED ret
  /\ UNCHANGED <<op, found, written, scanVars, boundVars>>

\* Page::writeItem up to its first flash operation.
TryWrite ==
  /\ pc = "write"
  /\ \/ /\ mState # "ACTIVE"
        /\ Respond(IF mState = "INVALID" THEN "INVALID_STATE" ELSE "NOT_ENOUGH_SPACE")
        /\ UNCHANGED <<mHashList, written>>
     \/ /\ mState = "ACTIVE" /\ mNextFreeEntry + 1 + Len(op.val) > ENTRY_COUNT
        /\ pc' = "markFull"
        /\ UNCHANGED <<ret, mHashList, written>>
     \/ /\ mState = "ACTIVE" /\ mNextFreeEntry + 1 + Len(op.val) <= ENTRY_COUNT
        /\ mHashList' = mHashList \cup {mNextFreeEntry}
        /\ written' = 0 /\ pc' = "item"
        /\ UNCHANGED ret
  /\ UNCHANGED <<flashVars, mState, mEntryTable, mNextFreeEntry, mFirstUsedEntry,
                 mUsedEntryCount, op, found, altering, scanVars, boundVars>>

MarkFull ==
  /\ pc = "markFull"
  /\ header' = "FULL" /\ mState' = "FULL"
  /\ Respond("NOT_ENOUGH_SPACE")
  /\ UNCHANGED <<entryTable, entryData, mEntryTable, mNextFreeEntry, mFirstUsedEntry,
                 mUsedEntryCount, mHashList, op, found, written, altering, scanVars, boundVars>>

(***************************************************************************)
(* writeItem() writes the header, then the entries that the data fills,    *)
(* all at once, and then the one it does not.                              *)
(***************************************************************************)
Filled(v) == IF v \in Ragged THEN Len(v) - 1 ELSE Len(v)
FilledNext == written = 1 /\ Filled(op.val) > 0

EntriesNext ==
  IF written = 0 THEN <<Header(op.key, op.val)>>
  ELSE IF FilledNext THEN SubSeq(op.val, 1, Filled(op.val))
  ELSE <<op.val[Len(op.val)]>>

\* writeEntry, writeEntryData: first the data, of which the states then follow.
WriteData ==
  /\ pc = "item"
  /\ entryData' = Programmed(EntriesNext)
  /\ Alter(mNextFreeEntry, Len(EntriesNext), "WRITTEN", FilledNext, "entered")
  /\ UNCHANGED <<header, entryTable, pageVars, op, ret, found, written, scanVars, boundVars>>

\* What writeEntry and writeEntryData do after the states were written.
Entered ==
  /\ pc = "entered"
  /\ mFirstUsedEntry' = IF mFirstUsedEntry = INVALID_ENTRY THEN mNextFreeEntry ELSE mFirstUsedEntry
  /\ mUsedEntryCount' = mUsedEntryCount + altering.span
  /\ mNextFreeEntry' = mNextFreeEntry + altering.span
  /\ written' = written + altering.span
  /\ pc' = IF written' <= Len(op.val) THEN "item" ELSE "written"
  /\ altering' = Unaltered
  /\ UNCHANGED <<flashVars, mState, mEntryTable, mHashList, op, ret, found, scanVars, boundVars>>

\* Storage::writeItem: the older version, if there is one, is erased.
EraseOld ==
  /\ pc = "written"
  /\ IF found THEN EraseEntryAndSpan(Find(op.key)) /\ UNCHANGED ret
     ELSE Respond("OK") /\ UNCHANGED <<flashVars, pageVars, altering>>
  /\ UNCHANGED <<op, found, written, scanVars, boundVars>>

\* eraseEntryAndSpan() after the states were written.
Erased ==
  /\ pc = "erased"
  /\ LET i    == altering.begin
         past == i + altering.span
         last == IF mNextFreeEntry > ENTRY_COUNT THEN ENTRY_COUNT ELSE mNextFreeEntry
     IN  /\ mFirstUsedEntry' =
              IF i = mFirstUsedEntry
              THEN LeastOr(WrittenEntries \cap past .. last - 1, INVALID_ENTRY)
              ELSE mFirstUsedEntry
         /\ mNextFreeEntry' = IF past > mNextFreeEntry THEN past ELSE mNextFreeEntry
  /\ IF op = NoOp THEN pc' = "scan" /\ UNCHANGED ret ELSE Respond("OK")
  /\ altering' = Unaltered
  /\ UNCHANGED <<flashVars, mState, mEntryTable, mUsedEntryCount, mHashList, op, found, written,
                 scanVars, boundVars>>

-----------------------------------------------------------------------------
(* Page::load *)

LoadTable ==
  /\ pc = "load"
  /\ mState' = header /\ mEntryTable' = entryTable /\ mHashList' = {}
  /\ mUsedEntryCount' = Cardinality({i \in Index : entryTable[i] = "WRITTEN"})
  /\ mFirstUsedEntry' = LeastOr({i \in Index : entryTable[i] = "WRITTEN"}, INVALID_ENTRY)
  /\ mNextFreeEntry' = IF header = "ACTIVE"
                       THEN LeastOr({i \in Index : entryTable[i] = "EMPTY"}, INVALID_ENTRY)
                       ELSE INVALID_ENTRY
  /\ IF header = "ACTIVE"
     THEN pc' = "half" /\ UNCHANGED scanVars
     ELSE pc' = "scan" /\ at' = mFirstUsedEntry' /\ end' = ENTRY_COUNT
  /\ UNCHANGED <<flashVars, op, ret, found, written, altering, boundVars>>

HalfWritten == mNextFreeEntry < ENTRY_COUNT /\ ~FirstWordBlank(entryData[mNextFreeEntry])

\* Mutant: an entry in use that is found half-written is not taken off the count.
ClearHalfWrittenUncounted ==
  /\ pc = "half" /\ HalfWritten
  /\ Alter(mNextFreeEntry, 1, "ERASED", FALSE, "half")
  /\ mNextFreeEntry' = mNextFreeEntry + 1
  /\ UNCHANGED <<flashVars, mState, mEntryTable, mFirstUsedEntry, mUsedEntryCount, mHashList,
                 op, ret, found, written, scanVars, boundVars>>

(***************************************************************************)
(* The entry at mNextFreeEntry has data, of which the first word tells:    *)
(* its state, which may be WRITTEN if it follows one that was cut off,     *)
(* becomes ERASED.                                                         *)
(***************************************************************************)
ClearHalfWritten ==
  /\ pc = "half" /\ HalfWritten
  /\ Alter(mNextFreeEntry, 1, "ERASED", FALSE, "half")
  /\ mUsedEntryCount' =
       IF mEntryTable[mNextFreeEntry] = "WRITTEN" THEN mUsedEntryCount - 1 ELSE mUsedEntryCount
  /\ mNextFreeEntry' = mNextFreeEntry + 1
  /\ UNCHANGED <<flashVars, mState, mEntryTable, mFirstUsedEntry, mHashList,
                 op, ret, found, written, scanVars, boundVars>>

NoneHalfWritten ==
  /\ pc = "half" /\ ~HalfWritten
  /\ pc' = "scan" /\ at' = 0
  /\ end' = IF mNextFreeEntry > ENTRY_COUNT THEN ENTRY_COUNT ELSE mNextFreeEntry
  /\ altering' = Unaltered
  /\ UNCHANGED <<flashVars, pageVars, op, ret, found, written, boundVars>>

\* The loop passes over erased entries, on a page that is not ACTIVE over all not in use.
Skipped(i) == mEntryTable[i] = "ERASED" \/ (header # "ACTIVE" /\ mEntryTable[i] = "EMPTY")

\* The entry begins an item, and the entries it spans are all in use.
Complete(i) ==
  /\ entryData[i] \in Headers
  /\ i .. i + Len(entryData[i].val) \subseteq WrittenEntries

\* An earlier item in the hash list with the same key.
Older(i) == {j \in mHashList : j < i /\ entryData[j].key = entryData[i].key}

ScanSkip ==
  /\ pc = "scan" /\ at < end /\ Skipped(at)
  /\ at' = at + 1
  /\ UNCHANGED <<flashVars, pageVars, op, pc, ret, found, written, altering, end, boundVars>>

\* Mutant: the older version is erased before the newer was found to be complete.
ScanIncompleteLast ==
  /\ pc = "scan" /\ at < end /\ ~Skipped(at) /\ ~Complete(at)
  /\ at' = at + SpanAt(at)
  /\ IF entryData[at] \in Headers /\ Older(at) # {}
     THEN EraseEntryAndSpan(Min(Older(at))) ELSE EraseEntryAndSpan(at)
  /\ UNCHANGED <<op, ret, found, written, end, boundVars>>

\* Neither the CRC nor the states of an item that was cut off are right.
ScanIncomplete ==
  /\ pc = "scan" /\ at < end /\ ~Skipped(at) /\ ~Complete(at)
  /\ EraseEntryAndSpan(at)
  /\ at' = at + SpanAt(at)
  /\ UNCHANGED <<op, ret, found, written, end, boundVars>>

\* An item that has a newer version is erased; only an ACTIVE page can have two of them.
ScanComplete ==
  /\ pc = "scan" /\ at < end /\ ~Skipped(at) /\ Complete(at)
  /\ at' = at + SpanAt(at)
  /\ IF header = "ACTIVE" /\ Older(at) # {}
     THEN /\ LET i == Min(Older(at)) IN
               /\ mHashList' = (mHashList \cup {at}) \ {i}
               /\ mUsedEntryCount' =
                    mUsedEntryCount - Cardinality(WrittenEntries \cap i .. i + SpanAt(i) - 1)
               /\ Alter(i, SpanAt(i), "ERASED", TRUE, "erased")
          /\ UNCHANGED <<flashVars, mState, mEntryTable, mNextFreeEntry, mFirstUsedEntry>>
     ELSE /\ mHashList' = mHashList \cup {at}
          /\ UNCHANGED <<flashVars, mState, mEntryTable, mNextFreeEntry, mFirstUsedEntry,
                         mUsedEntryCount, pc, altering>>
  /\ UNCHANGED <<op, ret, found, written, end, boundVars>>

ScanDone ==
  /\ pc = "scan" /\ at >= end
  /\ pc' = "idle" /\ at' = 0 /\ end' = 0
  /\ UNCHANGED <<flashVars, pageVars, op, ret, found, written, altering, boundVars>>

-----------------------------------------------------------------------------
(* The program is started, or the storage initialised again: all RAM is new. *)
Restart ==
  /\ mState' = "INVALID" /\ mEntryTable' = [i \in Index |-> "EMPTY"] /\ mHashList' = {}
  /\ mNextFreeEntry' = INVALID_ENTRY /\ mFirstUsedEntry' = INVALID_ENTRY /\ mUsedEntryCount' = 0
  /\ op' = NoOp /\ pc' = "load" /\ ret' = "OK"
  /\ found' = FALSE /\ written' = 0 /\ altering' = Unaltered /\ at' = 0 /\ end' = 0

Return ==
  /\ pc = "return"
  /\ \/ /\ ret \in {"OK", "NOT_FOUND", "NOT_ENOUGH_SPACE"} \/ ContinueAfterFailure
        /\ op' = NoOp /\ pc' = "idle" /\ ret' = "OK"
        /\ found' = FALSE /\ written' = 0 /\ altering' = Unaltered
        /\ UNCHANGED <<pageVars, scanVars>>
     \/ /\ ret \notin {"OK", "NOT_FOUND", "NOT_ENOUGH_SPACE"}
        /\ Restart
  /\ UNCHANGED <<flashVars, boundVars>>

\* A word of flash is written or it is not, the entries of a write one after the other.
CutOffData == {entryData} \cup (IF pc = "item" THEN CutOff(EntriesNext) ELSE {})

PowerFailure ==
  /\ crashes < MaxCrashes /\ crashes' = crashes + 1
  /\ entryData' \in CutOffData
  /\ Restart
  /\ UNCHANGED <<header, entryTable, faults>>

(***************************************************************************)
(* A flash operation of a request returns an error, having written nothing *)
(* or a part.  The page becomes INVALID, but not in alterEntryRangeState.  *)
(***************************************************************************)
FlashError ==
  /\ faults < MaxFaults /\ faults' = faults + 1
  /\ op # NoOp /\ pc \in {"item", "alter", "markFull"}
  /\ entryData' \in CutOffData
  /\ mEntryTable' = IF pc = "alter" THEN TableInRAM ELSE mEntryTable
  /\ mState' = IF pc = "alter" /\ altering.range THEN mState ELSE "INVALID"
  /\ Respond(IF op.name = "set" /\ altering.state = "ERASED" THEN "REMOVE_FAILED"
             ELSE "FLASH_OP_FAIL")
  /\ UNCHANGED <<header, entryTable, mNextFreeEntry, mFirstUsedEntry, mUsedEntryCount, mHashList,
                 op, found, written, altering, scanVars, crashes>>

-----------------------------------------------------------------------------
Init ==
  /\ header = "ACTIVE" /\ mState = "ACTIVE"
  /\ entryTable = [i \in Index |-> "EMPTY"] /\ mEntryTable = entryTable
  /\ entryData = [i \in Index |-> Blank]
  /\ mNextFreeEntry = 0 /\ mFirstUsedEntry = INVALID_ENTRY /\ mUsedEntryCount = 0
  /\ mHashList = {}
  /\ op = NoOp /\ pc = "idle" /\ ret = "OK" /\ found = FALSE /\ written = 0
  /\ altering = Unaltered /\ at = 0 /\ end = 0 /\ crashes = 0 /\ faults = 0

Request == Begin \/ FindForSet \/ FindForErase \/ TryWrite \/ MarkFull \/ WriteData \/ Entered
           \/ EraseOld \/ Erased \/ AlterWord \/ Return
Load == LoadTable \/ ClearHalfWritten \/ NoneHalfWritten \/ ScanSkip \/ ScanIncomplete
        \/ ScanComplete \/ ScanDone
Next == Request \/ Load \/ PowerFailure \/ FlashError

Spec == Init /\ [][Next]_vars
=============================================================================
