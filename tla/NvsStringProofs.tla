---------------------------- MODULE NvsStringProofs ----------------------------
(***************************************************************************)
(* Proofs about NvsStrings: that load() leaves a page with complete items  *)
(* only and with members that are right, and that strings are set and      *)
(* erased in one step, wherever a write or an erase was cut off, for pages *)
(* and words of the bitmap of any size, strings of any length, and any     *)
(* number of power failures and flash errors.                              *)
(***************************************************************************)
EXTENDS NvsStringProperties, NvsSequenceProofs

-----------------------------------------------------------------------------
(***************************************************************************)
(* Flash.  What there may be on it, wherever a power failure comes: whole  *)
(* items, items of which a part of the entries is in use, and behind them  *)
(* nothing.                                                                *)
(***************************************************************************)
Heads == {i \in Index : entryTable[i] = "WRITTEN" /\ entryData[i] \in Headers}

LastOf(i) == i + Len(entryData[i].val)

Covers(i, e) == i <= e /\ e <= LastOf(i)

Whole(i) == \A e \in Index : Covers(i, e) => entryTable[e] = "WRITTEN"

Untouched(e) == entryTable[e] = "EMPTY" /\ entryData[e] = Blank

FlashTypes ==
  header \in {"ACTIVE", "FULL"} /\ entryTable \in [Index -> {"EMPTY", "WRITTEN", "ERASED"}]

\* An item lies within the page, and before the next.
HeadsApart ==
  \A i \in Heads : LastOf(i) < ENTRY_COUNT /\ \A j \in Heads : i < j => LastOf(i) < j

\* An entry that is in use is one of an item.
EntriesOwned ==
  \A e \in Index : entryTable[e] = "WRITTEN" => \E i \in Heads : Covers(i, e)

\* An item of which all entries are in use has its data.
DataRight ==
  \A i \in Heads : Whole(i) =>
    \A n \in DOMAIN entryData[i].val : entryData[i + n] = entryData[i].val[n]

\* An entry is empty because a write was cut off, in an item or before it, or behind all items.
EmptyLast ==
  \A e \in Index : entryTable[e] = "EMPTY" =>
    \/ \E i \in Heads : Covers(i, e) /\ \A j \in Index : j > LastOf(i) => Untouched(j)
    \/ /\ \A j \in Index : j > e => Untouched(j)
       /\ entryData[e] = Blank \/ ~FirstWordBlank(entryData[e])

\* The newer version of an item is the last item there is.
TwoVersions ==
  \A i, j \in Heads :
    Whole(i) /\ Whole(j) /\ i < j /\ entryData[i].key = entryData[j].key =>
      header = "ACTIVE" /\ \A h \in Heads : h <= j

FlashInv ==
  FlashTypes /\ HeadsApart /\ EntriesOwned /\ DataRight /\ EmptyLast /\ TwoVersions

-----------------------------------------------------------------------------
(***************************************************************************)
(* RAM.  What the Page object says of the page, while the states of        *)
(* entries are being altered, an item is being written, or load() is on    *)
(* its way through the page.                                               *)
(***************************************************************************)
Failed == pc = "load" \/ (pc = "return" /\ ret \notin {"OK", "NOT_FOUND", "NOT_ENOUGH_SPACE"})

Erasing  == pc \in {"alter", "erased"} /\ altering.then = "erased"
Entering == pc \in {"alter", "entered"} /\ altering.then = "entered"
Clearing == pc = "alter" /\ altering.then = "half"

\* The entries that are altered, and the item if it is erased.
Altered == IF Erasing \/ Entering \/ Clearing
           THEN altering.begin .. altering.begin + altering.span - 1 ELSE {}

Gone == IF Erasing THEN {altering.begin} ELSE {}

\* The item that is written.
Writing == pc \in {"item", "written"} \/ Entering
Start   == mNextFreeEntry - written
Fresh   == IF Writing THEN {Start} ELSE {}

\* How far the loop of mLoadEntryTable has come, and the items it and the requests leave.
Swept == IF pc = "half" \/ Clearing THEN 0
         ELSE IF pc = "scan" \/ (op = NoOp /\ Erasing) THEN at ELSE ENTRY_COUNT

Kept == {h \in Heads : h < Swept} \ (Gone \cup Fresh)

\* The members count what is in use, without the entries that are being altered.
MembersRight ==
  /\ mUsedEntryCount = Cardinality(WrittenEntries \ Altered)
  /\ mFirstUsedEntry = LeastOr((WrittenEntries \ Altered) \cup Gone, INVALID_ENTRY)
  /\ mHashList = Kept \cup Fresh
  /\ \A h \in Heads : h < mNextFreeEntry \/ h \in Fresh

\* The items in the hash list are whole, and of distinct keys; there was one of the key or not.
KeptRight ==
  /\ \A h \in Kept : Whole(h)
  /\ \A g, h \in Kept : entryData[g].key = entryData[h].key => g = h
  /\ pc = "write" \/ Writing => (found <=> \E h \in Kept : entryData[h].key = op.key)

\* From where on the page is blank, and entries that will not be empty for long.
Frontier == IF Erasing /\ altering.begin + altering.span > mNextFreeEntry
            THEN altering.begin + altering.span ELSE mNextFreeEntry

Pending == IF Erasing \/ Clearing THEN altering.begin .. altering.end - 1 ELSE {}

\* The page is blank from there on, and not before.
CleanEnd ==
  \A e \in Index :
    /\ e >= Frontier =>
         /\ entryTable[e] = "EMPTY"
         /\ entryData[e] = Blank \/ (pc = "half" /\ e = Frontier /\ ~FirstWordBlank(entryData[e]))
    /\ entryTable[e] = "EMPTY" => e >= Frontier \/ e \in Pending

\* load() has yet to come to an item that was cut off.
CutItem ==
  /\ op = NoOp /\ (pc \in {"half", "scan"} \/ Clearing \/ Erasing)
  /\ \E n \in Heads :
       /\ Swept <= n /\ n < mNextFreeEntry /\ mNextFreeEntry <= LastOf(n) /\ ~Whole(n)
       /\ \A e \in Index : e > LastOf(n) => Untouched(e)
  /\ \A e \in Index : entryTable[e] = "EMPTY" => e >= mNextFreeEntry \/ e \in Pending

EndRight == header = "ACTIVE" /\ ~Writing => CleanEnd \/ CutItem

\* What is being altered, and how much of it is left.
AlterInv ==
  /\ pc = "alter" => /\ Erasing \/ Entering \/ Clearing
                     /\ altering.state = IF Entering THEN "WRITTEN" ELSE "ERASED"
                     /\ altering.begin < altering.end
  /\ pc \in {"erased", "entered"} => altering.then = pc /\ altering.end = altering.begin
  /\ Erasing \/ Entering \/ Clearing => altering.end <= altering.begin + altering.span

\* The entries of the item so far, those being written, and nothing behind.
WriteInv ==
  Writing =>
    /\ op.name = "set" /\ header = "ACTIVE" /\ Start >= 0 /\ Start + Len(op.val) < ENTRY_COUNT
    /\ written > 0 => Start \in Heads /\ entryData[Start] = Header(op.key, op.val)
    /\ \A n \in 1 .. written - 1 : entryData[Start + n] = op.val[n]
    /\ \A e \in Index : Start <= e /\ e < mNextFreeEntry => entryTable[e] = "WRITTEN"
    /\ \A e \in Index : entryTable[e] = "EMPTY" => e >= mNextFreeEntry
    /\ pc = "written" => written = 1 + Len(op.val)
    /\ pc # "written" => written \in {0, 1, 1 + Filled(op.val)} /\ written <= Len(op.val)
    /\ ~Entering => \A e \in Index : e >= mNextFreeEntry => Untouched(e)

\* Entries that are written: the data is there, and the states follow from the last one on.
EnterInv ==
  Entering =>
    /\ altering.begin = mNextFreeEntry /\ altering.span = Len(EntriesNext)
    /\ \A n \in 1 .. altering.span : entryData[altering.begin + n - 1] = EntriesNext[n]
    /\ \A e \in Index : e >= altering.begin =>
         IF e < altering.end THEN entryTable[e] = "EMPTY"
         ELSE IF e < altering.begin + altering.span THEN entryTable[e] = "WRITTEN"
         ELSE Untouched(e)

\* An item that is erased: its entries are so from the last one on.
EraseInv ==
  Erasing =>
    /\ altering.begin \in Index /\ altering.begin < Swept /\ altering.span > 0
    /\ altering.begin + altering.span <= Swept /\ Swept <= ENTRY_COUNT
    /\ pc = "alter" => altering.begin \in Heads /\ LastOf(altering.begin) + 1 = altering.begin + altering.span
    /\ \A e \in Index : altering.end <= e /\ e < altering.begin + altering.span => entryTable[e] = "ERASED"

\* load() clears an entry before it looks for items, and then goes from one to the next.
ScanInv ==
  /\ pc = "half" \/ Clearing => header = "ACTIVE" /\ mHashList = {}
  /\ Clearing => /\ altering.begin \in Index /\ altering.span = 1
                 /\ mNextFreeEntry = altering.begin + 1 /\ altering.begin \notin Heads
  /\ pc = "scan" \/ (Erasing /\ op = NoOp) =>
       /\ end <= ENTRY_COUNT /\ end <= mNextFreeEntry
       /\ \A h \in Heads : h < end /\ (h >= Swept \/ LastOf(h) < Swept)

RamInv ==
  /\ mEntryTable = entryTable /\ mState = header
  /\ MembersRight /\ KeptRight /\ EndRight
  /\ AlterInv /\ WriteInv /\ EnterInv /\ EraseInv /\ ScanInv

PC == {"idle", "find", "write", "markFull", "item", "alter", "entered", "written", "erased",
       "return", "load", "half", "scan"}

\* Types, and which request is served where.
ControlInv ==
  /\ op \in {NoOp} \cup [name : {"set"}, key : Key, val : String] \cup [name : {"erase"}, key : Key]
  /\ pc \in PC /\ found \in BOOLEAN
  /\ written \in Nat /\ at \in Nat /\ end \in Nat /\ mNextFreeEntry \in Nat
  /\ altering \in [begin : Nat, end : Nat, span : Nat, state : {"EMPTY", "WRITTEN", "ERASED"},
                   range : BOOLEAN, then : {"idle", "erased", "entered", "half"}]
  /\ pc \in {"idle", "load", "half", "scan"} \/ Clearing => op = NoOp
  /\ pc \in {"find", "write", "markFull"} => op # NoOp
  /\ pc \in {"write", "markFull"} => op.name = "set"
  /\ pc = "markFull" => header = "ACTIVE"

StringInv == FlashInv /\ ControlInv /\ (~Failed => RamInv)

-----------------------------------------------------------------------------
(* Numbers and sets. *)

LEMMA IndexProperty == Index \in SUBSET Nat /\ IsFiniteSet(Index) /\ INVALID_ENTRY \in Nat
                       /\ INVALID_ENTRY \notin Index /\ \A i \in Nat : i < ENTRY_COUNT => i \in Index
<1>1. IsFiniteSet(0 .. ENTRY_COUNT - 1)
  BY SizeAssumption, FS_Interval
<1> QED
  BY <1>1, SizeAssumption DEF Index, INVALID_ENTRY

LEMMA LeastOrProperty ==
  ASSUME NEW S \in SUBSET Nat, NEW d
  PROVE  /\ S = {} => LeastOr(S, d) = d
         /\ S # {} => LeastOr(S, d) \in S /\ \A y \in S : LeastOr(S, d) <= y
BY MinProperty DEF LeastOr

LEMMA LeastIs ==
  ASSUME NEW S \in SUBSET Nat, NEW d, NEW x \in S, \A y \in S : x <= y
  PROVE  LeastOr(S, d) = x
<1>1. LeastOr(S, d) \in S /\ LeastOr(S, d) <= x
  BY LeastOrProperty
<1>2. x <= LeastOr(S, d) /\ x \in Nat /\ LeastOr(S, d) \in Nat
  BY <1>1
<1> QED
  BY <1>1, <1>2

LEMMA WordOrder ==
  ASSUME NEW i \in Nat, NEW j \in Nat, i <= j
  PROVE  Word(i) <= Word(j) /\ Word(i) \in Int /\ Word(j) \in Int
<1> DEFINE w == WORD_ENTRIES
           p == i \div w
           q == j \div w
<1>1. w \in Nat \ {0}
  BY SizeAssumption
<1>2. p \in Int /\ q \in Int /\ i = w * p + (i % w) /\ j = w * q + (j % w) /\ i % w \in 0 .. w - 1 /\ j % w \in 0 .. w - 1
  BY <1>1
<1>3. p <= q
  <2> SUFFICES ASSUME p >= q + 1 PROVE FALSE
    BY <1>2
  <2> HIDE DEF w, p, q
  <2>1. w * p >= w * (q + 1)
    BY <1>1, <1>2
  <2>2. w * (q + 1) = w * q + w
    BY <1>1, <1>2
  <2> QED
    BY <1>1, <1>2, <2>1, <2>2
<1> QED
  BY <1>2, <1>3 DEF Word

\* A turn of alterEntryRangeState takes the end of the range.
LEMMA LastPartProperty ==
  ASSUME altering.begin \in Nat, altering.end \in Nat, altering.begin < altering.end
  PROVE  /\ Min(LastPart) \in Nat /\ altering.begin <= Min(LastPart) /\ Min(LastPart) < altering.end
         /\ LastPart = Min(LastPart) .. altering.end - 1
<1> DEFINE b == altering.begin
           e == altering.end
<1>1. LastPart = {i \in b .. e - 1 : Word(i) = Word(e - 1)}
  BY DEF LastPart
<1> HIDE DEF b, e
<1>2. b \in Nat /\ e \in Nat /\ b < e
  BY DEF b, e
<1>3. LastPart \in SUBSET Nat /\ e - 1 \in LastPart
  BY <1>1, <1>2
<1>4. Min(LastPart) \in LastPart /\ \A y \in LastPart : Min(LastPart) <= y
  BY <1>3, MinProperty
<1> DEFINE m == Min(LastPart)
<1> HIDE DEF m
<1>5. m \in b .. e - 1 /\ Word(m) = Word(e - 1) /\ \A y \in LastPart : m <= y
  BY <1>1, <1>4 DEF m
<1>6. ASSUME NEW i \in m .. e - 1 PROVE i \in LastPart
  <2>1. Word(m) <= Word(i) /\ Word(i) <= Word(e - 1) /\ Word(i) \in Int /\ Word(e - 1) \in Int
    BY <1>2, <1>5, WordOrder
  <2> QED
    BY <1>1, <1>2, <1>5, <2>1
<1>7. LastPart = m .. e - 1
  BY <1>1, <1>2, <1>5, <1>6
<1> QED
  BY <1>2, <1>5, <1>7 DEF b, e, m

\* The bitmap after a turn, in RAM and on flash.
LEMMA AlterWordTable ==
  ASSUME ControlInv, RamInv, AlterWord
  PROVE  LET m == Min(LastPart)
         IN  /\ m \in Nat /\ altering.begin <= m /\ m < altering.end
             /\ entryTable' = [i \in Index |-> IF m <= i /\ i < altering.end
                                               THEN altering.state ELSE entryTable[i]]
             /\ mEntryTable' = entryTable'
             /\ pc' = IF m = altering.begin THEN altering.then ELSE "alter"
             /\ altering' = [altering EXCEPT !.end = m]
<1>1. /\ altering.begin \in Nat /\ altering.end \in Nat /\ altering.begin < altering.end
      /\ mEntryTable = entryTable
  BY DEF ControlInv, RamInv, AlterInv, AlterWord
<1> DEFINE m == Min(LastPart)
<1>2. /\ m \in Nat /\ altering.begin <= m /\ m < altering.end
      /\ LastPart = m .. altering.end - 1
  BY <1>1, LastPartProperty
<1>3. \A i \in LastPart : Word(i) = Word(altering.end - 1)
  BY DEF LastPart
<1>4. /\ mEntryTable' = TableInRAM /\ altering' = [altering EXCEPT !.end = m]
      /\ entryTable' = [i \in Index |-> IF Word(i) = Word(altering.end - 1)
                                        THEN TableInRAM[i] ELSE entryTable[i]]
      /\ pc' = IF m = altering.begin THEN altering.then ELSE "alter"
  BY DEF AlterWord
<1> HIDE DEF m
<1>5. TableInRAM = [i \in Index |-> IF m <= i /\ i < altering.end THEN altering.state ELSE entryTable[i]]
  <2>1. \A i \in Index : i \in LastPart <=> m <= i /\ i < altering.end
    BY <1>1, <1>2, IndexProperty
  <2> QED
    BY <1>1, <2>1 DEF TableInRAM
<1>6. entryTable' = TableInRAM
  <2>1. \A i \in Index : Word(i) # Word(altering.end - 1) => i \notin LastPart
    BY <1>3
  <2>2. \A i \in Index : i \notin LastPart => TableInRAM[i] = entryTable[i]
    BY <1>1 DEF TableInRAM
  <2> QED
    BY <1>4, <1>5, <2>1, <2>2
<1> QED
  BY <1>2, <1>4, <1>5, <1>6 DEF m

-----------------------------------------------------------------------------
(* What the changes of entry states do to the items. *)

LEMMA StringProperty ==
  ASSUME NEW v \in String
  PROVE  /\ Len(v) \in Nat /\ Len(v) >= 1 /\ Len(v) < ENTRY_COUNT /\ DOMAIN v = 1 .. Len(v)
         /\ v \in Seq({v[n] : n \in DOMAIN v}) /\ \A n \in DOMAIN v : v[n] \notin Headers
<1>1. v \in Seq({v[n] : n \in DOMAIN v}) /\ Len(v) >= 1 /\ Len(v) < ENTRY_COUNT
  BY StringAssumption
<1> QED
  BY <1>1, HeaderAssumption

LEMMA HeadProperty ==
  ASSUME FlashInv, NEW h \in Heads
  PROVE  /\ h \in Index /\ h \in Nat /\ entryTable[h] = "WRITTEN" /\ entryData[h] \in Headers
         /\ entryData[h].val \in String /\ entryData[h].key \in Key
         /\ LastOf(h) \in Nat /\ LastOf(h) \in Index /\ h < LastOf(h)
         /\ LastOf(h) = h + Len(entryData[h].val) /\ SpanAt(h) \in Nat
         /\ \A i \in Heads : h < i => LastOf(h) < i
<1>1. h \in Index /\ entryTable[h] = "WRITTEN" /\ entryData[h] \in Headers /\ h \in Nat
  BY IndexProperty DEF Heads
<1>2. entryData[h].val \in String /\ entryData[h].key \in Key
  BY <1>1 DEF Headers
<1>3. Len(entryData[h].val) \in Nat /\ Len(entryData[h].val) >= 1
  BY <1>2, StringProperty
<1>4. LastOf(h) < ENTRY_COUNT /\ \A i \in Heads : h < i => LastOf(h) < i
  BY DEF FlashInv, HeadsApart
<1>5. LastOf(h) \in Nat /\ LastOf(h) = h + Len(entryData[h].val) /\ h < LastOf(h)
  BY <1>1, <1>3 DEF LastOf
<1>6. SpanAt(h) \in Nat
  BY <1>3 DEF SpanAt
<1> QED
  BY <1>1, <1>2, <1>4, <1>5, <1>6, IndexProperty

LEMMA DataProperty ==
  ASSUME FlashInv, NEW h \in Heads, NEW n \in DOMAIN entryData[h].val
  PROVE  n \in Nat /\ n >= 1 /\ h + n \in Index /\ h < h + n /\ h + n <= LastOf(h) /\ Covers(h, h + n)
<1> DEFINE v == entryData[h].val
<1>1. h \in Nat /\ v \in String /\ LastOf(h) \in Nat /\ LastOf(h) = h + Len(v) /\ LastOf(h) \in Index
  BY HeadProperty
<1>2. DOMAIN v = 1 .. Len(v) /\ Len(v) \in Nat
  BY <1>1, StringProperty
<1>3. n \in Nat /\ n >= 1 /\ n <= Len(v)
  BY <1>2
<1> HIDE DEF v
<1>4. h + n \in Nat /\ h < h + n /\ h + n <= LastOf(h)
  BY <1>1, <1>3
<1>5. h + n \in Index
  BY <1>1, <1>4, SizeAssumption DEF Index
<1> QED
  BY <1>1, <1>3, <1>4, <1>5 DEF Covers

\* Entries become ERASED, and with a header all entries of its item.
LEMMA StatesErased ==
  ASSUME FlashInv, NEW E \in SUBSET Index, header' = header, entryData' = entryData,
         entryTable' = [i \in Index |-> IF i \in E THEN "ERASED" ELSE entryTable[i]],
         \A h \in Heads \cap E : \A e \in Index : Covers(h, e) => entryTable'[e] = "ERASED",
         EmptyLast'
  PROVE  /\ FlashInv' /\ Heads' = Heads \ E
         /\ \A i : LastOf(i)' = LastOf(i)
         /\ \A i \in Heads : Whole(i)' => Whole(i)
<1>1. Heads' = Heads \ E
  BY DEF Heads
<1>2. \A i : LastOf(i)' = LastOf(i)
  BY DEF LastOf
<1>3. \A i, e : Covers(i, e)' <=> Covers(i, e)
  BY DEF Covers, LastOf
<1>4. \A i \in Heads : Whole(i)' => Whole(i)
  BY <1>3 DEF Whole
<1>5. FlashTypes'
  BY DEF FlashInv, FlashTypes
<1>6. HeadsApart'
  BY <1>1, <1>2 DEF FlashInv, HeadsApart
<1>7. EntriesOwned'
  <2> SUFFICES ASSUME NEW e \in Index, entryTable'[e] = "WRITTEN"
               PROVE  \E i \in Heads' : Covers(i, e)'
    BY DEF EntriesOwned
  <2>1. entryTable[e] = "WRITTEN"
    OBVIOUS
  <2>2. PICK i \in Heads : Covers(i, e)
    BY <2>1 DEF FlashInv, EntriesOwned
  <2>3. i \notin E
    BY <2>2
  <2> QED
    BY <1>1, <1>3, <2>2, <2>3
<1>8. DataRight'
  BY <1>1, <1>4 DEF FlashInv, DataRight
<1>9. TwoVersions'
  BY <1>1, <1>4 DEF FlashInv, TwoVersions
<1> QED
  BY <1>1, <1>2, <1>4, <1>5, <1>6, <1>7, <1>8, <1>9 DEF FlashInv

\* The end of what is left of an item is erased, and its header last.
LEMMA ItemStatesErased ==
  ASSUME FlashInv, NEW b \in Heads, NEW m \in Nat, NEW e \in Nat,
         b <= m, m < e, e <= LastOf(b) + 1,
         \A i \in Index : e <= i /\ i <= LastOf(b) => entryTable[i] = "ERASED",
         header' = header, entryData' = entryData,
         entryTable' = [i \in Index |-> IF m <= i /\ i < e THEN "ERASED" ELSE entryTable[i]]
  PROVE  /\ FlashInv' /\ Heads' = (IF m = b THEN Heads \ {b} ELSE Heads)
         /\ \A i : LastOf(i)' = LastOf(i)
         /\ \A i \in Heads : Whole(i)' => Whole(i)
<1> DEFINE E == {i \in Index : m <= i /\ i < e}
<1>1. /\ b \in Nat /\ LastOf(b) \in Nat /\ b \in Index /\ entryTable[b] = "WRITTEN" /\ Index \in SUBSET Nat
      /\ \A i \in Heads : i \in Nat /\ LastOf(i) \in Nat /\ (b < i => LastOf(b) < i) /\ (i < b => LastOf(i) < b)
  BY HeadProperty, IndexProperty
<1>2. \A i \in Index : i \in E <=> m <= i /\ i < e
  OBVIOUS
<1>3. entryTable' = [i \in Index |-> IF i \in E THEN "ERASED" ELSE entryTable[i]] /\ E \in SUBSET Index
  BY <1>2
<1> HIDE DEF E
<1>4. \A h \in Heads \cap E : h = b /\ m = b
  <2> SUFFICES ASSUME NEW h \in Heads \cap E PROVE h = b /\ m = b
    OBVIOUS
  <2>0. h \in Heads /\ h \in E /\ h \in Index
    BY DEF Heads
  <2>1. h \in Nat /\ m <= h /\ h < e /\ (b < h => LastOf(b) < h)
    BY <1>1, <1>2, <2>0
  <2>2. h <= LastOf(b) /\ b <= h
    BY <1>1, <2>1
  <2>3. h = b
    BY <1>1, <2>1, <2>2
  <2> QED
    BY <1>1, <2>1, <2>3
<1>5. \A h \in Heads \cap E : \A i \in Index : Covers(h, i) => entryTable'[i] = "ERASED"
  <2> SUFFICES ASSUME NEW h \in Heads \cap E, NEW i \in Index, Covers(h, i)
               PROVE  entryTable'[i] = "ERASED"
    OBVIOUS
  <2>1. h = b /\ m = b /\ m <= i /\ i <= LastOf(b) /\ i \in Nat
    BY <1>1, <1>4 DEF Covers
  <2> QED
    BY <1>1, <2>1
<1>6. EmptyLast'
  <2> SUFFICES ASSUME NEW i \in Index, entryTable'[i] = "EMPTY"
               PROVE  \/ \E h \in Heads' : Covers(h, i)' /\ \A j \in Index : j > LastOf(h)' => Untouched(j)'
                      \/ /\ \A j \in Index : j > i => Untouched(j)'
                         /\ entryData'[i] = Blank \/ ~FirstWordBlank(entryData'[i])
    BY DEF EmptyLast
  <2>1. entryTable[i] = "EMPTY" /\ i \notin E
    BY <1>3
  <2>2. \A j \in Index : Untouched(j) /\ j \notin E => Untouched(j)'
    BY <1>3 DEF Untouched
  <2>3. \A h : LastOf(h)' = LastOf(h) /\ (Covers(h, i) => Covers(h, i)')
    BY DEF Covers, LastOf
  <2>4. \A h \in Heads : h \notin E => h \in Heads'
    BY <1>3 DEF Heads
  <2>5. CASE b <= i /\ i <= LastOf(b)
    <3>1. b \notin E
      <4> SUFFICES ASSUME b \in E PROVE FALSE
        OBVIOUS
      <4>1. entryTable'[i] = "ERASED"
        BY <1>5, <2>5 DEF Covers
      <4> QED
        BY <4>1
    <3>2. \A j \in Index : j > LastOf(b) => Untouched(j)
      <4>1. CASE \A j \in Index : j > i => Untouched(j)
        BY <1>1, <2>5, <4>1
      <4>2. ASSUME NEW h \in Heads, Covers(h, i), \A j \in Index : j > LastOf(h) => Untouched(j)
            PROVE  \A j \in Index : j > LastOf(b) => Untouched(j)
        <5>1. h = b
          BY <1>1, <2>5, <4>2 DEF Covers
        <5> QED
          BY <4>2, <5>1
      <4> QED
        BY <2>1, <4>1, <4>2 DEF FlashInv, EmptyLast
    <3>3. \A j \in Index : j > LastOf(b) => j \notin E
      BY <1>1, <1>2
    <3> QED
      BY <2>2, <2>3, <2>4, <2>5, <3>1, <3>2, <3>3 DEF Covers
  <2>6. CASE ~(b <= i /\ i <= LastOf(b))
    <3>1. CASE /\ \A j \in Index : j > i => Untouched(j)
               /\ entryData[i] = Blank \/ ~FirstWordBlank(entryData[i])
      <4>1. b < i
        <5>1. b # i /\ ~(b > i)
          BY <1>1, <2>1, <3>1 DEF Untouched
        <5> QED
          BY <1>1, <5>1
      <4>2. \A j \in Index : j > i => j \notin E
        BY <1>1, <1>2, <2>6, <4>1
      <4> QED
        BY <2>2, <3>1, <4>2
    <3>2. ASSUME NEW h \in Heads, Covers(h, i), \A j \in Index : j > LastOf(h) => Untouched(j)
          PROVE  \E g \in Heads' : Covers(g, i)' /\ \A j \in Index : j > LastOf(g)' => Untouched(j)'
      <4>1. h # b /\ h \notin E
        BY <1>4, <2>6, <3>2 DEF Covers
      <4>2. b < h
        <5>1. ~(b > LastOf(h))
          BY <1>1, <3>2 DEF Untouched
        <5> QED
          BY <1>1, <4>1, <5>1
      <4>3. \A j \in Index : j > LastOf(h) => j \notin E
        BY <1>1, <1>2, <4>2, HeadProperty
      <4>4. \A j \in Index : j > LastOf(h)' => Untouched(j)'
        BY <2>2, <2>3, <3>2, <4>3
      <4> QED
        BY <2>3, <2>4, <3>2, <4>1, <4>4
    <3> QED
      BY <2>1, <3>1, <3>2 DEF FlashInv, EmptyLast
  <2> QED
    BY <2>5, <2>6
<1>7. Heads \ E = IF m = b THEN Heads \ {b} ELSE Heads
  <2>1. m = b => b \in E
    BY <1>1, <1>2
  <2> QED
    BY <1>4, <2>1
<1> QED
  BY <1>3, <1>5, <1>6, <1>7, StatesErased

\* load() marks an entry that is not the header of an item, before which none is empty.
LEMMA HalfWrittenErased ==
  ASSUME FlashInv, NEW f \in Index, f \notin Heads, header' = header, entryData' = entryData,
         \A e \in Index : entryTable[e] = "EMPTY" => e >= f,
         entryTable' = [i \in Index |-> IF f <= i /\ i < f + 1 THEN "ERASED" ELSE entryTable[i]]
  PROVE  /\ FlashInv' /\ Heads' = Heads
         /\ \A i : LastOf(i)' = LastOf(i)
         /\ \A i \in Heads : Whole(i)' => Whole(i)
<1>1. entryTable' = [i \in Index |-> IF i \in {f} THEN "ERASED" ELSE entryTable[i]] /\ {f} \in SUBSET Index
  <2>1. \A i \in Index : f <= i /\ i < f + 1 <=> i \in {f}
    BY IndexProperty
  <2> QED
    BY <2>1
<1>2. EmptyLast'
  <2> SUFFICES ASSUME NEW e \in Index, entryTable'[e] = "EMPTY"
               PROVE  \/ \E h \in Heads' : Covers(h, e)' /\ \A j \in Index : j > LastOf(h)' => Untouched(j)'
                      \/ /\ \A j \in Index : j > e => Untouched(j)'
                         /\ entryData'[e] = Blank \/ ~FirstWordBlank(entryData'[e])
    BY DEF EmptyLast
  <2>1. entryTable[e] = "EMPTY" /\ e > f /\ e \in Nat /\ f \in Nat
    <3>1. entryTable[e] = "EMPTY" /\ e # f
      BY <1>1
    <3> QED
      BY <3>1, IndexProperty
  <2>2. \A j \in Index : j > e => j # f
    BY <2>1, IndexProperty
  <2>3. \A j \in Index : Untouched(j) /\ j # f => Untouched(j)'
    BY <1>1 DEF Untouched
  <2>4. \A h : LastOf(h)' = LastOf(h) /\ (Covers(h, e) => Covers(h, e)')
    BY DEF Covers, LastOf
  <2>5. Heads' = Heads
    BY <1>1 DEF Heads
  <2>6. CASE /\ \A j \in Index : j > e => Untouched(j)
             /\ entryData[e] = Blank \/ ~FirstWordBlank(entryData[e])
    BY <2>2, <2>3, <2>6
  <2>7. ASSUME NEW h \in Heads, Covers(h, e), \A j \in Index : j > LastOf(h) => Untouched(j)
        PROVE  \E g \in Heads' : Covers(g, e)' /\ \A j \in Index : j > LastOf(g)' => Untouched(j)'
    <3>1. \A j \in Index : j > LastOf(h) => j # f
      BY <2>1, <2>7, HeadProperty, IndexProperty DEF Covers
    <3>2. \A j \in Index : j > LastOf(h)' => Untouched(j)'
      BY <2>3, <2>4, <2>7, <3>1
    <3> QED
      BY <2>4, <2>5, <2>7, <3>2
  <2> QED
    BY <2>1, <2>6, <2>7 DEF FlashInv, EmptyLast
<1>3. Heads \cap {f} = {} /\ Heads \ {f} = Heads
  OBVIOUS
<1>4. \A h \in Heads \cap {f} : \A e \in Index : Covers(h, e) => entryTable'[e] = "ERASED"
  BY <1>3
<1>5. /\ FlashInv' /\ Heads' = Heads \ {f}
      /\ \A i : LastOf(i)' = LastOf(i)
      /\ \A i \in Heads : Whole(i)' => Whole(i)
  BY <1>1, <1>2, <1>4, StatesErased
<1> QED
  BY <1>3, <1>5

-----------------------------------------------------------------------------
(* What is written. *)

LEMMA RequestProperty ==
  ASSUME ControlInv
  PROVE  /\ op.name = "set" => op.key \in Key /\ op.val \in String /\ op # NoOp
         /\ op.name = "erase" => op.key \in Key /\ op # NoOp
         /\ op # NoOp => op.name \in {"set", "erase"}
<1>1. \/ op = NoOp
      \/ op \in [name : {"set"}, key : Key, val : String]
      \/ op \in [name : {"erase"}, key : Key]
  BY DEF ControlInv
<1> QED
  BY <1>1 DEF NoOp

LEMMA FlashSame ==
  ASSUME FlashInv, UNCHANGED flashVars
  PROVE  /\ FlashInv' /\ Heads' = Heads
         /\ \A i : LastOf(i)' = LastOf(i) /\ (Whole(i)' <=> Whole(i))
         /\ \A i, e : Covers(i, e)' <=> Covers(i, e)
         /\ \A e : Untouched(e)' <=> Untouched(e)
<1>1. header' = header /\ entryTable' = entryTable /\ entryData' = entryData
  BY DEF flashVars
<1>2. Heads' = Heads
  BY <1>1 DEF Heads
<1>3. \A i : LastOf(i)' = LastOf(i)
  BY <1>1 DEF LastOf
<1>4. \A i, e : Covers(i, e)' <=> Covers(i, e)
  BY <1>3 DEF Covers
<1>5. \A i : Whole(i)' <=> Whole(i)
  BY <1>1, <1>4 DEF Whole
<1>6. \A e : Untouched(e)' <=> Untouched(e)
  BY <1>1 DEF Untouched
<1>7. FlashTypes' /\ HeadsApart' /\ EntriesOwned'
  BY <1>1, <1>2, <1>3, <1>4 DEF FlashInv, FlashTypes, HeadsApart, EntriesOwned
<1>8. DataRight'
  BY <1>1, <1>2, <1>5 DEF FlashInv, DataRight
<1>9. EmptyLast'
  BY <1>1, <1>2, <1>3, <1>4, <1>6 DEF FlashInv, EmptyLast
<1>10. TwoVersions'
  BY <1>1, <1>2, <1>5 DEF FlashInv, TwoVersions
<1> QED
  BY <1>2, <1>3, <1>4, <1>5, <1>6, <1>7, <1>8, <1>9, <1>10 DEF FlashInv

\* Where an item that is written starts and ends.
LEMMA WritingProperty ==
  ASSUME ControlInv, WriteInv, Writing
  PROVE  /\ op.val \in String /\ op.key \in Key /\ op # NoOp
         /\ Len(op.val) \in Nat /\ Len(op.val) >= 1 /\ DOMAIN op.val = 1 .. Len(op.val)
         /\ op.val \in Seq({op.val[n] : n \in DOMAIN op.val})
         /\ Filled(op.val) \in Nat /\ Filled(op.val) \in {Len(op.val), Len(op.val) - 1}
         /\ Start \in Nat /\ Start \in Index /\ written \in Nat /\ mNextFreeEntry \in Nat
         /\ mNextFreeEntry = Start + written /\ Start + Len(op.val) \in Index
<1>1. op.name = "set" /\ Start >= 0 /\ Start + Len(op.val) < ENTRY_COUNT
  BY DEF WriteInv
<1>2. op.val \in String /\ op.key \in Key /\ op # NoOp
  BY <1>1, RequestProperty
<1>3. /\ Len(op.val) \in Nat /\ Len(op.val) >= 1 /\ DOMAIN op.val = 1 .. Len(op.val)
      /\ op.val \in Seq({op.val[n] : n \in DOMAIN op.val})
  BY <1>2, StringProperty
<1>4. Filled(op.val) \in Nat /\ Filled(op.val) \in {Len(op.val), Len(op.val) - 1}
  BY <1>3 DEF Filled
<1>5. written \in Nat /\ mNextFreeEntry \in Nat
  BY DEF ControlInv
<1>6. Start \in Nat /\ mNextFreeEntry = Start + written
  BY <1>1, <1>5 DEF Start
<1> QED
  BY <1>1, <1>2, <1>3, <1>4, <1>5, <1>6, SizeAssumption DEF Index

\* The header, or a part of the data.
LEMMA EntriesNextProperty ==
  ASSUME ControlInv, WriteInv, Writing, pc # "written"
  PROVE  /\ EntriesNext \in Seq({EntriesNext[n] : n \in DOMAIN EntriesNext})
         /\ Len(EntriesNext) \in Nat /\ Len(EntriesNext) >= 1
         /\ DOMAIN EntriesNext = 1 .. Len(EntriesNext)
         /\ written + Len(EntriesNext) <= 1 + Len(op.val)
         /\ written = 0 => Len(EntriesNext) = 1 /\ EntriesNext[1] = Header(op.key, op.val)
         /\ written > 0 => \A n \in 1 .. Len(EntriesNext) :
              EntriesNext[n] = op.val[written - 1 + n] /\ written - 1 + n \in DOMAIN op.val
         /\ written + Len(EntriesNext) \in {1, 1 + Filled(op.val), 1 + Len(op.val)}
<1> DEFINE v == op.val
<1>1. /\ Len(v) \in Nat /\ Len(v) >= 1 /\ v \in Seq({v[n] : n \in DOMAIN v}) /\ DOMAIN v = 1 .. Len(v)
      /\ Filled(v) \in Nat /\ Filled(v) \in {Len(v), Len(v) - 1} /\ written \in Nat
  BY WritingProperty
<1>2. written \in {0, 1, 1 + Filled(v)} /\ written <= Len(v)
  BY DEF WriteInv
<1> HIDE DEF v
<1>3. CASE written = 0
  <2>1. EntriesNext = <<Header(op.key, op.val)>>
    BY <1>3 DEF EntriesNext
  <2> QED
    BY <1>1, <1>3, <2>1
<1>4. CASE FilledNext
  <2>0. written = 1 /\ Filled(v) > 0 /\ written # 0
    BY <1>4 DEF FilledNext, v
  <2>1. EntriesNext = SubSeq(v, 1, Filled(v)) /\ written = 1 /\ Filled(v) > 0
    BY <1>4, <2>0 DEF EntriesNext, v
  <2>2. /\ SubSeq(v, 1, Filled(v)) \in Seq({v[n] : n \in DOMAIN v}) /\ Len(SubSeq(v, 1, Filled(v))) = Filled(v)
        /\ \A n \in 1 .. Filled(v) : SubSeq(v, 1, Filled(v))[n] = v[n]
    BY <1>1, <2>1
  <2> DEFINE s == SubSeq(v, 1, Filled(v))
  <2>3. s \in Seq({s[n] : n \in DOMAIN s}) /\ DOMAIN s = 1 .. Filled(v)
    BY <2>2
  <2>4. \A n \in 1 .. Filled(v) : written - 1 + n = n /\ n \in DOMAIN v
    BY <1>1, <2>1
  <2> HIDE DEF s
  <2> QED
    BY <1>1, <2>1, <2>2, <2>3, <2>4 DEF s, v
<1>5. CASE written # 0 /\ ~FilledNext
  <2>1. EntriesNext = <<v[Len(v)]>>
    BY <1>5 DEF EntriesNext, v
  <2>2. written = Len(v)
    BY <1>1, <1>2, <1>5 DEF FilledNext, v
  <2> QED
    BY <1>1, <1>5, <2>1, <2>2 DEF v
<1> QED
  BY <1>3, <1>4, <1>5

\* Entries written to blank ones are what was to be written, the others stay.
LEMMA ProgrammedProperty ==
  ASSUME NEW cs, Len(cs) \in Nat, mNextFreeEntry \in Nat,
         \A i \in Index : i >= mNextFreeEntry => entryData[i] = Blank
  PROVE  \A i \in Index :
           /\ i < mNextFreeEntry => Programmed(cs)[i] = entryData[i]
           /\ i >= mNextFreeEntry + Len(cs) => Programmed(cs)[i] = entryData[i]
           /\ mNextFreeEntry <= i /\ i < mNextFreeEntry + Len(cs) =>
                Programmed(cs)[i] = cs[i - mNextFreeEntry + 1]
BY IndexProperty DEF Programmed, Over

LEMMA Behind ==
  ASSUME NEW e \in Nat, NEW s \in Nat, NEW w \in Nat, NEW v \in Nat, NEW c \in Nat, NEW d \in Nat,
         e > s + v, w + c <= 1 + v, d <= c
  PROVE  s + w + d <= e
OBVIOUS

\* Data go to blank entries of the item that is written, or its header to the first.
LEMMA DataWritten ==
  ASSUME FlashInv, ControlInv, RamInv, pc = "item", header' = header, entryTable' = entryTable,
         \A e \in Index : e < mNextFreeEntry => entryData'[e] = entryData[e],
         \A e \in Index : e > (IF written = 0 THEN Start ELSE Start + Len(op.val)) =>
           entryData'[e] = entryData[e],
         written = 0 => entryData'[Start] = Blank \/ ~FirstWordBlank(entryData'[Start])
  PROVE  /\ FlashInv' /\ Heads' = Heads
         /\ \A i \in Heads : LastOf(i)' = LastOf(i) /\ (Whole(i)' <=> Whole(i)) /\ entryData'[i] = entryData[i]
<1>1. Writing /\ ~Entering /\ WriteInv /\ MembersRight /\ KeptRight
  BY DEF Writing, Entering, RamInv
<1>2. /\ op.val \in String /\ Len(op.val) \in Nat /\ Len(op.val) >= 1
      /\ Start \in Nat /\ Start \in Index /\ written \in Nat /\ mNextFreeEntry \in Nat
      /\ mNextFreeEntry = Start + written /\ Start + Len(op.val) \in Index
  BY <1>1, WritingProperty
<1>3. \A e \in Index : e >= mNextFreeEntry => Untouched(e)
  BY <1>1 DEF WriteInv
<1>4. \A e \in Index : entryTable[e] = "EMPTY" => e >= mNextFreeEntry
  BY <1>1 DEF WriteInv
<1>5. \A e \in Index : entryTable[e] # "EMPTY" => entryData'[e] = entryData[e]
  <2>1. \A e \in Index : e \in Nat /\ (e < mNextFreeEntry \/ e >= mNextFreeEntry)
    BY <1>2, IndexProperty
  <2> QED
    BY <1>3, <2>1 DEF Untouched
<1>6. Heads' = Heads
  BY <1>5 DEF Heads
<1>7. \A i \in Heads : entryData'[i] = entryData[i] /\ LastOf(i)' = LastOf(i)
  BY <1>5 DEF Heads, LastOf
<1>8. \A i \in Heads : \A e : Covers(i, e)' <=> Covers(i, e)
  BY <1>7 DEF Covers
<1>9. \A i \in Heads : Whole(i)' <=> Whole(i)
  BY <1>8 DEF Whole
<1>10. FlashTypes' /\ HeadsApart' /\ EntriesOwned'
  BY <1>6, <1>7, <1>8 DEF FlashInv, FlashTypes, HeadsApart, EntriesOwned
<1>11. DataRight'
  <2> SUFFICES ASSUME NEW i \in Heads, Whole(i), NEW n \in DOMAIN entryData[i].val
               PROVE  entryData'[i + n] = entryData[i].val[n]
    BY <1>6, <1>7, <1>9 DEF DataRight
  <2>1. entryData[i + n] = entryData[i].val[n]
    BY DEF FlashInv, DataRight
  <2>2. i + n \in Index /\ Covers(i, i + n)
    BY DataProperty
  <2> QED
    BY <1>5, <2>1, <2>2 DEF Whole
<1>12. EmptyLast'
  <2> SUFFICES ASSUME NEW e \in Index, entryTable[e] = "EMPTY"
               PROVE  \/ \E h \in Heads : Covers(h, e) /\ \A j \in Index : j > LastOf(h) => Untouched(j)'
                      \/ /\ \A j \in Index : j > e => Untouched(j)'
                         /\ entryData'[e] = Blank \/ ~FirstWordBlank(entryData'[e])
    BY <1>6, <1>7, <1>8 DEF EmptyLast
  <2>1. e \in Nat /\ e >= mNextFreeEntry /\ Untouched(e)
    BY <1>3, <1>4, IndexProperty
  <2>2. \A j \in Index : j > e => Untouched(j)
    BY <1>2, <1>3, <2>1, IndexProperty
  <2>3. CASE written = 0
    <3>1. \A j \in Index : j > e => Untouched(j)'
      BY <1>2, <2>1, <2>2, <2>3, IndexProperty DEF Untouched
    <3>2. e = Start \/ entryData'[e] = entryData[e]
      BY <1>2, <2>1, <2>3
    <3> QED
      BY <2>1, <2>3, <3>1, <3>2 DEF Untouched
  <2>4. CASE written # 0
    <3>1. Start \in Heads /\ entryData[Start] = Header(op.key, op.val)
      BY <1>1, <1>2, <2>4 DEF WriteInv
    <3>2. LastOf(Start) = Start + Len(op.val)
      BY <3>1 DEF LastOf, Header
    <3>3. \A j \in Index : j > Start + Len(op.val) => Untouched(j)'
      <4> SUFFICES ASSUME NEW j \in Index, j > Start + Len(op.val) PROVE Untouched(j)'
        OBVIOUS
      <4>1. written <= Len(op.val)
        BY <1>1 DEF WriteInv
      <4>2. j >= mNextFreeEntry
        BY <1>2, <4>1, IndexProperty
      <4> QED
        BY <1>3, <2>4, <4>2 DEF Untouched
    <3>4. CASE e <= Start + Len(op.val)
      BY <1>2, <2>1, <3>1, <3>2, <3>3, <3>4 DEF Covers
    <3>5. CASE e > Start + Len(op.val)
      <4>1. \A j \in Index : j > e => Untouched(j)'
        BY <1>2, <2>1, <3>3, <3>5, IndexProperty
      <4> QED
        BY <3>3, <3>5, <4>1 DEF Untouched
    <3> QED
      BY <1>2, <2>1, <3>4, <3>5
  <2> QED
    BY <2>3, <2>4
<1>13. TwoVersions'
  BY <1>6, <1>7, <1>9 DEF FlashInv, TwoVersions
<1> QED
  BY <1>6, <1>7, <1>9, <1>10, <1>11, <1>12, <1>13 DEF FlashInv

\* The whole write, or a part of it.
LEMMA CutOffProperty ==
  ASSUME FlashInv, ControlInv, RamInv, pc = "item", header' = header, entryTable' = entryTable,
         entryData' \in {entryData, Programmed(EntriesNext)} \cup CutOff(EntriesNext)
  PROVE  /\ FlashInv' /\ Heads' = Heads
         /\ \A i \in Heads : LastOf(i)' = LastOf(i) /\ (Whole(i)' <=> Whole(i)) /\ entryData'[i] = entryData[i]
<1> DEFINE cs == EntriesNext
<1>1. Writing /\ ~Entering /\ WriteInv /\ pc # "written"
  BY DEF Writing, Entering, RamInv
<1>2. /\ cs \in Seq({cs[n] : n \in DOMAIN cs}) /\ Len(cs) \in Nat /\ Len(cs) >= 1
      /\ DOMAIN cs = 1 .. Len(cs)
      /\ written + Len(cs) <= 1 + Len(op.val)
      /\ written = 0 => Len(cs) = 1 /\ cs[1] = Header(op.key, op.val)
  BY <1>1, EntriesNextProperty
<1>3. /\ op.val \in String /\ op.key \in Key /\ Len(op.val) \in Nat
      /\ Start \in Nat /\ Start \in Index /\ written \in Nat /\ mNextFreeEntry \in Nat
      /\ mNextFreeEntry = Start + written
  BY <1>1, WritingProperty
<1>4. \A e \in Index : e >= mNextFreeEntry => entryData[e] = Blank
  BY <1>1 DEF WriteInv, Untouched
<1>5. Header(op.key, op.val) \in Headers
  BY <1>3 DEF Header, Headers
<1>6. ~FirstWordBlank(Header(op.key, op.val)) /\ Torn(Header(op.key, op.val)) = Part /\ ~FirstWordBlank(Part)
  <2>1. ~FirstWordBlank(Header(op.key, op.val)) /\ ~FirstWordBlank(Part)
    BY <1>5, HeaderAssumption DEF FirstWordBlank
  <2> QED
    BY <2>1 DEF Torn
<1> HIDE DEF cs
\* What holds of a write of some entries.
<1>7. ASSUME NEW ds, Len(ds) \in Nat, Len(ds) <= Len(cs), entryData' = Programmed(ds),
             written = 0 /\ Len(ds) = 1 => ds[1] \in {Header(op.key, op.val), Part}
      PROVE  /\ \A e \in Index : e < mNextFreeEntry => entryData'[e] = entryData[e]
             /\ \A e \in Index : e > (IF written = 0 THEN Start ELSE Start + Len(op.val)) =>
                  entryData'[e] = entryData[e]
             /\ written = 0 => entryData'[Start] = Blank \/ ~FirstWordBlank(entryData'[Start])
  <2>1. \A i \in Index :
           /\ i < mNextFreeEntry => entryData'[i] = entryData[i]
           /\ i >= mNextFreeEntry + Len(ds) => entryData'[i] = entryData[i]
           /\ mNextFreeEntry <= i /\ i < mNextFreeEntry + Len(ds) =>
                entryData'[i] = ds[i - mNextFreeEntry + 1]
    BY <1>3, <1>4, <1>7, ProgrammedProperty
  <2>2. \A e \in Index : e > (IF written = 0 THEN Start ELSE Start + Len(op.val)) =>
          e >= mNextFreeEntry + Len(ds)
    <3> SUFFICES ASSUME NEW e \in Index, e > (IF written = 0 THEN Start ELSE Start + Len(op.val))
                 PROVE  e >= mNextFreeEntry + Len(ds)
      OBVIOUS
    <3>1. e \in Nat /\ Len(ds) <= Len(cs)
      BY <1>7, IndexProperty
    <3>2. CASE written = 0
      BY <1>2, <1>3, <1>7, <3>1, <3>2
    <3>3. CASE written # 0
      <4>1. e > Start + Len(op.val)
        BY <3>3
      <4>2. written + Len(cs) <= 1 + Len(op.val) /\ Len(ds) \in Nat
        BY <1>2, <1>7
      <4>3. Start + written + Len(ds) <= e
        BY <1>2, <1>3, <3>1, <4>1, <4>2, Behind
      <4> QED
        BY <1>3, <4>2, <4>3, <3>1
    <3> QED
      BY <3>2, <3>3
  <2>3. ASSUME written = 0 PROVE entryData'[Start] = Blank \/ ~FirstWordBlank(entryData'[Start])
    <3>1. CASE Len(ds) = 0
      <4>1. Start >= mNextFreeEntry + Len(ds) /\ Start >= mNextFreeEntry
        BY <1>3, <2>3, <3>1
      <4> QED
        BY <1>3, <1>4, <2>1, <4>1
    <3>2. CASE Len(ds) # 0
      <4>1. Len(ds) = 1 /\ mNextFreeEntry <= Start /\ Start < mNextFreeEntry + Len(ds)
            /\ Start - mNextFreeEntry + 1 = 1
        BY <1>2, <1>3, <1>7, <2>3, <3>2
      <4>2. entryData'[Start] = ds[1]
        BY <1>3, <2>1, <4>1
      <4> QED
        BY <1>6, <1>7, <2>3, <4>1, <4>2
    <3> QED
      BY <3>1, <3>2
  <2> QED
    BY <2>1, <2>2, <2>3
<1>8. /\ \A e \in Index : e < mNextFreeEntry => entryData'[e] = entryData[e]
      /\ \A e \in Index : e > (IF written = 0 THEN Start ELSE Start + Len(op.val)) =>
           entryData'[e] = entryData[e]
      /\ written = 0 => entryData'[Start] = Blank \/ ~FirstWordBlank(entryData'[Start])
  <2>1. CASE entryData' = entryData
    BY <1>3, <1>4, <2>1
  <2>2. CASE entryData' = Programmed(cs)
    <3>1. written = 0 /\ Len(cs) = 1 => cs[1] \in {Header(op.key, op.val), Part}
      BY <1>2
    <3>2. Len(cs) <= Len(cs)
      BY <1>2
    <3> QED
      BY <1>2, <1>7, <2>2, <3>1, <3>2
  <2>3. ASSUME NEW n \in DOMAIN cs, entryData' = Programmed(SubSeq(cs, 1, n - 1))
        PROVE  <1>8!1 /\ <1>8!2 /\ <1>8!3
    <3>1. n \in Nat /\ n >= 1 /\ n <= Len(cs)
      BY <1>2
    <3>2. Len(SubSeq(cs, 1, n - 1)) = n - 1
      BY <1>2, <3>1
    <3>3. written = 0 => n - 1 = 0
      BY <1>2, <3>1
    <3>4. n - 1 \in Nat /\ n - 1 <= Len(cs)
      BY <1>2, <3>1
    <3>5. written = 0 /\ Len(SubSeq(cs, 1, n - 1)) = 1 => FALSE
      BY <3>2, <3>3
    <3> QED
      BY <1>7, <2>3, <3>2, <3>4, <3>5
  <2>4. ASSUME NEW n \in DOMAIN cs, entryData' = Programmed(Append(SubSeq(cs, 1, n - 1), Torn(cs[n])))
        PROVE  <1>8!1 /\ <1>8!2 /\ <1>8!3
    <3>1. n \in Nat /\ n >= 1 /\ n <= Len(cs)
      BY <1>2
    <3>2. /\ Len(SubSeq(cs, 1, n - 1)) = n - 1
          /\ SubSeq(cs, 1, n - 1) \in Seq({cs[m] : m \in DOMAIN cs})
      BY <1>2, <3>1
    <3> DEFINE s == SubSeq(cs, 1, n - 1)
               ds == Append(s, Torn(cs[n]))
    <3> HIDE DEF s
    <3>3. s \in Seq({cs[m] : m \in DOMAIN cs} \cup {Torn(cs[n])}) /\ Len(s) = n - 1
      BY <3>2 DEF s
    <3>4. Len(ds) = n /\ ds[n] = Torn(cs[n])
      BY <3>1, <3>3
    <3>5. written = 0 => n = 1 /\ ds[1] = Part
      BY <1>2, <1>6, <3>1, <3>4
    <3>6. entryData' = Programmed(ds)
      BY <2>4 DEF s
    <3> HIDE DEF ds
    <3> QED
      BY <1>7, <3>1, <3>4, <3>5, <3>6
  <2> QED
    BY <2>1, <2>2, <2>3, <2>4 DEF CutOff, cs
<1> QED
  BY <1>8, DataWritten

\* Entries of the item that is written come into use, from the end of the range.
LEMMA StatesWritten ==
  ASSUME FlashInv, ControlInv, RamInv, Entering, NEW m \in Nat, altering.begin <= m, m < altering.end,
         header' = header, entryData' = entryData,
         entryTable' = [i \in Index |-> IF m <= i /\ i < altering.end THEN "WRITTEN" ELSE entryTable[i]]
  PROVE  /\ FlashInv' /\ Heads' = Heads \cup {Start} /\ (Start \in Heads <=> written > 0)
         /\ \A i : LastOf(i)' = LastOf(i)
         /\ \A i \in Heads \ {Start} : Whole(i)' <=> Whole(i)
<1> DEFINE E == {i \in Index : m <= i /\ i < altering.end}
           L == Start + Len(op.val)
<1>1. Writing /\ WriteInv /\ EnterInv /\ AlterInv /\ MembersRight /\ KeptRight /\ pc \in {"alter", "entered"} /\ pc # "written"
  BY DEF Writing, Entering, RamInv
<1>2. /\ op.val \in String /\ op.key \in Key /\ Len(op.val) \in Nat /\ Len(op.val) >= 1
      /\ Start \in Nat /\ Start \in Index /\ written \in Nat /\ mNextFreeEntry \in Nat
      /\ mNextFreeEntry = Start + written /\ L \in Index /\ L \in Nat
      /\ DOMAIN op.val = 1 .. Len(op.val)
  BY <1>1, WritingProperty, IndexProperty
<1>3. /\ Len(EntriesNext) \in Nat /\ Len(EntriesNext) >= 1
      /\ written + Len(EntriesNext) <= 1 + Len(op.val)
      /\ written = 0 => Len(EntriesNext) = 1 /\ EntriesNext[1] = Header(op.key, op.val)
      /\ written > 0 => \A n \in 1 .. Len(EntriesNext) :
           EntriesNext[n] = op.val[written - 1 + n] /\ written - 1 + n \in DOMAIN op.val
  BY <1>1, EntriesNextProperty
<1> DEFINE N == Len(EntriesNext)
           V == Len(op.val)
<1>0. N \in Nat /\ N >= 1 /\ V \in Nat /\ written + N <= 1 + V /\ (written = 0 => N = 1) /\ L = Start + V
      /\ V = Len(op.val) /\ DOMAIN op.val = 1 .. V /\ L \in Nat /\ L \in Index
  BY <1>2, <1>3
<1>24. ASSUME written # 0, NEW n \in 1 .. N
       PROVE  EntriesNext[n] = op.val[written - 1 + n] /\ written - 1 + n \in DOMAIN op.val
  BY <1>2, <1>3, <1>24
<1> HIDE DEF N, V, L
<1>4. /\ altering.begin = mNextFreeEntry /\ altering.span = N
      /\ altering.end \in Nat /\ altering.end <= altering.begin + altering.span
      /\ \A n \in 1 .. altering.span : entryData[altering.begin + n - 1] = EntriesNext[n]
  BY <1>1 DEF EnterInv, AlterInv, ControlInv, N
<1>5. /\ mNextFreeEntry <= m /\ m < mNextFreeEntry + N
      /\ altering.end <= mNextFreeEntry + N /\ altering.end - 1 <= L
      /\ altering.begin \in Nat
  <2>1. /\ mNextFreeEntry <= m /\ m < mNextFreeEntry + N
        /\ altering.end <= mNextFreeEntry + N
    BY <1>0, <1>2, <1>4
  <2>3. altering.end - 1 <= L
    BY <1>0, <1>2, <1>4, <2>1
  <2> QED
    BY <1>2, <1>4, <2>1, <2>3
<1>6. \A e \in Index :
        /\ e >= mNextFreeEntry /\ e < altering.end => entryTable[e] = "EMPTY"
        /\ e >= mNextFreeEntry + N => Untouched(e)
        /\ e >= mNextFreeEntry /\ e >= altering.end /\ e < mNextFreeEntry + N => entryTable[e] = "WRITTEN"
  <2> SUFFICES ASSUME NEW e \in Index PROVE <1>6!(e)
    OBVIOUS
  <2>1. e \in Nat
    BY IndexProperty
  <2>2. e >= altering.begin =>
         IF e < altering.end THEN entryTable[e] = "EMPTY"
         ELSE IF e < altering.begin + altering.span THEN entryTable[e] = "WRITTEN"
         ELSE Untouched(e)
    BY <1>1 DEF EnterInv
  <2> QED
    BY <1>0, <1>2, <1>4, <1>5, <2>1, <2>2
<1>7. \A e \in Index : e \in E => e \in Nat /\ mNextFreeEntry <= e /\ e < altering.end /\ e <= L /\ Start <= e
                          /\ entryTable[e] = "EMPTY" /\ e >= m
  <2> SUFFICES ASSUME NEW e \in Index, e \in E
               PROVE  e \in Nat /\ mNextFreeEntry <= e /\ e < altering.end /\ e <= L /\ Start <= e
                      /\ entryTable[e] = "EMPTY" /\ e >= m
    OBVIOUS
  <2>1. e \in Nat /\ m <= e /\ e < altering.end
    BY IndexProperty
  <2>2. mNextFreeEntry <= e /\ Start <= e /\ e <= L
    BY <1>2, <1>4, <1>5, <2>1
  <2> QED
    BY <1>6, <2>1, <2>2
<1>8. entryTable' = [i \in Index |-> IF i \in E THEN "WRITTEN" ELSE entryTable[i]]
  OBVIOUS
<1>9. m \in Index /\ m \in E
  <2>1. m <= L
    BY <1>2, <1>4, <1>5
  <2>2. m \in Index
    BY <1>2, <2>1, SizeAssumption DEF Index
  <2> QED
    BY <2>2
<1> HIDE DEF E
<1>10. ASSUME NEW e \in E PROVE IF written = 0 THEN e = Start /\ entryData[e] = Header(op.key, op.val)
                                ELSE entryData[e] \notin Headers
  <2>1. e \in Index /\ e \in Nat /\ mNextFreeEntry <= e /\ e < altering.end
    BY <1>7, <1>8, <1>10 DEF E
  <2> DEFINE n == e - mNextFreeEntry + 1
  <2>2. n \in 1 .. altering.span /\ altering.begin + n - 1 = e
    <3>1. n \in Nat /\ n >= 1 /\ mNextFreeEntry + n - 1 = e
      BY <1>2, <2>1
    <3>2. n <= N
      BY <1>0, <1>2, <1>4, <1>5, <2>1
    <3> QED
      BY <1>0, <1>4, <3>1, <3>2
  <2>3. entryData[e] = EntriesNext[n]
    <3> HIDE DEF n
    <3> QED
      BY <1>4, <2>2
  <2>4. CASE written = 0
    <3>1. n = 1 /\ e = Start
      BY <1>0, <1>2, <1>4, <2>1, <2>2, <2>4
    <3> QED
      BY <1>3, <2>3, <2>4, <3>1
  <2>5. CASE written # 0
    <3>1. EntriesNext[n] = op.val[written - 1 + n] /\ written - 1 + n \in DOMAIN op.val
      BY <1>4, <1>24, <2>2, <2>5
    <3>2. op.val[written - 1 + n] \notin Headers
      BY <1>2, <3>1, HeaderAssumption
    <3> QED
      BY <2>3, <2>5, <3>1, <3>2
  <2> QED
    BY <2>4, <2>5
<1>11. Header(op.key, op.val) \in Headers /\ Header(op.key, op.val).val = op.val
  BY <1>2 DEF Header, Headers
<1>12. Start \in Heads <=> written > 0
  <2>1. written > 0 => Start \in Heads
    BY <1>1 DEF WriteInv
  <2>2. written = 0 => entryTable[Start] = "EMPTY"
    BY <1>2, <1>4, <1>5, <1>6
  <2> QED
    BY <1>2, <2>1, <2>2 DEF Heads
<1>13. Start \in Heads' /\ entryData[Start] = Header(op.key, op.val) /\ LastOf(Start) = L
  <2>1. Start \in Heads' /\ entryData[Start] = Header(op.key, op.val)
    <3>1. CASE written = 0
      <4>1. m = Start /\ entryData[Start] = Header(op.key, op.val)
        BY <1>9, <1>10, <3>1
      <4> QED
        BY <1>2, <1>8, <1>9, <1>11, <4>1 DEF Heads
    <3>2. CASE written # 0
      <4>1. Start \in Heads /\ entryData[Start] = Header(op.key, op.val)
        BY <1>1, <1>2, <3>2 DEF WriteInv
      <4> QED
        BY <1>8, <4>1 DEF Heads
    <3> QED
      BY <3>1, <3>2
  <2> QED
    BY <1>0, <1>11, <2>1 DEF LastOf
<1>14. Heads' = Heads \cup {Start}
  <2>1. ASSUME NEW h \in Heads' PROVE h \in Heads \cup {Start}
    <3>1. h \in Index /\ entryTable'[h] = "WRITTEN" /\ entryData[h] \in Headers
      BY DEF Heads
    <3>2. CASE h \in E
      BY <1>10, <3>1, <3>2
    <3>3. CASE h \notin E
      BY <1>8, <3>1, <3>3 DEF Heads
    <3> QED
      BY <3>2, <3>3
  <2>2. Heads \subseteq Heads'
    BY <1>8 DEF Heads
  <2> QED
    BY <1>13, <2>1, <2>2
<1>15. \A i : LastOf(i)' = LastOf(i)
  BY DEF LastOf
<1>16. \A i, e : Covers(i, e)' <=> Covers(i, e)
  BY DEF Covers, LastOf
\* Other items lie before this one.
<1>17. \A i \in Heads \ {Start} : i \in Nat /\ LastOf(i) \in Nat /\ i < Start /\ LastOf(i) < Start
  <2> SUFFICES ASSUME NEW i \in Heads, i # Start PROVE i \in Nat /\ LastOf(i) \in Nat /\ i < Start /\ LastOf(i) < Start
    OBVIOUS
  <2>1. i \in Index /\ i \in Nat /\ LastOf(i) \in Nat /\ LastOf(i) \in Index
    BY HeadProperty
  <2>2. i < mNextFreeEntry
    BY <1>1 DEF MembersRight, Fresh
  <2>3. CASE written > 0
    <3>1. Start \in Heads
      BY <1>12, <2>3
    <3>2. ~(Start < i)
      <4> SUFFICES ASSUME Start < i PROVE FALSE
        OBVIOUS
      <4>1. LastOf(Start) < i
        BY <3>1, HeadProperty
      <4>2. written <= V
        BY <1>0, <1>1 DEF WriteInv, Entering
      <4> QED
        BY <1>0, <1>2, <1>13, <2>1, <2>2, <4>1, <4>2
    <3>3. i < Start
      BY <1>2, <2>1, <3>2
    <3> QED
      BY <2>1, <3>1, <3>3, HeadProperty
  <2>4. CASE written = 0
    <3>1. i < Start
      BY <1>2, <2>1, <2>2, <2>4
    <3>2. Swept = ENTRY_COUNT
      BY <1>1, <1>2, RequestProperty DEF Swept, Clearing, Erasing, Entering, ControlInv, WriteInv
    <3>3. i \in Kept
      <4>1. i < ENTRY_COUNT
        BY <2>1, SizeAssumption DEF Index
      <4>2. Gone = {} /\ Fresh = {Start}
        BY <1>1 DEF Gone, Fresh, Erasing, Entering
      <4> QED
        BY <2>1, <3>2, <4>1, <4>2 DEF Kept
    <3>4. Whole(i)
      BY <1>1, <3>3 DEF KeptRight
    <3>5. ~Covers(i, Start)
      BY <1>2, <1>12, <2>4, <3>4, <1>6, <1>4, <1>5, <1>9, <1>10 DEF Whole
    <3> QED
      BY <1>2, <2>1, <3>1, <3>5 DEF Covers
  <2> QED
    BY <1>2, <2>3, <2>4
<1>18. \A i \in Heads \ {Start} : Whole(i)' <=> Whole(i)
  <2>1. \A i \in Heads \ {Start} : \A e \in Index : Covers(i, e) => e \notin E
    BY <1>2, <1>7, <1>17, IndexProperty DEF Covers
  <2> QED
    BY <1>8, <1>16, <2>1 DEF Whole
<1>19. FlashTypes' /\ EntriesOwned'
  <2>1. FlashTypes'
    BY <1>8 DEF FlashInv, FlashTypes
  <2>2. ASSUME NEW e \in Index, entryTable'[e] = "WRITTEN" PROVE \E i \in Heads' : Covers(i, e)'
    <3>1. CASE e \in E
      <4>1. Covers(Start, e)
        BY <1>7, <1>13, <3>1 DEF Covers
      <4> QED
        BY <1>13, <1>16, <4>1
    <3>2. CASE e \notin E
      <4>1. entryTable[e] = "WRITTEN"
        BY <1>8, <2>2, <3>2
      <4> QED
        BY <1>14, <1>16, <4>1 DEF FlashInv, EntriesOwned
    <3> QED
      BY <3>1, <3>2
  <2> QED
    BY <2>1, <2>2 DEF EntriesOwned
<1>20. HeadsApart'
  <2> SUFFICES ASSUME NEW i \in Heads'
               PROVE  LastOf(i) < ENTRY_COUNT /\ \A j \in Heads' : i < j => LastOf(i) < j
    BY <1>15 DEF HeadsApart
  <2>1. CASE i = Start
    <3>1. LastOf(i) < ENTRY_COUNT
      BY <1>2, <1>13, <2>1, SizeAssumption DEF Index
    <3>2. \A j \in Heads' : ~(i < j)
      BY <1>2, <1>14, <1>17, <2>1
    <3> QED
      BY <3>1, <3>2
  <2>2. CASE i # Start
    BY <1>14, <1>17, <2>2 DEF FlashInv, HeadsApart
  <2> QED
    BY <2>1, <2>2
<1>21. DataRight'
  <2> SUFFICES ASSUME NEW i \in Heads', Whole(i)', NEW n \in DOMAIN entryData[i].val
               PROVE  entryData[i + n] = entryData[i].val[n]
    BY DEF DataRight
  <2>1. CASE i # Start
    BY <1>14, <1>18, <2>1 DEF FlashInv, DataRight
  <2>2. CASE i = Start
    <3>1. entryData[i].val = op.val /\ n \in 1 .. V
      BY <1>0, <1>11, <1>13, <2>2
    <3>2. n \in Nat /\ n >= 1 /\ n <= V /\ Start + n \in Nat /\ Start <= Start + n /\ Start + n <= L
      <4>1. n \in Nat /\ n >= 1 /\ n <= V
        BY <1>0, <3>1
      <4>2. Start \in Nat
        BY <1>2
      <4> QED
        BY <1>0, <4>1, <4>2
    <3>3. Start + n \in Index
      BY <1>2, <3>2, SizeAssumption DEF Index
    <3>4. entryTable'[Start + n] = "WRITTEN"
      BY <1>13, <1>16, <2>2, <3>2, <3>3 DEF Whole, Covers
    <3>5. CASE n <= written - 1
      <4>1. \A k \in 1 .. written - 1 : entryData[Start + k] = op.val[k]
        BY <1>1 DEF WriteInv
      <4>2. n \in 1 .. written - 1
        BY <1>2, <3>2, <3>5
      <4> QED
        BY <2>2, <3>1, <4>1, <4>2
    <3>6. CASE n > written - 1
      <4>1. Start + n >= mNextFreeEntry /\ Start + n < mNextFreeEntry + N /\ written > 0
        <5>2. Start + n >= mNextFreeEntry
          BY <1>2, <3>2, <3>6
        <5>3. Start + n < mNextFreeEntry + N
          <6> SUFFICES ASSUME Start + n >= mNextFreeEntry + N PROVE FALSE
            BY <1>0, <1>2, <3>2
          <6>1. Untouched(Start + n) /\ Start + n \notin E
            BY <1>0, <1>2, <1>4, <1>5, <1>6, <1>7, <3>2, <3>3
          <6> QED
            BY <1>8, <3>3, <3>4, <6>1 DEF Untouched
        <5>4. written > 0
          BY <1>0, <1>2, <3>2, <5>3
        <5> QED
          BY <5>2, <5>3, <5>4
      <4> DEFINE k == n - written + 1
      <4>2. k \in 1 .. altering.span /\ altering.begin + k - 1 = Start + n /\ written - 1 + k = n
        BY <1>0, <1>2, <1>4, <3>2, <3>6, <4>1
      <4> HIDE DEF k
      <4>3. entryData[Start + n] = EntriesNext[k] /\ EntriesNext[k] = op.val[n]
        BY <1>0, <1>2, <1>3, <1>4, <4>1, <4>2 DEF N
      <4> QED
        BY <2>2, <3>1, <4>3
    <3> QED
      BY <1>2, <3>2, <3>5, <3>6
  <2> QED
    BY <2>1, <2>2
<1>22. EmptyLast'
  <2> SUFFICES ASSUME NEW e \in Index, entryTable'[e] = "EMPTY"
               PROVE  \/ \E h \in Heads' : Covers(h, e) /\ \A j \in Index : j > LastOf(h) => Untouched(j)'
                      \/ /\ \A j \in Index : j > e => Untouched(j)'
                         /\ entryData[e] = Blank \/ ~FirstWordBlank(entryData[e])
    BY <1>15, <1>16 DEF EmptyLast
  <2>1. entryTable[e] = "EMPTY" /\ e \in Nat /\ e \notin E
    BY <1>8, IndexProperty
  <2>2. e >= mNextFreeEntry
    BY <1>1, <2>1 DEF WriteInv
  <2>3. \A j \in Index : j > L => Untouched(j) /\ j \notin E
    <3> SUFFICES ASSUME NEW j \in Index, j > L PROVE Untouched(j) /\ j \notin E
      OBVIOUS
    <3>1. j \in Nat
      BY IndexProperty
    <3>2. Start + written + N <= j
      BY <1>0, <1>2, <3>1, Behind
    <3>3. j >= mNextFreeEntry + N
      BY <1>0, <1>2, <3>1, <3>2
    <3> QED
      BY <1>2, <1>6, <1>7, <3>1, <3>3
  <2>4. \A j \in Index : j > L => Untouched(j)'
    BY <1>8, <2>3 DEF Untouched
  <2>5. CASE e <= L
    <3>1. Covers(Start, e)
      BY <1>2, <1>13, <2>1, <2>2, <2>5 DEF Covers
    <3> QED
      BY <1>13, <2>4, <3>1
  <2>6. CASE e > L
    <3>1. \A j \in Index : j > e => Untouched(j)'
      BY <1>2, <2>1, <2>4, <2>6, IndexProperty
    <3> QED
      BY <2>3, <2>6, <3>1 DEF Untouched
  <2> QED
    <3>1. e <= L \/ e > L
      BY <1>0, <2>1
    <3> QED
      BY <2>5, <2>6, <3>1
<1>23. TwoVersions'
  <2> SUFFICES ASSUME NEW i \in Heads', NEW j \in Heads', Whole(i)', Whole(j)', i < j,
                      entryData[i].key = entryData[j].key
               PROVE  header = "ACTIVE" /\ \A h \in Heads' : h <= j
    BY DEF TwoVersions
  <2>1. i # Start
    BY <1>2, <1>14, <1>17
  <2>2. CASE j = Start
    <3>1. header = "ACTIVE"
      BY <1>1 DEF WriteInv
    <3>2. \A h \in Heads' : h <= j
      BY <1>2, <1>14, <1>17, <2>2
    <3> QED
      BY <3>1, <3>2
  <2>3. CASE j # Start
    <3>1. i \in Heads /\ j \in Heads /\ Whole(i) /\ Whole(j)
      BY <1>14, <1>18, <2>1, <2>3
    <3>2. Swept = ENTRY_COUNT /\ Gone = {} /\ Fresh = {Start}
      BY <1>1, <1>2, RequestProperty DEF Swept, Clearing, Erasing, Entering, ControlInv, WriteInv, Gone, Fresh
    <3>3. i \in Kept /\ j \in Kept
      <4>1. i \in Index /\ j \in Index /\ i < ENTRY_COUNT /\ j < ENTRY_COUNT
        BY <3>1, HeadProperty, SizeAssumption DEF Index
      <4> QED
        BY <2>1, <2>3, <3>1, <3>2, <4>1 DEF Kept
    <3>4. i = j
      BY <1>1, <3>3 DEF KeptRight
    <3> QED
      BY <1>14, <1>17, <2>3, <3>4
  <2> QED
    BY <2>2, <2>3
<1> QED
  BY <1>12, <1>14, <1>15, <1>18, <1>19, <1>20, <1>21, <1>22, <1>23 DEF FlashInv

-----------------------------------------------------------------------------
(* RAM where neither the page is altered nor an item written. *)

Quiet == pc \in {"idle", "find", "write", "markFull", "return"}

QuietInv ==
  /\ mEntryTable = entryTable /\ mState = header
  /\ mUsedEntryCount = Cardinality(WrittenEntries)
  /\ mFirstUsedEntry = LeastOr(WrittenEntries, INVALID_ENTRY)
  /\ mHashList = Heads
  /\ \A h \in Heads : h < mNextFreeEntry /\ Whole(h)
  /\ \A g, h \in Heads : entryData[g].key = entryData[h].key => g = h
  /\ pc = "write" => (found <=> \E h \in Heads : entryData[h].key = op.key)
  /\ header = "ACTIVE" =>
       \A e \in Index : /\ e >= mNextFreeEntry => Untouched(e)
                        /\ entryTable[e] = "EMPTY" => e >= mNextFreeEntry

LEMMA QuietRam == FlashInv /\ ControlInv /\ Quiet => (RamInv <=> QuietInv)
<1> SUFFICES ASSUME FlashInv, ControlInv, Quiet PROVE RamInv <=> QuietInv
  OBVIOUS
<1>1. /\ ~Erasing /\ ~Entering /\ ~Clearing /\ ~Writing
      /\ pc \notin {"alter", "erased", "entered", "half", "scan"}
  BY DEF Quiet, Erasing, Entering, Clearing, Writing
<1>2. Altered = {} /\ Gone = {} /\ Fresh = {} /\ Pending = {}
  BY <1>1 DEF Altered, Gone, Fresh, Pending
<1>3. Swept = ENTRY_COUNT /\ Frontier = mNextFreeEntry
  BY <1>1 DEF Swept, Frontier
<1>4. Kept = Heads
  <2>1. \A h \in Heads : h < ENTRY_COUNT
    BY SizeAssumption DEF Heads, Index
  <2> QED
    BY <1>2, <1>3, <2>1 DEF Kept
<1>5. WrittenEntries \ Altered = WrittenEntries /\ (WrittenEntries \ Altered) \cup Gone = WrittenEntries
      /\ Kept \cup Fresh = Heads
  BY <1>2, <1>4
<1>6. MembersRight <=> /\ mUsedEntryCount = Cardinality(WrittenEntries)
                       /\ mFirstUsedEntry = LeastOr(WrittenEntries, INVALID_ENTRY)
                       /\ mHashList = Heads
                       /\ \A h \in Heads : h < mNextFreeEntry
  BY <1>2, <1>5 DEF MembersRight
<1>7. KeptRight <=> /\ \A h \in Heads : Whole(h)
                    /\ \A g, h \in Heads : entryData[g].key = entryData[h].key => g = h
                    /\ pc = "write" => (found <=> \E h \in Heads : entryData[h].key = op.key)
  BY <1>1, <1>4 DEF KeptRight
<1>8. EndRight <=>
        (header = "ACTIVE" =>
           \A e \in Index : /\ e >= mNextFreeEntry => Untouched(e)
                            /\ entryTable[e] = "EMPTY" => e >= mNextFreeEntry)
  BY <1>1, <1>2, <1>3 DEF EndRight, CleanEnd, CutItem, Untouched
<1>9. AlterInv /\ WriteInv /\ EnterInv /\ EraseInv /\ ScanInv
  BY <1>1 DEF AlterInv, WriteInv, EnterInv, EraseInv, ScanInv
<1> QED
  BY <1>6, <1>7, <1>8, <1>9 DEF RamInv, QuietInv

\* What the Page object says of the page stays, and so does the page.
LEMMA QuietStep ==
  ASSUME StringInv, Quiet, ~Failed, ControlInv', Quiet', UNCHANGED <<flashVars, pageVars>>,
         pc' = "write" => (found' <=> \E h \in Heads : entryData[h].key = op'.key)
  PROVE  StringInv'
<1>1. QuietInv /\ FlashInv
  BY QuietRam DEF StringInv
<1>2. /\ FlashInv' /\ Heads' = Heads
      /\ \A i : LastOf(i)' = LastOf(i) /\ (Whole(i)' <=> Whole(i))
      /\ \A i, e : Covers(i, e)' <=> Covers(i, e)
      /\ \A e : Untouched(e)' <=> Untouched(e)
  BY <1>1, FlashSame
<1>3. (FlashInv /\ ControlInv /\ Quiet => (RamInv <=> QuietInv))'
  BY QuietRam, PTL
<1>4. WrittenEntries' = WrittenEntries
  BY DEF WrittenEntries, pageVars
<1>5. QuietInv'
  BY <1>1, <1>2, <1>4 DEF QuietInv, flashVars, pageVars
<1> QED
  BY <1>2, <1>3, <1>5 DEF StringInv

LEMMA BeginStep == ASSUME StringInv, Begin PROVE StringInv'
<1>1. Quiet /\ ~Failed /\ Quiet' /\ pc' = "find" /\ pc = "idle"
  BY DEF Begin, Quiet, Failed
<1>2. ControlInv'
  <2>1. op' \in [name : {"set"}, key : Key, val : String] \cup [name : {"erase"}, key : Key]
    BY DEF Begin
  <2>2. op'.name \in {"set", "erase"}
    BY <2>1
  <2> QED
    BY <1>1, <2>1, <2>2 DEF StringInv, ControlInv, Begin, PC, Clearing, NoOp, flashVars, pageVars, scanVars
<1> QED
  BY <1>1, <1>2, QuietStep DEF Begin

\* findItem() finds the item with the key, if there is one.
LEMMA FindProperty ==
  ASSUME StringInv, Quiet, ~Failed, NEW k
  PROVE  /\ Find(k) # INVALID_ENTRY <=> \E h \in Heads : entryData[h].key = k
         /\ Find(k) # INVALID_ENTRY => Find(k) \in Heads /\ entryData[Find(k)].key = k
<1>1. QuietInv /\ FlashInv
  BY QuietRam DEF StringInv
<1>2. mHashList = Heads /\ mState = header /\ mEntryTable = entryTable /\ mState # "INVALID"
  BY <1>1 DEF QuietInv, FlashInv, FlashTypes
<1> DEFINE S == {i \in mHashList \cap WrittenEntries : entryData[i] \in Headers /\ entryData[i].key = k}
<1>3. S = {h \in Heads : entryData[h].key = k}
  BY <1>2 DEF WrittenEntries, Heads
<1>4. S \in SUBSET Nat /\ INVALID_ENTRY \notin S
  BY <1>3, IndexProperty DEF Heads
<1>5. Find(k) = LeastOr(S, INVALID_ENTRY)
  BY <1>2 DEF Find
<1>6. /\ S = {} => LeastOr(S, INVALID_ENTRY) = INVALID_ENTRY
      /\ S # {} => LeastOr(S, INVALID_ENTRY) \in S
  BY <1>4, LeastOrProperty
<1> HIDE DEF S
<1>7. S = {} <=> ~\E h \in Heads : entryData[h].key = k
  BY <1>3
<1> QED
  BY <1>3, <1>4, <1>5, <1>6, <1>7

LEMMA FindForSetStep == ASSUME StringInv, FindForSet PROVE StringInv'
<1>1. Quiet /\ ~Failed /\ Quiet' /\ pc = "find" /\ pc' \in {"return", "write"} /\ op # NoOp /\ op.name = "set"
  BY RequestProperty DEF StringInv, FindForSet, Quiet, Failed, Respond
<1>2. ControlInv'
  BY <1>1 DEF StringInv, ControlInv, FindForSet, PC, Clearing, flashVars, pageVars, scanVars
<1>3. found' <=> \E h \in Heads : entryData[h].key = op'.key
  BY <1>1, FindProperty DEF FindForSet
<1> QED
  BY <1>1, <1>2, <1>3, QuietStep DEF FindForSet

LEMMA ReturnStep == ASSUME StringInv, Return, ~ContinueAfterFailure PROVE StringInv'
<1>1. CASE ret \in {"OK", "NOT_FOUND", "NOT_ENOUGH_SPACE"}
  <2>1. Quiet /\ ~Failed /\ Quiet' /\ pc' = "idle" /\ UNCHANGED <<flashVars, pageVars, scanVars>>
        /\ op' = NoOp /\ found' = FALSE /\ written' = 0 /\ altering' = Unaltered
    BY <1>1 DEF Return, Quiet, Failed
  <2>2. ControlInv'
    BY <2>1 DEF StringInv, ControlInv, PC, Clearing, flashVars, pageVars, scanVars, Unaltered
  <2> QED
    BY <2>1, <2>2, QuietStep
<1>2. CASE ret \notin {"OK", "NOT_FOUND", "NOT_ENOUGH_SPACE"}
  <2>1. Restart /\ UNCHANGED flashVars
    BY <1>2 DEF Return
  <2>2. ControlInv' /\ Failed'
    BY <2>1, IndexProperty DEF Restart, StringInv, ControlInv, PC, Clearing, flashVars, Unaltered, Failed
  <2> QED
    BY <2>1, <2>2, FlashSame DEF StringInv
<1> QED
  BY <1>1, <1>2

\* Wherever power fails, RAM is new and what is on flash was allowed for.
LEMMA CutOffDataProperty ==
  ASSUME StringInv, entryData' \in CutOffData, header' = header, entryTable' = entryTable
  PROVE  FlashInv'
<1>1. CASE entryData' = entryData
  BY <1>1, FlashSame DEF StringInv, flashVars
<1>2. CASE entryData' # entryData
  <2>1. pc = "item" /\ entryData' \in CutOff(EntriesNext)
    BY <1>2 DEF CutOffData
  <2>2. RamInv
    BY <2>1 DEF StringInv, Failed
  <2> QED
    BY <2>1, <2>2, CutOffProperty DEF StringInv
<1> QED
  BY <1>1, <1>2

LEMMA PowerFailureStep == ASSUME StringInv, PowerFailure PROVE StringInv'
<1>1. Restart /\ entryData' \in CutOffData /\ header' = header /\ entryTable' = entryTable
  BY DEF PowerFailure
<1>2. ControlInv' /\ Failed'
  BY <1>1, IndexProperty DEF Restart, StringInv, ControlInv, PC, Clearing, Unaltered, Failed
<1> QED
  BY <1>1, <1>2, CutOffDataProperty DEF StringInv

LEMMA FlashErrorStep == ASSUME StringInv, FlashError PROVE StringInv'
<1>1. entryData' \in CutOffData /\ header' = header /\ entryTable' = entryTable
  BY DEF FlashError
<1>2. ret' \in {"REMOVE_FAILED", "FLASH_OP_FAIL"} /\ pc' = "return"
  BY DEF FlashError, Respond
<1>3. ControlInv' /\ Failed'
  BY <1>2 DEF FlashError, StringInv, ControlInv, PC, Clearing, Failed, scanVars
<1> QED
  BY <1>1, <1>3, CutOffDataProperty DEF StringInv

\* The page becomes FULL, which it can while it has one item of each key.
LEMMA MarkFullStep == ASSUME StringInv, MarkFull PROVE StringInv'
<1>1. Quiet /\ ~Failed /\ Quiet' /\ pc' = "return" /\ ret' = "NOT_ENOUGH_SPACE" /\ header' = "FULL" /\ mState' = "FULL"
      /\ UNCHANGED <<entryTable, entryData, mEntryTable, mNextFreeEntry, mFirstUsedEntry, mUsedEntryCount, mHashList>>
      /\ UNCHANGED <<op, found, written, altering, scanVars>>
  BY DEF MarkFull, Quiet, Failed, Respond
<1>2. QuietInv /\ FlashInv
  BY <1>1, QuietRam DEF StringInv
<1>3. Heads' = Heads /\ (\A i : LastOf(i)' = LastOf(i)) /\ WrittenEntries' = WrittenEntries
  BY <1>1 DEF Heads, LastOf, WrittenEntries
<1>4. \A i, e : Covers(i, e)' <=> Covers(i, e)
  BY <1>3 DEF Covers
<1>5. \A i : Whole(i)' <=> Whole(i)
  BY <1>1, <1>4 DEF Whole
<1>6. \A e : Untouched(e)' <=> Untouched(e)
  BY <1>1 DEF Untouched
<1>7. FlashTypes' /\ HeadsApart' /\ EntriesOwned' /\ DataRight'
  BY <1>1, <1>2, <1>3, <1>4, <1>5 DEF FlashInv, FlashTypes, HeadsApart, EntriesOwned, DataRight
<1>8. EmptyLast'
  BY <1>1, <1>2, <1>3, <1>4, <1>6 DEF FlashInv, EmptyLast
<1>9. TwoVersions'
  <2> SUFFICES ASSUME NEW i \in Heads, NEW j \in Heads, i < j, entryData[i].key = entryData[j].key PROVE FALSE
    BY <1>1, <1>3 DEF TwoVersions
  <2>1. i = j
    BY <1>2 DEF QuietInv
  <2> QED
    BY <2>1, HeadProperty, <1>2
<1>10. ControlInv'
  BY <1>1 DEF StringInv, ControlInv, PC, Clearing, scanVars
<1>11. QuietInv'
  BY <1>1, <1>2, <1>3, <1>5 DEF QuietInv
<1>12. (FlashInv /\ ControlInv /\ Quiet => (RamInv <=> QuietInv))'
  BY QuietRam, PTL
<1> QED
  BY <1>1, <1>7, <1>8, <1>9, <1>10, <1>11, <1>12 DEF StringInv, FlashInv

\* An operation that does nothing to flash, and none to RAM.
LEMMA RefuseStep ==
  ASSUME StringInv, TryWrite, pc' \in {"return", "markFull"}
  PROVE  StringInv'
<1>1. Quiet /\ ~Failed /\ Quiet' /\ pc = "write" /\ UNCHANGED <<flashVars, mState, mEntryTable, mNextFreeEntry, mFirstUsedEntry,
                 mUsedEntryCount, op, found, altering, scanVars>>
  BY DEF TryWrite, Quiet, Failed
<1>2. UNCHANGED <<mHashList, written>> /\ (pc' = "markFull" => mState = "ACTIVE")
  BY DEF TryWrite, Respond
<1>3. UNCHANGED pageVars
  BY <1>1, <1>2 DEF pageVars
<1>4. mState = header /\ op # NoOp /\ op.name = "set"
  BY <1>1 DEF StringInv, RamInv, ControlInv
<1>5. ControlInv'
  BY <1>1, <1>2, <1>4 DEF StringInv, ControlInv, PC, Clearing, scanVars, flashVars
<1> QED
  BY <1>1, <1>3, <1>5, QuietStep

LEMMA InitInv == ASSUME Init PROVE StringInv
<1>1. Heads = {}
  BY DEF Init, Heads
<1>2. FlashInv
  BY <1>1 DEF Init, FlashInv, FlashTypes, HeadsApart, EntriesOwned, DataRight, EmptyLast, TwoVersions, Untouched
<1>3. ControlInv /\ Quiet
  BY IndexProperty DEF Init, ControlInv, PC, Clearing, Quiet, Unaltered
<1>4. WrittenEntries = {}
  BY DEF Init, WrittenEntries
<1>5. QuietInv
  <2>1. Cardinality({}) = 0
    BY FS_EmptySet
  <2>2. LeastOr({}, INVALID_ENTRY) = INVALID_ENTRY
    BY LeastOrProperty
  <2> QED
    BY <1>1, <1>4, <2>1, <2>2, IndexProperty DEF Init, QuietInv, Untouched
<1> QED
  BY <1>2, <1>3, <1>5, QuietRam DEF StringInv

-----------------------------------------------------------------------------
(* RAM while an item is written. *)

LEMMA Fits ==
  ASSUME NEW a \in Nat, NEW b \in Nat, NEW c \in Nat, a + 1 + b <= c
  PROVE  a >= 0 /\ a + b < c
OBVIOUS

LEMMA WritingForm ==
  FlashInv /\ ControlInv /\ Writing /\ op.name = "set" =>
    /\ ~Erasing /\ ~Clearing /\ ~Failed /\ op # NoOp /\ pc \notin {"half", "scan", "load", "return", "erased"}
    /\ Swept = ENTRY_COUNT /\ Gone = {} /\ Fresh = {Start} /\ Kept = Heads \ {Start}
    /\ Altered = (IF Entering THEN altering.begin .. altering.begin + altering.span - 1 ELSE {})
<1> SUFFICES ASSUME FlashInv, ControlInv, Writing, op.name = "set"
             PROVE  /\ ~Erasing /\ ~Clearing /\ ~Failed /\ op # NoOp /\ pc \notin {"half", "scan", "load", "return", "erased"}
                    /\ Swept = ENTRY_COUNT /\ Gone = {} /\ Fresh = {Start} /\ Kept = Heads \ {Start}
                    /\ Altered = (IF Entering THEN altering.begin .. altering.begin + altering.span - 1 ELSE {})
  OBVIOUS
<1>1. op # NoOp
  BY RequestProperty
<1>2. ~Erasing /\ ~Clearing /\ ~Failed /\ pc \notin {"half", "scan", "load", "return", "erased"}
  BY DEF Writing, Erasing, Entering, Clearing, Failed
<1>3. Swept = ENTRY_COUNT /\ Gone = {} /\ Fresh = {Start}
  BY <1>1, <1>2 DEF Swept, Gone, Fresh
<1>4. \A h \in Heads : h < ENTRY_COUNT
  BY SizeAssumption DEF Heads, Index
<1>5. Kept = Heads \ {Start}
  BY <1>3, <1>4 DEF Kept
<1> QED
  BY <1>1, <1>2, <1>3, <1>5 DEF Altered

WritingInv ==
  /\ mEntryTable = entryTable /\ mState = header
  /\ mUsedEntryCount = Cardinality(WrittenEntries \ Altered)
  /\ mFirstUsedEntry = LeastOr(WrittenEntries \ Altered, INVALID_ENTRY)
  /\ mHashList = Heads \cup {Start}
  /\ \A h \in Heads \ {Start} : h < mNextFreeEntry /\ Whole(h)
  /\ \A g, h \in Heads \ {Start} : entryData[g].key = entryData[h].key => g = h
  /\ found <=> \E h \in Heads \ {Start} : entryData[h].key = op.key
  /\ AlterInv /\ WriteInv /\ EnterInv

LEMMA WritingRam == FlashInv /\ ControlInv /\ Writing => (RamInv <=> WritingInv)
<1> SUFFICES ASSUME FlashInv, ControlInv, Writing, op.name = "set" PROVE RamInv <=> WritingInv
  BY DEF RamInv, WritingInv, WriteInv
<1>1. /\ ~Erasing /\ ~Clearing /\ ~Failed /\ op # NoOp /\ pc \notin {"half", "scan", "load", "return", "erased"}
      /\ Swept = ENTRY_COUNT /\ Gone = {} /\ Fresh = {Start} /\ Kept = Heads \ {Start}
  BY WritingForm
<1>2. Kept \cup Fresh = Heads \cup {Start} /\ (WrittenEntries \ Altered) \cup Gone = WrittenEntries \ Altered
  BY <1>1
<1>3. MembersRight <=> /\ mUsedEntryCount = Cardinality(WrittenEntries \ Altered)
                       /\ mFirstUsedEntry = LeastOr(WrittenEntries \ Altered, INVALID_ENTRY)
                       /\ mHashList = Heads \cup {Start}
                       /\ \A h \in Heads \ {Start} : h < mNextFreeEntry
  BY <1>1, <1>2 DEF MembersRight
<1>4. KeptRight <=> /\ \A h \in Heads \ {Start} : Whole(h)
                    /\ \A g, h \in Heads \ {Start} : entryData[g].key = entryData[h].key => g = h
                    /\ found <=> \E h \in Heads \ {Start} : entryData[h].key = op.key
  BY <1>1 DEF KeptRight
<1>5. EndRight /\ EraseInv /\ ScanInv
  BY <1>1 DEF EndRight, EraseInv, ScanInv
<1> QED
  BY <1>3, <1>4, <1>5 DEF RamInv, WritingInv

\* Page::writeItem() finds room for the item.
LEMMA TryWriteStep ==
  ASSUME StringInv, TryWrite, pc' = "item"
  PROVE  StringInv'
<1>1. Quiet /\ ~Failed /\ pc = "write" /\ UNCHANGED <<flashVars, mState, mEntryTable, mNextFreeEntry, mFirstUsedEntry,
                 mUsedEntryCount, op, found, altering, scanVars>>
      /\ mState = "ACTIVE" /\ mNextFreeEntry + 1 + Len(op.val) <= ENTRY_COUNT
      /\ mHashList' = mHashList \cup {mNextFreeEntry} /\ written' = 0
  BY DEF TryWrite, Quiet, Failed, Respond
<1>2. QuietInv /\ FlashInv /\ ControlInv
  BY <1>1, QuietRam DEF StringInv
<1>3. header = "ACTIVE" /\ op # NoOp /\ op.name = "set" /\ op.val \in String /\ mNextFreeEntry \in Nat /\ op.key \in Key
  BY <1>1, <1>2, RequestProperty DEF QuietInv, ControlInv
<1>4. Len(op.val) \in Nat /\ Len(op.val) >= 1
  BY <1>3, StringProperty
<1>5. /\ FlashInv' /\ Heads' = Heads
      /\ \A i : LastOf(i)' = LastOf(i) /\ (Whole(i)' <=> Whole(i))
      /\ \A e : Untouched(e)' <=> Untouched(e)
  BY <1>1, <1>2, FlashSame
<1>6. ControlInv' /\ Writing' /\ ~Entering'
  BY <1>1, <1>2, <1>3 DEF ControlInv, PC, Clearing, scanVars, flashVars, Writing, Entering
<1>7. Start' = mNextFreeEntry /\ mNextFreeEntry \notin Heads
  BY <1>1, <1>2, <1>3 DEF Start, QuietInv
<1>8. WrittenEntries' \ Altered' = WrittenEntries
  <2>1. Altered' = {}
    BY <1>6, <1>1 DEF Altered, Erasing, Entering, Clearing
  <2> QED
    BY <1>1, <2>1 DEF WrittenEntries
<1>9. AlterInv' /\ EnterInv'
  BY <1>6 DEF AlterInv, EnterInv, Erasing, Entering, Clearing
<1>10. WriteInv'
  <2>0. mNextFreeEntry >= 0 /\ mNextFreeEntry + Len(op.val) < ENTRY_COUNT
    <3>1. mNextFreeEntry + 1 + Len(op.val) <= ENTRY_COUNT
      BY <1>1
    <3>2. mNextFreeEntry \in Nat /\ Len(op.val) \in Nat
      BY <1>3, <1>4
    <3> QED
      BY <3>1, <3>2, Fits, SizeAssumption
  <2>1. op'.name = "set" /\ header' = "ACTIVE" /\ Start' >= 0 /\ Start' + Len(op'.val) < ENTRY_COUNT
    BY <1>1, <1>3, <1>7, <2>0 DEF flashVars
  <2>2. \A e \in Index : e >= mNextFreeEntry => Untouched(e)
    BY <1>2, <1>3 DEF QuietInv
  <2>3. \A e \in Index : entryTable[e] = "EMPTY" => e >= mNextFreeEntry
    BY <1>2, <1>3 DEF QuietInv
  <2>4. \A e \in Index : ~(mNextFreeEntry <= e /\ e < mNextFreeEntry)
    BY <1>3, IndexProperty
  <2> QED
    BY <1>1, <1>4, <1>5, <1>7, <2>1, <2>2, <2>3, <2>4 DEF WriteInv, flashVars
<1>11. WritingInv'
  <2>1. mEntryTable' = entryTable' /\ mState' = header'
    BY <1>1, <1>2 DEF QuietInv, flashVars
  <2>2. mHashList' = Heads' \cup {Start'} /\ Heads' \ {Start'} = Heads
    BY <1>1, <1>2, <1>5, <1>7 DEF QuietInv
  <2>3. found' <=> \E h \in Heads : entryData[h].key = op.key
    BY <1>1, <1>2 DEF QuietInv
  <2>4. /\ mUsedEntryCount' = Cardinality(WrittenEntries' \ Altered')
        /\ mFirstUsedEntry' = LeastOr(WrittenEntries' \ Altered', INVALID_ENTRY)
    BY <1>1, <1>2, <1>8 DEF QuietInv
  <2>5. /\ \A h \in Heads' \ {Start'} : h < mNextFreeEntry' /\ Whole(h)'
        /\ \A g, h \in Heads' \ {Start'} : entryData'[g].key = entryData'[h].key => g = h
    BY <1>1, <1>2, <1>5, <2>2 DEF QuietInv, flashVars
  <2>6. found' <=> \E h \in Heads' \ {Start'} : entryData'[h].key = op'.key
    BY <1>1, <2>2, <2>3 DEF flashVars
  <2> QED
    BY <1>9, <1>10, <2>1, <2>2, <2>4, <2>5, <2>6 DEF WritingInv
<1>12. (FlashInv /\ ControlInv /\ Writing => (RamInv <=> WritingInv))'
  BY WritingRam, PTL
<1> QED
  BY <1>5, <1>6, <1>11, <1>12 DEF StringInv

\* The entries are programmed; their states are not altered yet.
LEMMA WriteDataStep == ASSUME StringInv, WriteData PROVE StringInv'
<1> DEFINE cs == EntriesNext
           N == Len(EntriesNext)
<1>1. /\ pc = "item" /\ pc' = "alter" /\ entryData' = Programmed(EntriesNext)
      /\ altering' = [begin |-> mNextFreeEntry, end |-> mNextFreeEntry + N, span |-> N, state |-> "WRITTEN",
                      range |-> FilledNext, then |-> "entered"]
      /\ UNCHANGED <<header, entryTable, pageVars, op, ret, found, written, scanVars, boundVars>>
  BY DEF WriteData, Alter
<1>2. Writing /\ ~Entering /\ ~Failed /\ Writing' /\ Entering' /\ ~Clearing' /\ ~Erasing'
  BY <1>1 DEF Writing, Entering, Failed, Clearing, Erasing
<1>3. FlashInv /\ ControlInv /\ RamInv /\ WritingInv /\ WriteInv
  BY <1>2, WritingRam DEF StringInv, WritingInv
<1>4. /\ cs \in Seq({cs[n] : n \in DOMAIN cs}) /\ N \in Nat /\ N >= 1 /\ DOMAIN cs = 1 .. N
  BY <1>1, <1>2, <1>3, EntriesNextProperty
<1>5. /\ op.val \in String /\ op # NoOp /\ Start \in Nat /\ written \in Nat /\ mNextFreeEntry \in Nat
      /\ mNextFreeEntry = Start + written
  BY <1>2, <1>3, WritingProperty
<1>6. /\ FlashInv' /\ Heads' = Heads
      /\ \A i \in Heads : LastOf(i)' = LastOf(i) /\ (Whole(i)' <=> Whole(i)) /\ entryData'[i] = entryData[i]
  BY <1>1, <1>3, CutOffProperty
<1>7. \A e \in Index : e >= mNextFreeEntry => Untouched(e)
  BY <1>1, <1>2, <1>3 DEF WriteInv
<1>8. \A i \in Index :
        /\ i < mNextFreeEntry => entryData'[i] = entryData[i]
        /\ i >= mNextFreeEntry + N => entryData'[i] = entryData[i]
        /\ mNextFreeEntry <= i /\ i < mNextFreeEntry + N => entryData'[i] = cs[i - mNextFreeEntry + 1]
  <2>1. \A i \in Index : i >= mNextFreeEntry => entryData[i] = Blank
    BY <1>7 DEF Untouched
  <2> QED
    BY <1>1, <1>4, <1>5, <2>1, ProgrammedProperty
<1>9. EntriesNext' = cs /\ FilledNext' = FilledNext /\ Start' = Start
  BY <1>1 DEF EntriesNext, FilledNext, Start, pageVars
<1>10. ControlInv'
  <2>1. altering' \in [begin : Nat, end : Nat, span : Nat, state : {"EMPTY", "WRITTEN", "ERASED"},
                       range : BOOLEAN, then : {"idle", "erased", "entered", "half"}]
    BY <1>1, <1>4, <1>5 DEF FilledNext
  <2> QED
    BY <1>1, <1>2, <1>3, <1>5, <2>1 DEF ControlInv, PC, scanVars, pageVars
<1> HIDE DEF N, cs
<1>11. WrittenEntries' \ Altered' = WrittenEntries \ Altered
  <2>1. Altered = {} /\ Altered' = mNextFreeEntry .. mNextFreeEntry + N - 1
    BY <1>1, <1>2 DEF Altered, Erasing, Entering, Clearing
  <2>2. WrittenEntries' = WrittenEntries
    BY <1>1 DEF WrittenEntries, pageVars
  <2>3. \A e \in WrittenEntries : e \notin mNextFreeEntry .. mNextFreeEntry + N - 1
    BY <1>3, <1>4, <1>5, <1>7 DEF WritingInv, WrittenEntries, Untouched
  <2> QED
    BY <2>1, <2>2, <2>3
<1>12. AlterInv'
  BY <1>1, <1>2, <1>4, <1>5 DEF AlterInv
<1>13. WriteInv'
  <2>1. written > 0 => Start \in Heads' /\ entryData'[Start] = Header(op.key, op.val)
    BY <1>2, <1>3, <1>6 DEF WriteInv
  <2>2. ASSUME NEW n \in 1 .. written - 1 PROVE entryData'[Start + n] = op.val[n]
    <3>1. entryData[Start + n] = op.val[n]
      BY <1>2, <1>3 DEF WriteInv
    <3>2. Start + n < mNextFreeEntry /\ Start + n \in Nat
      BY <1>5
    <3>3. written <= Len(op.val) /\ Start + Len(op.val) < ENTRY_COUNT /\ Len(op.val) \in Nat
      BY <1>1, <1>2, <1>3, <1>5, StringProperty DEF WriteInv
    <3>4. Start + n < ENTRY_COUNT
      BY <1>5, <3>2, <3>3, SizeAssumption
    <3>5. Start + n \in Index
      BY <3>2, <3>4, IndexProperty
    <3> QED
      BY <1>8, <3>1, <3>2, <3>5
  <2> QED
    BY <1>1, <1>2, <1>3, <1>9, <2>1, <2>2 DEF WriteInv, pageVars, Filled
<1>14. EnterInv'
  <2>1. altering'.begin = mNextFreeEntry' /\ altering'.span = Len(EntriesNext')
    BY <1>1, <1>9 DEF pageVars, N, cs
  <2>2. ASSUME NEW n \in 1 .. N PROVE entryData'[mNextFreeEntry + n - 1] = cs[n]
    <3>1. written + N <= 1 + Len(op.val) /\ Start + Len(op.val) < ENTRY_COUNT /\ Len(op.val) \in Nat
      BY <1>1, <1>2, <1>3, <1>5, StringProperty, EntriesNextProperty DEF WriteInv, N
    <3> DEFINE i == mNextFreeEntry + n - 1
    <3>2. i \in Nat /\ mNextFreeEntry <= i /\ i < mNextFreeEntry + N /\ i - mNextFreeEntry + 1 = n
      BY <1>4, <1>5
    <3>3. i < ENTRY_COUNT
      BY <1>4, <1>5, <3>1, <3>2, SizeAssumption
    <3> HIDE DEF i
    <3>4. i \in Index /\ entryData'[i] = cs[i - mNextFreeEntry + 1]
      BY <1>8, <3>2, <3>3, IndexProperty
    <3> QED
      BY <3>2, <3>4 DEF i
  <2>3. ASSUME NEW e \in Index, e >= mNextFreeEntry
        PROVE  IF e < mNextFreeEntry + N THEN entryTable'[e] = "EMPTY" ELSE Untouched(e)'
    BY <1>1, <1>4, <1>5, <1>7, <1>8, <2>3, IndexProperty DEF Untouched
  <2> QED
    BY <1>1, <1>2, <1>4, <1>5, <1>9, <2>1, <2>2, <2>3 DEF EnterInv, N, cs
<1>15. WritingInv'
  <2>1. mEntryTable' = entryTable' /\ mState' = header' /\ mHashList' = Heads' \cup {Start'}
    BY <1>1, <1>3, <1>6, <1>9 DEF WritingInv, pageVars
  <2>2. /\ mUsedEntryCount' = Cardinality(WrittenEntries' \ Altered')
        /\ mFirstUsedEntry' = LeastOr(WrittenEntries' \ Altered', INVALID_ENTRY)
    BY <1>1, <1>3, <1>11 DEF WritingInv, pageVars
  <2>3. /\ \A h \in Heads' \ {Start'} : h < mNextFreeEntry' /\ Whole(h)'
        /\ \A g, h \in Heads' \ {Start'} : entryData'[g].key = entryData'[h].key => g = h
    BY <1>1, <1>3, <1>6, <1>9 DEF WritingInv, pageVars
  <2>4. found' <=> \E h \in Heads' \ {Start'} : entryData'[h].key = op'.key
    BY <1>1, <1>3, <1>6, <1>9 DEF WritingInv
  <2> QED
    BY <1>12, <1>13, <1>14, <2>1, <2>2, <2>3, <2>4 DEF WritingInv
<1>16. (FlashInv /\ ControlInv /\ Writing => (RamInv <=> WritingInv))'
  BY WritingRam, PTL
<1> QED
  BY <1>2, <1>6, <1>10, <1>15, <1>16 DEF StringInv

\* A word of the bitmap while the states of the item's entries are written.
LEMMA AlterEnteringStep ==
  ASSUME StringInv, AlterWord, Entering
  PROVE  StringInv'
<1> DEFINE m == Min(LastPart)
<1>1. /\ pc = "alter" /\ Writing /\ ~Failed /\ altering.then = "entered"
      /\ UNCHANGED <<header, entryData, mState, mNextFreeEntry, mFirstUsedEntry, mUsedEntryCount,
                     mHashList, op, ret, found, written, scanVars, boundVars>>
  BY DEF AlterWord, Entering, Writing, Failed
<1>2. FlashInv /\ ControlInv /\ RamInv /\ WritingInv /\ WriteInv /\ EnterInv /\ AlterInv
  BY <1>1, WritingRam DEF StringInv, WritingInv
<1>3. /\ m \in Nat /\ altering.begin <= m /\ m < altering.end
      /\ entryTable' = [i \in Index |-> IF m <= i /\ i < altering.end THEN altering.state ELSE entryTable[i]]
      /\ mEntryTable' = entryTable'
      /\ pc' = IF m = altering.begin THEN altering.then ELSE "alter"
      /\ altering' = [altering EXCEPT !.end = m]
  BY <1>2, AlterWordTable
<1> HIDE DEF m
<1>4. altering.state = "WRITTEN"
  BY <1>1, <1>2 DEF AlterInv
<1>5. entryTable' = [i \in Index |-> IF m <= i /\ i < altering.end THEN "WRITTEN" ELSE entryTable[i]]
  BY <1>3, <1>4
<1>6. /\ FlashInv' /\ Heads' = Heads \cup {Start} /\ (Start \in Heads <=> written > 0)
      /\ \A i : LastOf(i)' = LastOf(i)
      /\ \A i \in Heads \ {Start} : Whole(i)' <=> Whole(i)
  BY <1>1, <1>2, <1>3, <1>5, StatesWritten
<1>7. /\ altering \in [begin : Nat, end : Nat, span : Nat, state : {"EMPTY", "WRITTEN", "ERASED"},
                       range : BOOLEAN, then : {"idle", "erased", "entered", "half"}]
      /\ altering.begin \in Nat /\ altering.end \in Nat /\ altering.span \in Nat
      /\ altering.end <= altering.begin + altering.span
  BY <1>2 DEF ControlInv, AlterInv
<1>8. /\ altering' \in [begin : Nat, end : Nat, span : Nat, state : {"EMPTY", "WRITTEN", "ERASED"},
                        range : BOOLEAN, then : {"idle", "erased", "entered", "half"}]
      /\ altering'.begin = altering.begin /\ altering'.span = altering.span /\ altering'.end = m
      /\ altering'.state = "WRITTEN" /\ altering'.then = "entered"
  BY <1>1, <1>3, <1>4, <1>7
<1>9. pc' = IF m = altering.begin THEN "entered" ELSE "alter"
  BY <1>1, <1>3
<1>10. Writing' /\ Entering' /\ ~Clearing' /\ ~Erasing' /\ ~Failed'
  BY <1>8, <1>9 DEF Writing, Entering, Clearing, Erasing, Failed
<1>11. ControlInv'
  BY <1>1, <1>2, <1>8, <1>9, <1>10 DEF ControlInv, PC, scanVars
<1>12. EntriesNext' = EntriesNext /\ FilledNext' = FilledNext /\ Start' = Start
  BY <1>1 DEF EntriesNext, FilledNext, Start
<1>13. AlterInv'
  BY <1>3, <1>7, <1>8, <1>9, <1>10 DEF AlterInv
<1>14. altering.begin = mNextFreeEntry /\ altering.span = Len(EntriesNext)
  BY <1>2 DEF EnterInv
<1>15. \A e \in Index : entryTable'[e] = "EMPTY" => entryTable[e] = "EMPTY"
  BY <1>5
<1>16. \A e \in Index : e < mNextFreeEntry => entryTable'[e] = entryTable[e]
  BY <1>3, <1>5, <1>7, <1>14, IndexProperty
<1>17. WriteInv'
  <2>1. written > 0 => Start \in Heads' /\ entryData'[Start] = Header(op.key, op.val)
    BY <1>1, <1>2, <1>6 DEF WriteInv
  <2>2. \A e \in Index : Start <= e /\ e < mNextFreeEntry => entryTable'[e] = "WRITTEN"
    BY <1>1, <1>2, <1>16 DEF WriteInv
  <2>3. \A e \in Index : entryTable'[e] = "EMPTY" => e >= mNextFreeEntry
    BY <1>1, <1>2, <1>15 DEF WriteInv
  <2>4. pc # "written" /\ pc' # "written"
    BY <1>1, <1>9
  <2> QED
    BY <1>1, <1>2, <1>10, <1>12, <2>1, <2>2, <2>3, <2>4 DEF WriteInv, Filled
<1>18. EnterInv'
  <2>1. ASSUME NEW e \in Index, e >= altering.begin
        PROVE  IF e < m THEN entryTable'[e] = "EMPTY"
               ELSE IF e < altering.begin + altering.span THEN entryTable'[e] = "WRITTEN"
               ELSE Untouched(e)'
    <3>1. IF e < altering.end THEN entryTable[e] = "EMPTY"
          ELSE IF e < altering.begin + altering.span THEN entryTable[e] = "WRITTEN"
          ELSE Untouched(e)
      BY <1>2, <2>1 DEF EnterInv
    <3>2. e \in Nat
      BY IndexProperty
    <3> QED
      BY <1>1, <1>3, <1>5, <1>7, <3>1, <3>2 DEF Untouched
  <2> QED
    BY <1>1, <1>2, <1>8, <1>12, <2>1 DEF EnterInv
<1>19. WrittenEntries' \ Altered' = WrittenEntries \ Altered
  <2>1. Altered = altering.begin .. altering.begin + altering.span - 1 /\ Altered' = Altered
    BY <1>8, <1>10 DEF Altered
  <2>2. mEntryTable = entryTable
    BY <1>2 DEF WritingInv
  <2>3. \A e \in Index : e \notin Altered => mEntryTable'[e] = mEntryTable[e]
    BY <1>3, <1>5, <1>7, <2>1, <2>2, IndexProperty
  <2> QED
    BY <2>1, <2>3 DEF WrittenEntries
<1>20. WritingInv'
  <2>1. mEntryTable' = entryTable' /\ mState' = header' /\ mHashList' = Heads' \cup {Start'}
    BY <1>1, <1>2, <1>3, <1>6, <1>12 DEF WritingInv
  <2>2. /\ mUsedEntryCount' = Cardinality(WrittenEntries' \ Altered')
        /\ mFirstUsedEntry' = LeastOr(WrittenEntries' \ Altered', INVALID_ENTRY)
    BY <1>1, <1>2, <1>19 DEF WritingInv
  <2>3. Heads' \ {Start'} = Heads \ {Start}
    BY <1>6, <1>12
  <2>4. /\ \A h \in Heads' \ {Start'} : h < mNextFreeEntry' /\ Whole(h)'
        /\ \A g, h \in Heads' \ {Start'} : entryData'[g].key = entryData'[h].key => g = h
    BY <1>1, <1>2, <1>6, <2>3 DEF WritingInv
  <2>5. found' <=> \E h \in Heads' \ {Start'} : entryData'[h].key = op'.key
    BY <1>1, <1>2, <2>3 DEF WritingInv
  <2> QED
    BY <1>13, <1>17, <1>18, <2>1, <2>2, <2>4, <2>5 DEF WritingInv
<1>21. (FlashInv /\ ControlInv /\ Writing => (RamInv <=> WritingInv))'
  BY WritingRam, PTL
<1> QED
  BY <1>6, <1>10, <1>11, <1>20, <1>21 DEF StringInv

\* The members of the Page object follow the states.
LEMMA EnteredStep == ASSUME StringInv, Entered PROVE StringInv'
<1> DEFINE N == Len(EntriesNext)
           V == Len(op.val)
<1>1. /\ pc = "entered"
      /\ mFirstUsedEntry' = IF mFirstUsedEntry = INVALID_ENTRY THEN mNextFreeEntry ELSE mFirstUsedEntry
      /\ mUsedEntryCount' = mUsedEntryCount + altering.span
      /\ mNextFreeEntry' = mNextFreeEntry + altering.span
      /\ written' = written + altering.span
      /\ pc' = IF written' <= Len(op.val) THEN "item" ELSE "written"
      /\ altering' = Unaltered
      /\ UNCHANGED <<flashVars, mState, mEntryTable, mHashList, op, ret, found, scanVars, boundVars>>
  BY DEF Entered
<1>2. ~Failed /\ RamInv /\ FlashInv /\ ControlInv
  BY <1>1 DEF StringInv, Failed
<1>3. Entering /\ Writing /\ altering.end = altering.begin
  BY <1>1, <1>2 DEF RamInv, AlterInv, Entering, Writing
<1>4. WritingInv /\ WriteInv /\ EnterInv
  BY <1>2, <1>3, WritingRam DEF WritingInv
<1>5. /\ op.val \in String /\ op.key \in Key /\ op # NoOp /\ Start \in Nat /\ Start \in Index /\ written \in Nat /\ mNextFreeEntry \in Nat
      /\ mNextFreeEntry = Start + written /\ V \in Nat /\ V >= 1 /\ Filled(op.val) \in Nat
      /\ Start + V \in Index /\ Start + V < ENTRY_COUNT
  BY <1>2, <1>3, <1>4, WritingProperty DEF WriteInv
<1>6. /\ N \in Nat /\ N >= 1 /\ written + N <= 1 + V
      /\ written = 0 => N = 1 /\ EntriesNext[1] = Header(op.key, op.val)
      /\ written > 0 => \A n \in 1 .. N :
           EntriesNext[n] = op.val[written - 1 + n] /\ written - 1 + n \in DOMAIN op.val
      /\ written + N \in {1, 1 + Filled(op.val), 1 + V}
  BY <1>1, <1>2, <1>3, <1>4, EntriesNextProperty
<1> HIDE DEF N, V
<1>7. altering.begin = mNextFreeEntry /\ altering.span = N
      /\ \A n \in 1 .. N : entryData[mNextFreeEntry + n - 1] = EntriesNext[n]
  BY <1>3, <1>4 DEF EnterInv, N
<1>8. \A e \in Index : e >= mNextFreeEntry =>
         IF e < mNextFreeEntry + N THEN entryTable[e] = "WRITTEN" ELSE Untouched(e)
  BY <1>3, <1>4, <1>5, <1>7, IndexProperty DEF EnterInv
<1>9. /\ FlashInv' /\ Heads' = Heads
      /\ \A i : LastOf(i)' = LastOf(i) /\ (Whole(i)' <=> Whole(i))
      /\ \A e : Untouched(e)' <=> Untouched(e)
  BY <1>1, <1>2, FlashSame
<1>10. written' = written + N /\ mNextFreeEntry' = mNextFreeEntry + N /\ Start' = Start /\ op' = op
       /\ written' \in Nat /\ mNextFreeEntry' \in Nat /\ written' > 0 /\ written' <= 1 + V
       /\ mNextFreeEntry' = Start + written'
  BY <1>1, <1>5, <1>6, <1>7 DEF Start
<1>11. pc' = IF written' <= V THEN "item" ELSE "written"
  BY <1>1 DEF V
<1>12. Writing' /\ ~Entering' /\ ~Clearing' /\ ~Erasing' /\ ~Failed'
  BY <1>11 DEF Writing, Entering, Clearing, Erasing, Failed
<1>13. ControlInv'
  BY <1>1, <1>2, <1>10, <1>11, <1>12 DEF ControlInv, PC, scanVars, Unaltered, flashVars
<1>14. \A n \in 0 .. V : Start + n \in Index
  BY <1>5, IndexProperty, SizeAssumption
<1>15. Start \in Heads /\ entryData[Start] = Header(op.key, op.val)
  <2>1. CASE written > 0
    BY <1>3, <1>4, <2>1 DEF WriteInv
  <2>2. CASE written = 0
    <3>1. mNextFreeEntry = Start /\ N = 1 /\ mNextFreeEntry + 1 - 1 = Start
      BY <1>5, <1>6, <2>2
    <3>2. entryData[Start] = EntriesNext[1]
      BY <1>7, <3>1
    <3>3. Header(op.key, op.val) \in Headers
      BY <1>5 DEF Header, Headers
    <3>4. entryTable[Start] = "WRITTEN"
      BY <1>5, <1>8, <3>1
    <3> QED
      BY <1>5, <1>6, <2>2, <3>2, <3>3, <3>4 DEF Heads
  <2> QED
    BY <1>5, <2>1, <2>2
<1>16. ASSUME NEW n \in 1 .. written' - 1 PROVE entryData[Start + n] = op.val[n]
  <2>1. CASE n <= written - 1
    BY <1>3, <1>4, <1>5, <1>10, <2>1 DEF WriteInv
  <2>2. CASE n > written - 1
    <3>1. written > 0
      BY <1>5, <1>6, <1>10
    <3> DEFINE k == n - written + 1
    <3>2. k \in 1 .. N /\ mNextFreeEntry + k - 1 = Start + n /\ written - 1 + k = n
      BY <1>5, <1>6, <1>10, <2>2
    <3> HIDE DEF k
    <3> QED
      BY <1>6, <1>7, <3>1, <3>2
  <2> QED
    BY <1>5, <1>10, <2>1, <2>2
<1>17. \A e \in Index : Start <= e /\ e < mNextFreeEntry + N => entryTable[e] = "WRITTEN"
  <2>1. \A e \in Index : Start <= e /\ e < mNextFreeEntry => entryTable[e] = "WRITTEN"
    BY <1>3, <1>4 DEF WriteInv
  <2> QED
    BY <1>5, <1>8, <2>1, IndexProperty
<1>18. \A e \in Index : /\ entryTable[e] = "EMPTY" => e >= mNextFreeEntry + N
                        /\ e >= mNextFreeEntry + N => Untouched(e)
  <2>1. \A e \in Index : entryTable[e] = "EMPTY" => e >= mNextFreeEntry
    BY <1>3, <1>4 DEF WriteInv
  <2> QED
    BY <1>5, <1>6, <1>8, <2>1, IndexProperty
<1>19. WriteInv'
  <2>1. op'.name = "set" /\ header' = "ACTIVE" /\ Start' >= 0 /\ Start' + Len(op'.val) < ENTRY_COUNT
    BY <1>1, <1>3, <1>4, <1>5, <1>10 DEF WriteInv, flashVars, V
  <2>2. Start' \in Heads' /\ entryData'[Start'] = Header(op'.key, op'.val)
    BY <1>1, <1>9, <1>10, <1>15 DEF flashVars
  <2>3. \A n \in 1 .. written' - 1 : entryData'[Start' + n] = op'.val[n]
    BY <1>1, <1>10, <1>16 DEF flashVars
  <2>4. \A e \in Index : Start' <= e /\ e < mNextFreeEntry' => entryTable'[e] = "WRITTEN"
    BY <1>1, <1>10, <1>17 DEF flashVars
  <2>5. \A e \in Index : /\ entryTable'[e] = "EMPTY" => e >= mNextFreeEntry'
                         /\ e >= mNextFreeEntry' => Untouched(e)'
    BY <1>1, <1>9, <1>10, <1>18 DEF flashVars
  <2>6. /\ pc' = "written" => written' = 1 + Len(op'.val)
        /\ pc' # "written" => written' \in {0, 1, 1 + Filled(op.val)} /\ written' <= Len(op'.val)
    <3>1. Len(op'.val) = V
      BY <1>10 DEF V
    <3>2. written' \in {1, 1 + Filled(op.val), 1 + V}
      BY <1>6, <1>10
    <3> QED
      BY <1>5, <1>10, <1>11, <3>1, <3>2
  <2>8. Filled(op'.val) = Filled(op.val)
    BY <1>10
  <2> QED
    BY <2>1, <2>2, <2>3, <2>4, <2>5, <2>6, <2>8 DEF WriteInv, Filled
<1>20. AlterInv' /\ EnterInv'
  BY <1>11, <1>12 DEF AlterInv, EnterInv
<1>21. /\ Altered = mNextFreeEntry .. mNextFreeEntry + N - 1 /\ Altered' = {}
       /\ WrittenEntries' = WrittenEntries /\ WrittenEntries' \ Altered' = WrittenEntries
       /\ WrittenEntries = {i \in Index : entryTable[i] = "WRITTEN"} /\ WrittenEntries \in SUBSET Nat
  <2>1. WrittenEntries' = WrittenEntries /\ WrittenEntries = {i \in Index : entryTable[i] = "WRITTEN"}
    BY <1>1, <1>4 DEF WrittenEntries, WritingInv
  <2>2. Altered = mNextFreeEntry .. mNextFreeEntry + N - 1 /\ Altered' = {}
    BY <1>3, <1>7, <1>12 DEF Altered
  <2> QED
    BY <2>1, <2>2, IndexProperty
<1>22. Altered \subseteq WrittenEntries
  <2> SUFFICES ASSUME NEW e \in Nat, mNextFreeEntry <= e, e <= mNextFreeEntry + N - 1
               PROVE  e \in WrittenEntries
    BY <1>5, <1>6, <1>21
  <2>1. e <= Start + V
    <3>1. e + 1 <= Start + written + N
      BY <1>5, <1>6
    <3> QED
      BY <1>5, <1>6, <3>1
  <2>2. e \in Index
    BY <1>5, <2>1, IndexProperty, SizeAssumption
  <2>3. entryTable[e] = "WRITTEN"
    BY <1>5, <1>6, <1>8, <2>2
  <2> QED
    BY <1>21, <2>2, <2>3
<1>23. mUsedEntryCount' = Cardinality(WrittenEntries)
  <2>1. IsFiniteSet(WrittenEntries) /\ Cardinality(WrittenEntries) \in Nat
    <3>1. IsFiniteSet(WrittenEntries)
      BY IndexProperty, FS_Subset DEF WrittenEntries
    <3> QED
      BY <3>1, FS_CardinalityType
  <2>2. Cardinality(WrittenEntries \ Altered) = Cardinality(WrittenEntries) - Cardinality(WrittenEntries \cap Altered)
    BY <2>1, FS_Difference
  <2>3. WrittenEntries \cap Altered = Altered
    BY <1>22
  <2>4. Cardinality(Altered) = N
    <3>1. mNextFreeEntry \in Nat /\ N \in Nat /\ N >= 1
      BY <1>5, <1>6
    <3>2. Cardinality(mNextFreeEntry .. mNextFreeEntry + N - 1) = N
      BY <3>1, FS_Interval
    <3> QED
      BY <1>21, <3>2
  <2>5. mUsedEntryCount = Cardinality(WrittenEntries \ Altered)
    BY <1>4 DEF WritingInv
  <2>6. mUsedEntryCount' = mUsedEntryCount + N /\ N \in Nat
    BY <1>1, <1>6, <1>7
  <2>7. mUsedEntryCount = Cardinality(WrittenEntries) - N
    BY <2>2, <2>3, <2>4, <2>5
  <2> QED
    BY <2>1, <2>6, <2>7
<1>24. mFirstUsedEntry' = LeastOr(WrittenEntries, INVALID_ENTRY)
  <2> DEFINE W == WrittenEntries \ Altered
  <2>1. W \in SUBSET Nat /\ mFirstUsedEntry = LeastOr(W, INVALID_ENTRY) /\ INVALID_ENTRY \notin W
    <3>1. INVALID_ENTRY \notin WrittenEntries
      BY IndexProperty DEF WrittenEntries
    <3> QED
      BY <1>4, <1>21, <3>1 DEF WritingInv
  <2>2. /\ W = {} => LeastOr(W, INVALID_ENTRY) = INVALID_ENTRY
        /\ W # {} => LeastOr(W, INVALID_ENTRY) \in W /\ \A y \in W : LeastOr(W, INVALID_ENTRY) <= y
    BY <2>1, LeastOrProperty
  <2>3. mNextFreeEntry \in Altered /\ \A y \in Altered : y \in Nat /\ mNextFreeEntry <= y
    BY <1>5, <1>6, <1>21
  <2>4. CASE W = {}
    <3>1. mFirstUsedEntry' = mNextFreeEntry
      BY <1>1, <2>1, <2>2, <2>4
    <3>2. \A y \in WrittenEntries : mNextFreeEntry <= y
      BY <2>3, <2>4
    <3>3. LeastOr(WrittenEntries, INVALID_ENTRY) = mNextFreeEntry
      BY <1>21, <1>22, <2>3, <3>2, LeastIs
    <3> QED
      BY <3>1, <3>3
  <2>5. CASE W # {}
    <3> DEFINE x == LeastOr(W, INVALID_ENTRY)
    <3>1. x \in W /\ mFirstUsedEntry' = x /\ \A y \in W : x <= y
      BY <1>1, <2>1, <2>2, <2>5
    <3> HIDE DEF x, W
    <3>2. x \in WrittenEntries /\ x \in Nat /\ x \notin Altered
      BY <1>21, <3>1 DEF W
    <3>3. x < mNextFreeEntry
      <4>1. x \in Index /\ entryTable[x] = "WRITTEN"
        BY <1>21, <3>2
      <4>2. ~(x >= mNextFreeEntry + N)
        BY <1>18, <4>1 DEF Untouched
      <4> QED
        BY <1>5, <1>6, <1>21, <3>2, <4>2
    <3>4. \A y \in WrittenEntries : x <= y
      BY <1>5, <2>3, <3>1, <3>2, <3>3 DEF W
    <3>5. LeastOr(WrittenEntries, INVALID_ENTRY) = x
      BY <1>21, <3>2, <3>4, LeastIs
    <3> QED
      BY <3>1, <3>5
  <2> QED
    BY <2>4, <2>5
<1>25. WritingInv'
  <2>1. mEntryTable' = entryTable' /\ mState' = header' /\ mHashList' = Heads' \cup {Start'}
    BY <1>1, <1>4, <1>9, <1>10 DEF WritingInv, flashVars
  <2>2. /\ mUsedEntryCount' = Cardinality(WrittenEntries' \ Altered')
        /\ mFirstUsedEntry' = LeastOr(WrittenEntries' \ Altered', INVALID_ENTRY)
    BY <1>21, <1>23, <1>24
  <2>3. \A h \in Heads' \ {Start'} : h < mNextFreeEntry' /\ Whole(h)'
    <3>1. \A h \in Heads \ {Start} : h \in Nat /\ h < mNextFreeEntry /\ Whole(h)
      BY <1>2, <1>4, HeadProperty DEF WritingInv
    <3> QED
      BY <1>5, <1>6, <1>9, <1>10, <3>1
  <2>4. \A g, h \in Heads' \ {Start'} : entryData'[g].key = entryData'[h].key => g = h
    BY <1>1, <1>4, <1>9, <1>10 DEF WritingInv, flashVars
  <2>5. found' <=> \E h \in Heads' \ {Start'} : entryData'[h].key = op'.key
    BY <1>1, <1>4, <1>9, <1>10 DEF WritingInv, flashVars
  <2> QED
    BY <1>19, <1>20, <2>1, <2>2, <2>3, <2>4, <2>5 DEF WritingInv
<1>26. (FlashInv /\ ControlInv /\ Writing => (RamInv <=> WritingInv))'
  BY WritingRam, PTL
<1> QED
  BY <1>9, <1>12, <1>13, <1>25, <1>26 DEF StringInv

-----------------------------------------------------------------------------
(* RAM while an item is erased. *)

LEMMA ErasingForm ==
  Erasing =>
    /\ ~Entering /\ ~Clearing /\ ~Failed /\ ~Writing /\ pc \in {"alter", "erased"}
    /\ Swept = (IF op = NoOp THEN at ELSE ENTRY_COUNT) /\ Gone = {altering.begin} /\ Fresh = {}
    /\ Kept = {h \in Heads : h < Swept} \ {altering.begin}
    /\ Altered = altering.begin .. altering.begin + altering.span - 1
    /\ Pending = altering.begin .. altering.end - 1
<1> SUFFICES ASSUME Erasing
             PROVE  /\ ~Entering /\ ~Clearing /\ ~Failed /\ ~Writing /\ pc \in {"alter", "erased"}
                    /\ Swept = (IF op = NoOp THEN at ELSE ENTRY_COUNT) /\ Gone = {altering.begin} /\ Fresh = {}
                    /\ Kept = {h \in Heads : h < Swept} \ {altering.begin}
                    /\ Altered = altering.begin .. altering.begin + altering.span - 1
                    /\ Pending = altering.begin .. altering.end - 1
  OBVIOUS
<1>1. ~Entering /\ ~Clearing /\ ~Failed /\ ~Writing /\ pc \in {"alter", "erased"}
  BY DEF Erasing, Entering, Clearing, Failed, Writing
<1>2. Swept = (IF op = NoOp THEN at ELSE ENTRY_COUNT) /\ Gone = {altering.begin} /\ Fresh = {}
  BY <1>1 DEF Swept, Gone, Fresh
<1> QED
  BY <1>1, <1>2 DEF Kept, Altered, Pending

LEMMA WrittenProperty ==
  mEntryTable = entryTable =>
    /\ WrittenEntries = {i \in Index : entryTable[i] = "WRITTEN"} /\ WrittenEntries \in SUBSET Nat
    /\ IsFiniteSet(WrittenEntries) /\ Cardinality(WrittenEntries) \in Nat /\ INVALID_ENTRY \notin WrittenEntries
    /\ Heads \subseteq WrittenEntries
<1>1. IsFiniteSet(WrittenEntries)
  BY IndexProperty, FS_Subset DEF WrittenEntries
<1> QED
  BY <1>1, IndexProperty, FS_CardinalityType DEF WrittenEntries, Heads

\* The first entry that is in use is the header of an item.
LEMMA FirstIsHead ==
  ASSUME FlashInv, NEW d, NEW W, W = {i \in Index : entryTable[i] = "WRITTEN"}, W # {}
  PROVE  LeastOr(W, d) \in Heads /\ LeastOr(W, d) \in W /\ \A y \in W : LeastOr(W, d) <= y
<1> DEFINE x == LeastOr(W, d)
<1>1. W \in SUBSET Nat
  BY IndexProperty
<1>2. x \in W /\ \A y \in W : x <= y
  BY <1>1, LeastOrProperty
<1> HIDE DEF x
<1>3. x \in Index /\ entryTable[x] = "WRITTEN" /\ x \in Nat
  BY <1>1, <1>2
<1>4. PICK h \in Heads : Covers(h, x)
  BY <1>3 DEF FlashInv, EntriesOwned
<1>5. h \in W /\ h \in Nat
  BY <1>1 DEF Heads
<1>6. x = h
  BY <1>2, <1>3, <1>4, <1>5 DEF Covers
<1> QED
  BY <1>2, <1>4, <1>6 DEF x

LEMMA EraseItemProperty ==
  ASSUME FlashInv, mEntryTable = entryTable, NEW i \in Heads
  PROVE  LET A == i .. i + SpanAt(i) - 1
         IN  /\ SpanAt(i) \in Nat /\ SpanAt(i) > 1 /\ i + SpanAt(i) = LastOf(i) + 1
             /\ Cardinality(WrittenEntries) - Cardinality(WrittenEntries \cap A) = Cardinality(WrittenEntries \ A)
             /\ LeastOr(WrittenEntries, INVALID_ENTRY) = LeastOr((WrittenEntries \ A) \cup {i}, INVALID_ENTRY)
<1> DEFINE A == i .. i + SpanAt(i) - 1
           W == WrittenEntries
<1>1. /\ i \in Nat /\ i \in Index /\ entryTable[i] = "WRITTEN" /\ entryData[i] \in Headers
      /\ entryData[i].val \in String /\ LastOf(i) = i + Len(entryData[i].val) /\ LastOf(i) \in Nat /\ i < LastOf(i)
  BY HeadProperty
<1>2. SpanAt(i) = 1 + Len(entryData[i].val) /\ Len(entryData[i].val) \in Nat
  BY <1>1, StringProperty DEF SpanAt
<1>3. SpanAt(i) \in Nat /\ i + SpanAt(i) = LastOf(i) + 1 /\ SpanAt(i) > 1
  BY <1>1, <1>2
<1>4. W = {e \in Index : entryTable[e] = "WRITTEN"} /\ W \in SUBSET Nat /\ IsFiniteSet(W) /\ Heads \subseteq W
  BY WrittenProperty
<1>5. Cardinality(W \ A) = Cardinality(W) - Cardinality(W \cap A)
  BY <1>4, FS_Difference
<1>6. i \in W /\ W # {}
  BY <1>4
<1> DEFINE x == LeastOr(W, INVALID_ENTRY)
<1>7. x \in Heads /\ x \in W /\ \A y \in W : x <= y
  BY <1>4, <1>6, FirstIsHead
<1> HIDE DEF x, W
<1>8. x \in (W \ A) \cup {i}
  <2>1. x <= i /\ x \in Nat
    BY <1>4, <1>6, <1>7
  <2>2. x \in A => x = i
    BY <1>1, <1>3, <2>1
  <2> QED
    BY <1>7, <2>2
<1>9. (W \ A) \cup {i} \in SUBSET Nat /\ \A y \in (W \ A) \cup {i} : x <= y
  BY <1>4, <1>6, <1>7
<1>10. LeastOr((W \ A) \cup {i}, INVALID_ENTRY) = x
  BY <1>8, <1>9, LeastIs
<1> QED
  BY <1>3, <1>5, <1>10 DEF x, W

\* eraseEntryAndSpan() of an item: RAM does not count it any more.
LEMMA EraseItemRam ==
  ASSUME FlashInv, ControlInv', NEW i \in Heads, NEW s, NEW rr,
         mEntryTable = entryTable, mState = header,
         UNCHANGED <<flashVars, mState, mEntryTable, mNextFreeEntry, mFirstUsedEntry>>,
         pc' = "alter", mNextFreeEntry \in Nat,
         altering' = [begin |-> i, end |-> i + SpanAt(i), span |-> SpanAt(i), state |-> "ERASED",
                      range |-> rr, then |-> "erased"],
         mUsedEntryCount = Cardinality(WrittenEntries),
         mFirstUsedEntry = LeastOr(WrittenEntries, INVALID_ENTRY),
         mUsedEntryCount' = mUsedEntryCount - Cardinality(WrittenEntries \cap i .. i + SpanAt(i) - 1),
         \A h \in Heads : h < mNextFreeEntry,
         s = IF op' = NoOp THEN at' ELSE ENTRY_COUNT, s \in Nat, s <= ENTRY_COUNT, LastOf(i) < s,
         mHashList' = {h \in Heads : h < s} \ {i},
         \A h \in {g \in Heads : g < s} \ {i} : Whole(h),
         \A g, h \in {f \in Heads : f < s} \ {i} : entryData[g].key = entryData[h].key => g = h,
         header = "ACTIVE" =>
           \/ \A e \in Index : /\ e >= mNextFreeEntry /\ e > LastOf(i) => Untouched(e)
                               /\ entryTable[e] = "EMPTY" => e >= mNextFreeEntry
           \/ CutItem',
         op' = NoOp => /\ end' <= ENTRY_COUNT /\ end' <= mNextFreeEntry
                       /\ \A h \in Heads : h < end' /\ (h >= s \/ LastOf(h) < s)
  PROVE  RamInv' /\ FlashInv'
<1> DEFINE A == i .. i + SpanAt(i) - 1
<1>1. /\ SpanAt(i) \in Nat /\ SpanAt(i) > 1 /\ i + SpanAt(i) = LastOf(i) + 1
      /\ Cardinality(WrittenEntries) - Cardinality(WrittenEntries \cap A) = Cardinality(WrittenEntries \ A)
      /\ LeastOr(WrittenEntries, INVALID_ENTRY) = LeastOr((WrittenEntries \ A) \cup {i}, INVALID_ENTRY)
  BY EraseItemProperty
<1>2. i \in Nat /\ i \in Index /\ LastOf(i) \in Nat /\ i < LastOf(i)
  BY HeadProperty
<1>3. Erasing' /\ altering'.begin = i /\ altering'.end = i + SpanAt(i) /\ altering'.span = SpanAt(i) /\ altering'.state = "ERASED"
      /\ altering'.then = "erased"
  BY DEF Erasing
<1>4. (Erasing =>
    /\ ~Entering /\ ~Clearing /\ ~Failed /\ ~Writing /\ pc \in {"alter", "erased"}
    /\ Swept = (IF op = NoOp THEN at ELSE ENTRY_COUNT) /\ Gone = {altering.begin} /\ Fresh = {}
    /\ Kept = {h \in Heads : h < Swept} \ {altering.begin}
    /\ Altered = altering.begin .. altering.begin + altering.span - 1
    /\ Pending = altering.begin .. altering.end - 1)'
  BY ErasingForm, PTL
<1>5. /\ FlashInv' /\ Heads' = Heads
      /\ \A j : LastOf(j)' = LastOf(j) /\ (Whole(j)' <=> Whole(j))
      /\ \A j, e : Covers(j, e)' <=> Covers(j, e)
      /\ \A e : Untouched(e)' <=> Untouched(e)
  BY FlashSame
<1>6. /\ ~Entering' /\ ~Clearing' /\ ~Writing' /\ Swept' = s /\ Gone' = {i} /\ Fresh' = {}
      /\ Kept' = {h \in Heads : h < s} \ {i} /\ Altered' = A /\ Pending' = A
  <2>1. /\ ~Entering' /\ ~Clearing' /\ ~Writing' /\ Swept' = (IF op' = NoOp THEN at' ELSE ENTRY_COUNT)
        /\ Gone' = {altering'.begin} /\ Fresh' = {}
        /\ Kept' = {h \in Heads' : h < Swept'} \ {altering'.begin}
        /\ Altered' = altering'.begin .. altering'.begin + altering'.span - 1
        /\ Pending' = altering'.begin .. altering'.end - 1
    BY <1>3, <1>4
  <2>2. Swept' = s
    BY <2>1
  <2>3. {h \in Heads' : h < Swept'} = {h \in Heads : h < s}
    BY <1>5, <2>2
  <2>4. Kept' = {h \in Heads : h < s} \ {i}
    BY <1>3, <2>1, <2>3
  <2>5. Altered' = A
    <3>1. altering'.begin .. altering'.begin + altering'.span - 1 = A
      BY <1>3
    <3> QED
      BY <2>1, <3>1
  <2>6. Pending' = A
    <3>1. altering'.begin .. altering'.end - 1 = A
      BY <1>1, <1>2, <1>3
    <3> QED
      BY <2>1, <3>1
  <2> QED
    BY <1>3, <2>1, <2>2, <2>4, <2>5, <2>6
<1>7. WrittenEntries' = WrittenEntries
  BY DEF WrittenEntries
<1>8. MembersRight'
  <2>1. Kept' \cup Fresh' = Kept'
    BY <1>6
  <2> QED
    BY <1>1, <1>5, <1>6, <1>7, <2>1 DEF MembersRight
<1>9. KeptRight'
  <2>1. pc' # "write" /\ \A g, h \in Kept' : entryData'[g].key = entryData'[h].key => g = h
    BY <1>6 DEF flashVars
  <2> QED
    BY <1>5, <1>6, <2>1 DEF KeptRight
<1>10. EndRight'
  <2> SUFFICES ASSUME header = "ACTIVE", \A e \in Index : /\ e >= mNextFreeEntry /\ e > LastOf(i) => Untouched(e)
                                                          /\ entryTable[e] = "EMPTY" => e >= mNextFreeEntry
               PROVE  CleanEnd'
    BY DEF EndRight, flashVars
  <2> DEFINE F == IF i + SpanAt(i) > mNextFreeEntry THEN i + SpanAt(i) ELSE mNextFreeEntry
  <2>1. Frontier' = F
    BY <1>3 DEF Frontier
  <2>2. F \in Nat /\ F >= mNextFreeEntry /\ F > LastOf(i)
    BY <1>1, <1>2
  <2>3. i < mNextFreeEntry
    OBVIOUS
  <2>4. ASSUME NEW e \in Index, e >= F PROVE Untouched(e)
    BY <2>2, <2>4, IndexProperty, <1>2
  <2>5. ASSUME NEW e \in Index, entryTable[e] = "EMPTY" PROVE e >= F \/ e \in A
    <3>1. e \in Nat /\ e >= mNextFreeEntry
      BY <2>5, IndexProperty
    <3>2. CASE F = mNextFreeEntry
      BY <3>1, <3>2
    <3>3. CASE F = i + SpanAt(i)
      BY <1>1, <1>2, <2>3, <3>1, <3>3
    <3> QED
      BY <3>2, <3>3
  <2> HIDE DEF F, A
  <2> QED
    BY <1>6, <2>1, <2>4, <2>5 DEF CleanEnd, Untouched, flashVars
<1>11. AlterInv' /\ WriteInv' /\ EnterInv'
  BY <1>1, <1>2, <1>3, <1>6 DEF AlterInv, WriteInv, EnterInv
<1>12. EraseInv'
  <2>1. i < s /\ i + SpanAt(i) <= s
    BY <1>1, <1>2
  <2>2. \A e \in Index : ~(i + SpanAt(i) <= e /\ e < i + SpanAt(i))
    BY <1>1, <1>2, IndexProperty
  <2> QED
    BY <1>1, <1>2, <1>3, <1>5, <1>6, <2>1, <2>2 DEF EraseInv
<1>13. ScanInv'
  BY <1>3, <1>5, <1>6 DEF ScanInv
<1> QED
  BY <1>5, <1>8, <1>9, <1>10, <1>11, <1>12, <1>13 DEF RamInv, flashVars

LEMMA FindForEraseStep == ASSUME StringInv, FindForErase PROVE StringInv'
<1>1. Quiet /\ ~Failed /\ pc = "find" /\ op.name = "erase" /\ op # NoOp /\ UNCHANGED <<op, found, written, scanVars, boundVars>>
  BY RequestProperty DEF StringInv, FindForErase, Quiet, Failed
<1>2. QuietInv /\ FlashInv /\ ControlInv
  BY <1>1, QuietRam DEF StringInv
<1>3. CASE Find(op.key) = INVALID_ENTRY
  <2>1. Quiet' /\ pc' = "return" /\ UNCHANGED <<flashVars, pageVars, altering>>
    BY <1>3 DEF FindForErase, Respond, Quiet
  <2>2. ControlInv'
    BY <1>1, <1>2, <2>1 DEF ControlInv, PC, Clearing, flashVars, pageVars, scanVars
  <2> QED
    BY <1>1, <2>1, <2>2, QuietStep
<1>4. CASE Find(op.key) # INVALID_ENTRY
  <2> DEFINE i == Find(op.key)
  <2>1. i \in Heads
    BY <1>1, <1>4, FindProperty
  <2>2. EraseEntryAndSpan(i)
    BY <1>4 DEF FindForErase
  <2> HIDE DEF i
  <2>3. /\ mHashList' = mHashList \ {i}
        /\ mUsedEntryCount' = mUsedEntryCount - Cardinality(WrittenEntries \cap i .. i + SpanAt(i) - 1)
        /\ altering' = [begin |-> i, end |-> i + SpanAt(i), span |-> SpanAt(i), state |-> "ERASED",
                        range |-> SpanAt(i) > 1, then |-> "erased"]
        /\ pc' = "alter"
        /\ UNCHANGED <<flashVars, mState, mEntryTable, mNextFreeEntry, mFirstUsedEntry>>
    BY <2>2 DEF EraseEntryAndSpan, Alter
  <2>4. i \in Nat /\ SpanAt(i) \in Nat /\ i + SpanAt(i) = LastOf(i) + 1 /\ LastOf(i) \in Nat /\ LastOf(i) < ENTRY_COUNT
    BY <1>2, <2>1, HeadProperty, EraseItemProperty DEF QuietInv, FlashInv, HeadsApart
  <2>5. ControlInv'
    <3>1. altering' \in [begin : Nat, end : Nat, span : Nat, state : {"EMPTY", "WRITTEN", "ERASED"},
                         range : BOOLEAN, then : {"idle", "erased", "entered", "half"}]
      BY <2>3, <2>4
    <3> QED
      BY <1>1, <1>2, <2>3, <3>1 DEF ControlInv, PC, Clearing, flashVars, scanVars
  <2>6. {h \in Heads : h < ENTRY_COUNT} = Heads
    BY SizeAssumption DEF Heads, Index
  <2>7. header = "ACTIVE" => \A e \in Index : /\ e >= mNextFreeEntry /\ e > LastOf(i) => Untouched(e)
                                              /\ entryTable[e] = "EMPTY" => e >= mNextFreeEntry
    BY <1>2 DEF QuietInv
  <2>8. /\ mEntryTable = entryTable /\ mState = header /\ mNextFreeEntry \in Nat
        /\ mUsedEntryCount = Cardinality(WrittenEntries) /\ mFirstUsedEntry = LeastOr(WrittenEntries, INVALID_ENTRY)
        /\ \A h \in Heads : h < mNextFreeEntry /\ Whole(h)
        /\ \A g, h \in Heads : entryData[g].key = entryData[h].key => g = h
        /\ mHashList = Heads
    BY <1>2 DEF QuietInv, ControlInv
  <2>9. op' # NoOp /\ ENTRY_COUNT \in Nat /\ ENTRY_COUNT <= ENTRY_COUNT
    BY <1>1, SizeAssumption
  <2>10. RamInv' /\ FlashInv'
    <3> DEFINE s == ENTRY_COUNT
    <3>1. s = (IF op' = NoOp THEN at' ELSE ENTRY_COUNT) /\ s \in Nat /\ s <= ENTRY_COUNT /\ LastOf(i) < s
      BY <2>4, <2>9
    <3>2. /\ mHashList' = {h \in Heads : h < s} \ {i}
          /\ \A h \in {g \in Heads : g < s} \ {i} : Whole(h)
          /\ \A g, h \in {f \in Heads : f < s} \ {i} : entryData[g].key = entryData[h].key => g = h
      BY <2>3, <2>6, <2>8
    <3> HIDE DEF s
    <3> QED
      BY <1>2, <2>1, <2>3, <2>5, <2>7, <2>8, <2>9, <3>1, <3>2, EraseItemRam
  <2> QED
    BY <2>5, <2>10 DEF StringInv
<1> QED
  BY <1>3, <1>4

\* Before the older version is erased: the new item is complete, the older one lies before it.
LEMMA WrittenItem ==
  ASSUME StringInv, pc = "written"
  PROVE  /\ FlashInv /\ ControlInv /\ op.name = "set" /\ op.key \in Key /\ op.val \in String
         /\ Start \in Heads /\ entryData[Start].key = op.key /\ entryData[Start].val = op.val
         /\ \A h \in Heads : Whole(h) /\ (h # Start => h < Start)
         /\ found => Find(op.key) \in Heads \ {Start} /\ entryData[Find(op.key)].key = op.key
<1>1. Writing /\ ~Entering /\ ~Failed
  BY DEF Writing, Entering, Failed
<1>2. WritingInv /\ FlashInv /\ ControlInv /\ WriteInv
  BY <1>1, WritingRam DEF StringInv, WritingInv, WriteInv, RamInv
<1>3. /\ op.val \in String /\ op.key \in Key /\ op # NoOp /\ Start \in Nat /\ Start \in Index /\ written \in Nat
      /\ mNextFreeEntry \in Nat /\ mNextFreeEntry = Start + written /\ Len(op.val) \in Nat /\ Len(op.val) >= 1
  BY <1>1, <1>2, WritingProperty
<1>4. written = 1 + Len(op.val) /\ Start \in Heads /\ entryData[Start] = Header(op.key, op.val)
      /\ header = "ACTIVE" /\ op.name = "set"
  BY <1>1, <1>2, <1>3 DEF WriteInv
<1>5. LastOf(Start) = Start + Len(op.val) /\ mNextFreeEntry = LastOf(Start) + 1
      /\ entryData[Start].key = op.key /\ entryData[Start].val = op.val
  BY <1>3, <1>4 DEF LastOf, Header
<1>6. Whole(Start)
  <2>1. \A e \in Index : Start <= e /\ e < mNextFreeEntry => entryTable[e] = "WRITTEN"
    BY <1>1, <1>2 DEF WriteInv
  <2>2. ASSUME NEW e \in Index, e <= LastOf(Start) PROVE e < mNextFreeEntry
    <3>1. e \in Nat /\ LastOf(Start) \in Nat
      BY <1>2, <1>4, HeadProperty, IndexProperty
    <3> QED
      BY <1>5, <2>2, <3>1
  <2> QED
    BY <2>1, <2>2 DEF Whole, Covers
<1>7. /\ mEntryTable = entryTable /\ mState = header /\ mHashList = Heads
      /\ \A h \in Heads : Whole(h)
      /\ \A h \in Heads \ {Start} : h < mNextFreeEntry
      /\ found <=> \E h \in Heads \ {Start} : entryData[h].key = op.key
  BY <1>2, <1>4, <1>6 DEF WritingInv
<1>8. \A h \in Heads \ {Start} : h < Start /\ h \in Nat
  <2> SUFFICES ASSUME NEW h \in Heads, h # Start PROVE h < Start /\ h \in Nat
    OBVIOUS
  <2>1. h \in Nat /\ h < mNextFreeEntry
    BY <1>2, <1>7, HeadProperty
  <2>2. ~(Start < h)
    BY <1>2, <1>3, <1>4, <1>5, <2>1, HeadProperty
  <2> QED
    BY <1>3, <2>1, <2>2
<1>9. ASSUME found PROVE Find(op.key) \in Heads \ {Start} /\ entryData[Find(op.key)].key = op.key
  <2> DEFINE S == {j \in mHashList \cap WrittenEntries : entryData[j] \in Headers /\ entryData[j].key = op.key}
  <2>1. PICK o \in Heads \ {Start} : entryData[o].key = op.key
    BY <1>7, <1>9
  <2>2. S = {h \in Heads : entryData[h].key = op.key}
    BY <1>7 DEF WrittenEntries, Heads
  <2>3. S \in SUBSET Nat /\ o \in S
    BY <1>3, <1>8, <2>1, <2>2
  <2>4. Find(op.key) = LeastOr(S, INVALID_ENTRY)
    BY <1>4, <1>7 DEF Find
  <2> DEFINE i == Find(op.key)
  <2>5. i \in S /\ i <= o
    <3> HIDE DEF S
    <3> QED
      BY <2>3, <2>4, LeastOrProperty
  <2> HIDE DEF i
  <2>6. i # Start
    BY <1>3, <1>8, <2>1, <2>5
  <2> QED
    BY <2>2, <2>5, <2>6 DEF i
<1> QED
  BY <1>2, <1>3, <1>4, <1>5, <1>6, <1>7, <1>8, <1>9

\* The item is complete, and what was there before is erased.
LEMMA EraseOldStep == ASSUME StringInv, EraseOld PROVE StringInv'
<1>1. pc = "written" /\ Writing /\ ~Entering /\ ~Failed /\ UNCHANGED <<op, found, written, scanVars, boundVars>>
  BY DEF EraseOld, Writing, Entering, Failed
<1>2. WritingInv /\ FlashInv /\ ControlInv /\ WriteInv
  BY <1>1, WritingRam DEF StringInv, WritingInv
<1>3. /\ op.val \in String /\ op # NoOp /\ Start \in Nat /\ Start \in Index /\ written \in Nat /\ mNextFreeEntry \in Nat
      /\ mNextFreeEntry = Start + written /\ Len(op.val) \in Nat /\ Len(op.val) >= 1
  BY <1>1, <1>2, WritingProperty
<1>4. written = 1 + Len(op.val) /\ Start \in Heads /\ entryData[Start] = Header(op.key, op.val)
      /\ header = "ACTIVE" /\ op.name = "set"
  BY <1>1, <1>2, <1>3 DEF WriteInv
<1>5. LastOf(Start) = Start + Len(op.val) /\ mNextFreeEntry = LastOf(Start) + 1 /\ entryData[Start].key = op.key
      /\ Start < mNextFreeEntry
  BY <1>3, <1>4 DEF LastOf, Header
<1>6. \A h \in Heads : Whole(h) /\ (h # Start => h < Start)
  BY <1>1, WrittenItem
<1>7. Altered = {} /\ WrittenEntries \ Altered = WrittenEntries
  BY <1>1 DEF Altered, Erasing, Entering, Clearing
<1>8. /\ mEntryTable = entryTable /\ mState = header
      /\ mUsedEntryCount = Cardinality(WrittenEntries) /\ mFirstUsedEntry = LeastOr(WrittenEntries, INVALID_ENTRY)
      /\ mHashList = Heads /\ \A h \in Heads : h < mNextFreeEntry /\ Whole(h)
      /\ \A g, h \in Heads \ {Start} : entryData[g].key = entryData[h].key => g = h
      /\ found <=> \E h \in Heads \ {Start} : entryData[h].key = op.key
  BY <1>2, <1>4, <1>5, <1>6, <1>7 DEF WritingInv
<1>9. \A e \in Index : /\ e >= mNextFreeEntry => Untouched(e)
                       /\ entryTable[e] = "EMPTY" => e >= mNextFreeEntry
  BY <1>1, <1>2 DEF WriteInv
<1>10. CASE ~found
  <2>1. UNCHANGED <<flashVars, pageVars, altering>> /\ pc' = "return" /\ ret' = "OK" /\ Quiet'
    BY <1>10 DEF EraseOld, Respond, Quiet
  <2>2. ControlInv'
    BY <1>1, <1>2, <2>1 DEF ControlInv, PC, Clearing, flashVars, pageVars, scanVars
  <2>3. /\ FlashInv' /\ Heads' = Heads
        /\ \A j : LastOf(j)' = LastOf(j) /\ (Whole(j)' <=> Whole(j))
        /\ \A e : Untouched(e)' <=> Untouched(e)
    BY <1>2, <2>1, FlashSame
  <2>4. WrittenEntries' = WrittenEntries
    BY <2>1 DEF WrittenEntries, pageVars
  <2>5. \A g, h \in Heads : entryData[g].key = entryData[h].key => g = h
    BY <1>5, <1>8, <1>10
  <2>6. QuietInv'
    BY <1>8, <1>9, <2>1, <2>3, <2>4, <2>5 DEF QuietInv, flashVars, pageVars
  <2>7. (FlashInv /\ ControlInv /\ Quiet => (RamInv <=> QuietInv))'
    BY QuietRam, PTL
  <2> QED
    BY <2>1, <2>2, <2>3, <2>6, <2>7 DEF StringInv
<1>11. CASE found
  <2> DEFINE i == Find(op.key)
  <2>1. i \in Heads \ {Start} /\ entryData[i].key = op.key
    BY <1>1, <1>11, WrittenItem
  <2>2. EraseEntryAndSpan(i)
    BY <1>11 DEF EraseOld
  <2> HIDE DEF i
  <2>3. i \in Heads /\ i # Start /\ LastOf(i) < Start /\ i \in Nat
    BY <1>2, <1>4, <1>6, <2>1, HeadProperty
  <2>4. /\ mHashList' = mHashList \ {i}
        /\ mUsedEntryCount' = mUsedEntryCount - Cardinality(WrittenEntries \cap i .. i + SpanAt(i) - 1)
        /\ altering' = [begin |-> i, end |-> i + SpanAt(i), span |-> SpanAt(i), state |-> "ERASED",
                        range |-> SpanAt(i) > 1, then |-> "erased"]
        /\ pc' = "alter"
        /\ UNCHANGED <<flashVars, mState, mEntryTable, mNextFreeEntry, mFirstUsedEntry>>
    BY <2>2 DEF EraseEntryAndSpan, Alter
  <2>5. SpanAt(i) \in Nat /\ i + SpanAt(i) = LastOf(i) + 1 /\ LastOf(i) \in Nat /\ LastOf(i) < ENTRY_COUNT
    BY <1>2, <1>8, <2>3, HeadProperty, EraseItemProperty DEF FlashInv, HeadsApart
  <2>6. ControlInv'
    <3>1. altering' \in [begin : Nat, end : Nat, span : Nat, state : {"EMPTY", "WRITTEN", "ERASED"},
                         range : BOOLEAN, then : {"idle", "erased", "entered", "half"}]
      BY <2>3, <2>4, <2>5
    <3> QED
      BY <1>1, <1>2, <2>4, <3>1 DEF ControlInv, PC, Clearing, flashVars, scanVars
  <2>7. {h \in Heads : h < ENTRY_COUNT} = Heads
    BY SizeAssumption DEF Heads, Index
  <2>8. \A g, h \in Heads \ {i} : entryData[g].key = entryData[h].key => g = h
    BY <1>5, <1>8, <2>1
  <2>9. RamInv' /\ FlashInv'
    <3> DEFINE s == ENTRY_COUNT
    <3>1. op' # NoOp /\ s = (IF op' = NoOp THEN at' ELSE ENTRY_COUNT) /\ s \in Nat /\ s <= ENTRY_COUNT /\ LastOf(i) < s
      BY <1>1, <1>3, <2>5, SizeAssumption
    <3>2. /\ mHashList' = {h \in Heads : h < s} \ {i}
          /\ \A h \in {g \in Heads : g < s} \ {i} : Whole(h)
          /\ \A g, h \in {f \in Heads : f < s} \ {i} : entryData[g].key = entryData[h].key => g = h
      BY <1>8, <2>4, <2>7, <2>8
    <3> HIDE DEF s
    <3>3. header = "ACTIVE" => \A e \in Index : /\ e >= mNextFreeEntry /\ e > LastOf(i) => Untouched(e)
                                                /\ entryTable[e] = "EMPTY" => e >= mNextFreeEntry
      BY <1>9
    <3> QED
      BY <1>2, <1>3, <1>8, <2>3, <2>4, <2>6, <3>1, <3>2, <3>3, EraseItemRam
  <2> QED
    BY <2>6, <2>9 DEF StringInv
<1> QED
  BY <1>2, <1>10, <1>11 DEF ControlInv

\* A word of the bitmap while the states of an item's entries become ERASED.
LEMMA AlterErasingStep ==
  ASSUME StringInv, AlterWord, Erasing
  PROVE  StringInv'
<1> DEFINE m == Min(LastPart)
<1>0. PICK b, p : b = altering.begin /\ p = altering.begin + altering.span
  OBVIOUS
<1>1. /\ pc = "alter" /\ ~Failed /\ altering.then = "erased"
      /\ UNCHANGED <<header, entryData, mState, mNextFreeEntry, mFirstUsedEntry, mUsedEntryCount,
                     mHashList, op, ret, found, written, scanVars, boundVars>>
  BY DEF AlterWord, Erasing, Failed
<1>2. FlashInv /\ ControlInv /\ RamInv /\ AlterInv /\ EraseInv /\ ScanInv /\ MembersRight /\ KeptRight /\ EndRight
  BY <1>1 DEF StringInv, RamInv
<1>3. /\ m \in Nat /\ b <= m /\ m < altering.end
      /\ entryTable' = [i \in Index |-> IF m <= i /\ i < altering.end THEN altering.state ELSE entryTable[i]]
      /\ mEntryTable' = entryTable'
      /\ pc' = IF m = b THEN altering.then ELSE "alter"
      /\ altering' = [altering EXCEPT !.end = m]
  BY <1>0, <1>2, AlterWordTable
<1> HIDE DEF m
<1>4. altering.state = "ERASED"
  BY <1>1, <1>2 DEF AlterInv, Entering
<1>5. entryTable' = [i \in Index |-> IF m <= i /\ i < altering.end THEN "ERASED" ELSE entryTable[i]]
  BY <1>3, <1>4
<1>6. /\ altering \in [begin : Nat, end : Nat, span : Nat, state : {"EMPTY", "WRITTEN", "ERASED"},
                       range : BOOLEAN, then : {"idle", "erased", "entered", "half"}]
      /\ b \in Nat /\ altering.end \in Nat /\ altering.span \in Nat /\ p \in Nat
      /\ altering.end <= p /\ mNextFreeEntry \in Nat
  BY <1>0, <1>2 DEF ControlInv, AlterInv
<1>7. /\ altering' \in [begin : Nat, end : Nat, span : Nat, state : {"EMPTY", "WRITTEN", "ERASED"},
                        range : BOOLEAN, then : {"idle", "erased", "entered", "half"}]
      /\ altering'.begin = b /\ altering'.span = altering.span /\ altering'.end = m
      /\ altering'.state = "ERASED" /\ altering'.then = "erased"
  BY <1>0, <1>1, <1>3, <1>4, <1>6
<1>8. pc' = IF m = b THEN "erased" ELSE "alter"
  BY <1>1, <1>3
<1>9. b \in Heads /\ LastOf(b) + 1 = p /\ b < Swept /\ p <= Swept /\ Swept <= ENTRY_COUNT /\ altering.span > 0
      /\ \A e \in Index : altering.end <= e /\ e < p => entryTable[e] = "ERASED"
  BY <1>0, <1>1, <1>2 DEF EraseInv
<1>10. LastOf(b) \in Nat /\ b < LastOf(b)
  BY <1>2, <1>9, HeadProperty
<1>11. /\ FlashInv' /\ Heads' = (IF m = b THEN Heads \ {b} ELSE Heads)
       /\ \A i : LastOf(i)' = LastOf(i)
       /\ \A i \in Heads : Whole(i)' => Whole(i)
  <2>1. altering.end <= LastOf(b) + 1
    BY <1>6, <1>9, <1>10
  <2>2. \A i \in Index : altering.end <= i /\ i <= LastOf(b) => entryTable[i] = "ERASED"
    BY <1>6, <1>9, <1>10, IndexProperty
  <2> QED
    BY <1>1, <1>2, <1>3, <1>5, <1>6, <1>9, <2>1, <2>2, ItemStatesErased
<1>12. Erasing'
  BY <1>7, <1>8 DEF Erasing
<1>13. /\ ~Entering /\ ~Clearing /\ ~Writing /\ pc \in {"alter", "erased"}
       /\ Swept = (IF op = NoOp THEN at ELSE ENTRY_COUNT) /\ Gone = {altering.begin} /\ Fresh = {}
       /\ Kept = {h \in Heads : h < Swept} \ {altering.begin}
       /\ Altered = altering.begin .. altering.begin + altering.span - 1
       /\ Pending = altering.begin .. altering.end - 1
  BY ErasingForm
<1>14. (Erasing =>
    /\ ~Entering /\ ~Clearing /\ ~Failed /\ ~Writing /\ pc \in {"alter", "erased"}
    /\ Swept = (IF op = NoOp THEN at ELSE ENTRY_COUNT) /\ Gone = {altering.begin} /\ Fresh = {}
    /\ Kept = {h \in Heads : h < Swept} \ {altering.begin}
    /\ Altered = altering.begin .. altering.begin + altering.span - 1
    /\ Pending = altering.begin .. altering.end - 1)'
  BY ErasingForm, PTL
<1>15. /\ ~Entering' /\ ~Clearing' /\ ~Writing' /\ ~Failed' /\ Swept' = Swept /\ Gone' = Gone /\ Fresh' = {}
       /\ Altered' = Altered /\ Pending' = b .. m - 1
       /\ Kept' = {h \in Heads' : h < Swept} \ {b}
  <2>1. /\ ~Entering' /\ ~Clearing' /\ ~Failed' /\ ~Writing'
        /\ Swept' = (IF op' = NoOp THEN at' ELSE ENTRY_COUNT) /\ Gone' = {altering'.begin} /\ Fresh' = {}
        /\ Kept' = {h \in Heads' : h < Swept'} \ {altering'.begin}
        /\ Altered' = altering'.begin .. altering'.begin + altering'.span - 1
        /\ Pending' = altering'.begin .. altering'.end - 1
    BY <1>12, <1>14
  <2>2. Swept' = Swept
    BY <1>1, <1>13, <2>1 DEF scanVars
  <2>3. Gone' = Gone /\ Altered' = Altered
    BY <1>0, <1>7, <1>13, <2>1
  <2>4. Pending' = b .. m - 1
    BY <1>7, <2>1
  <2>5. Kept' = {h \in Heads' : h < Swept} \ {b}
    BY <1>7, <2>1, <2>2
  <2> QED
    BY <2>1, <2>2, <2>3, <2>4, <2>5
<1>16. Kept' = Kept
  <2>1. Kept = {h \in Heads : h < Swept} \ {b}
    BY <1>0, <1>13
  <2>2. \A h : h # b => (h \in Heads' <=> h \in Heads)
    BY <1>11
  <2> QED
    BY <1>15, <2>1, <2>2
<1>17. Altered = b .. p - 1 /\ Pending = b .. altering.end - 1 /\ Swept \in Nat
  <2>1. Altered = b .. p - 1
    BY <1>0, <1>6, <1>13
  <2>2. Pending = b .. altering.end - 1
    BY <1>0, <1>13
  <2>3. Swept \in Nat
    BY <1>2, <1>13, SizeAssumption DEF ControlInv
  <2> QED
    BY <2>1, <2>2, <2>3
<1>18. ControlInv'
  BY <1>1, <1>2, <1>7, <1>8, <1>15 DEF ControlInv, PC, scanVars
<1>19. mEntryTable = entryTable /\ mState = header
  BY <1>2 DEF RamInv
<1>20. WrittenEntries' \ Altered' = WrittenEntries \ Altered
  <2>1. \A e \in Index : e \notin Altered => mEntryTable'[e] = mEntryTable[e]
    BY <1>3, <1>5, <1>6, <1>17, <1>19, IndexProperty
  <2> QED
    BY <1>15, <2>1 DEF WrittenEntries
<1>21. MembersRight'
  <2>1. \A h \in Heads' : h \in Heads
    BY <1>11
  <2>2. mHashList' = Kept' \cup Fresh'
    BY <1>1, <1>2, <1>13, <1>15, <1>16 DEF MembersRight
  <2>3. mUsedEntryCount' = Cardinality(WrittenEntries' \ Altered')
        /\ mFirstUsedEntry' = LeastOr((WrittenEntries' \ Altered') \cup Gone', INVALID_ENTRY)
    BY <1>1, <1>2, <1>15, <1>20 DEF MembersRight
  <2>4. \A h \in Heads' : h < mNextFreeEntry' \/ h \in Fresh'
    BY <1>1, <1>2, <1>13, <2>1 DEF MembersRight
  <2> QED
    BY <2>2, <2>3, <2>4 DEF MembersRight
<1>22. KeptRight'
  <2>1. ASSUME NEW h \in Kept PROVE Whole(h)'
    <3>1. h \in Heads /\ h # b /\ Whole(h) /\ h \in Nat /\ LastOf(h) \in Nat
      BY <1>0, <1>2, <1>13, HeadProperty DEF KeptRight
    <3>2. LastOf(h) < b \/ LastOf(b) < h
      BY <1>2, <1>6, <1>9, <3>1, HeadProperty
    <3>3. \A e \in Index : Covers(h, e) => ~(m <= e /\ e < altering.end)
      BY <1>3, <1>6, <1>9, <1>10, <3>1, <3>2, IndexProperty DEF Covers
    <3>4. \A e \in Index : Covers(h, e)' <=> Covers(h, e)
      BY <1>11 DEF Covers
    <3> QED
      BY <1>5, <3>1, <3>3, <3>4 DEF Whole
  <2>2. \A g, h \in Kept' : entryData'[g].key = entryData'[h].key => g = h
    BY <1>1, <1>2, <1>16 DEF KeptRight
  <2>3. pc' # "write"
    BY <1>8
  <2> QED
    BY <1>15, <1>16, <2>1, <2>2, <2>3 DEF KeptRight
<1>23. EndRight'
  <2> SUFFICES ASSUME header = "ACTIVE" PROVE CleanEnd' \/ CutItem'
    BY <1>1 DEF EndRight
  <2>1. CleanEnd \/ CutItem
    BY <1>2, <1>13 DEF EndRight
  <2>2. \A e \in Index : entryTable'[e] = "EMPTY" => entryTable[e] = "EMPTY" /\ ~(m <= e /\ e < altering.end)
    BY <1>5
  <2>3. \A e \in Index : e \in Pending /\ ~(m <= e /\ e < altering.end) => e \in b .. m - 1
    BY <1>3, <1>6, <1>17, IndexProperty
  <2>4. CASE CleanEnd
    <3>1. Frontier' = Frontier /\ Frontier >= p /\ Frontier \in Nat
      BY <1>0, <1>1, <1>6, <1>7, <1>12 DEF Frontier
    <3>2. \A e \in Index : e >= Frontier => entryTable[e] = "EMPTY" /\ entryData[e] = Blank
      BY <1>1, <2>4 DEF CleanEnd
    <3>3. \A e \in Index : e >= Frontier => ~(m <= e /\ e < altering.end)
      BY <1>3, <1>6, <3>1, IndexProperty
    <3>4. \A e \in Index : e >= Frontier => entryTable'[e] = "EMPTY" /\ entryData'[e] = Blank
      BY <1>1, <1>5, <3>2, <3>3
    <3>5. \A e \in Index : entryTable[e] = "EMPTY" => e >= Frontier \/ e \in Pending
      BY <2>4 DEF CleanEnd
    <3>6. \A e \in Index : entryTable'[e] = "EMPTY" => e >= Frontier \/ e \in b .. m - 1
      BY <2>2, <2>3, <3>5
    <3> QED
      BY <1>15, <3>1, <3>4, <3>6 DEF CleanEnd
  <2>5. CASE CutItem
    <3>1. PICK n \in Heads :
            /\ Swept <= n /\ n < mNextFreeEntry /\ mNextFreeEntry <= LastOf(n) /\ ~Whole(n)
            /\ \A e \in Index : e > LastOf(n) => Untouched(e)
      BY <2>5 DEF CutItem
    <3>2. n \in Nat /\ n # b /\ LastOf(n) \in Nat /\ n < LastOf(n) /\ LastOf(b) < n
      <4>1. n \in Nat /\ LastOf(n) \in Nat /\ n < LastOf(n)
        BY <1>2, HeadProperty
      <4> QED
        BY <1>6, <1>9, <1>10, <1>17, <3>1, <4>1
    <3>3. n \in Heads' /\ ~Whole(n)'
      BY <1>11, <3>1, <3>2
    <3>4. \A e \in Index : e > LastOf(n) => Untouched(e)'
      <4>1. \A e \in Index : e > LastOf(n) => ~(m <= e /\ e < altering.end)
        BY <1>3, <1>6, <1>9, <1>10, <3>2, IndexProperty
      <4> QED
        BY <1>1, <1>5, <3>1, <4>1 DEF Untouched
    <3>5. \A e \in Index : entryTable'[e] = "EMPTY" => e >= mNextFreeEntry \/ e \in b .. m - 1
      BY <2>2, <2>3, <2>5 DEF CutItem
    <3>6. op' = NoOp
      BY <1>1, <2>5 DEF CutItem
    <3> QED
      BY <1>1, <1>11, <1>12, <1>15, <3>1, <3>3, <3>4, <3>5, <3>6 DEF CutItem
  <2> QED
    BY <2>1, <2>4, <2>5
<1>24. AlterInv'
  BY <1>0, <1>3, <1>6, <1>7, <1>8, <1>12, <1>15 DEF AlterInv
<1>25. WriteInv' /\ EnterInv'
  BY <1>15 DEF WriteInv, EnterInv
<1>26. EraseInv'
  <2>1. b \in Index
    BY <1>9 DEF Heads
  <2>2. pc' = "alter" => b \in Heads' /\ LastOf(b)' + 1 = p
    BY <1>8, <1>9, <1>11
  <2>3. \A e \in Index : m <= e /\ e < p => entryTable'[e] = "ERASED"
    BY <1>3, <1>5, <1>6, <1>9, IndexProperty
  <2>4. LastOf(altering.begin)' = LastOf(b)
    BY <1>1, <1>7 DEF LastOf
  <2>5. altering'.begin + altering'.span = p
    BY <1>0, <1>7
  <2> QED
    BY <1>7, <1>9, <1>15, <2>1, <2>2, <2>3, <2>4, <2>5 DEF EraseInv
<1>27. ScanInv'
  <2>1. \A h \in Heads' : h \in Heads
    BY <1>11
  <2> QED
    BY <1>1, <1>2, <1>8, <1>11, <1>13, <1>15, <2>1 DEF ScanInv, scanVars
<1> QED
  BY <1>1, <1>3, <1>11, <1>18, <1>19, <1>21, <1>22, <1>23, <1>24, <1>25, <1>26, <1>27 DEF StringInv, RamInv

\* eraseEntryAndSpan() ends, for a request or in load().
LEMMA ErasedStep == ASSUME StringInv, Erased PROVE StringInv'
<1>0. PICK b, p, last : b = altering.begin /\ p = altering.begin + altering.span
         /\ last = IF mNextFreeEntry > ENTRY_COUNT THEN ENTRY_COUNT ELSE mNextFreeEntry
  OBVIOUS
<1>1. /\ pc = "erased"
      /\ mFirstUsedEntry' = IF b = mFirstUsedEntry
                            THEN LeastOr(WrittenEntries \cap p .. last - 1, INVALID_ENTRY) ELSE mFirstUsedEntry
      /\ mNextFreeEntry' = IF p > mNextFreeEntry THEN p ELSE mNextFreeEntry
      /\ IF op = NoOp THEN pc' = "scan" /\ UNCHANGED ret ELSE Respond("OK")
      /\ altering' = Unaltered
      /\ UNCHANGED <<flashVars, mState, mEntryTable, mUsedEntryCount, mHashList, op, found, written, scanVars, boundVars>>
  BY <1>0 DEF Erased
<1>2. FlashInv /\ ControlInv /\ RamInv /\ AlterInv /\ EraseInv /\ ScanInv /\ MembersRight /\ KeptRight /\ EndRight
  BY <1>1 DEF StringInv, RamInv, Failed
<1>3. Erasing /\ altering.end = altering.begin
  BY <1>1, <1>2 DEF AlterInv, Erasing
<1>4. /\ ~Entering /\ ~Clearing /\ ~Writing
      /\ Swept = (IF op = NoOp THEN at ELSE ENTRY_COUNT) /\ Gone = {altering.begin} /\ Fresh = {}
      /\ Kept = {h \in Heads : h < Swept} \ {altering.begin}
      /\ Altered = altering.begin .. altering.begin + altering.span - 1
      /\ Pending = altering.begin .. altering.end - 1
  BY <1>3, ErasingForm
<1>5. /\ b \in Nat /\ altering.span \in Nat /\ p \in Nat /\ b \in Index /\ mNextFreeEntry \in Nat
      /\ b < Swept /\ p <= Swept /\ Swept <= ENTRY_COUNT /\ Swept \in Nat
      /\ \A e \in Index : b <= e /\ e < p => entryTable[e] = "ERASED"
  <2>1. b \in Nat /\ altering.span \in Nat /\ p \in Nat /\ mNextFreeEntry \in Nat /\ Swept \in Nat
    BY <1>0, <1>2, <1>4, SizeAssumption DEF ControlInv
  <2> QED
    BY <1>0, <1>2, <1>3, <2>1 DEF EraseInv
<1>6. mEntryTable = entryTable /\ mState = header
  BY <1>2 DEF RamInv
<1>7. /\ WrittenEntries = {i \in Index : entryTable[i] = "WRITTEN"} /\ WrittenEntries \in SUBSET Nat
      /\ INVALID_ENTRY \notin WrittenEntries /\ Heads \subseteq WrittenEntries
  BY <1>6, WrittenProperty
<1>8. \A e \in WrittenEntries : e < b \/ e >= p
  BY <1>5, <1>7
<1>9. WrittenEntries \ Altered = WrittenEntries /\ Pending = {}
  <2>1. WrittenEntries \ Altered = WrittenEntries
    BY <1>0, <1>4, <1>5, <1>7, <1>8
  <2>2. Pending = {}
    BY <1>0, <1>3, <1>4, <1>5
  <2> QED
    BY <2>1, <2>2
<1>10. b \notin Heads \/ b >= p
  BY <1>5, <1>7, <1>8
<1>11. altering.span > 0 => b \notin Heads
  BY <1>0, <1>5, <1>10
<1>12. \A h \in Heads : h \in Nat /\ LastOf(h) \in Nat /\ h < mNextFreeEntry /\ h < ENTRY_COUNT
  BY <1>2, <1>4, HeadProperty, SizeAssumption DEF MembersRight, Index
<1>13. /\ FlashInv' /\ Heads' = Heads
       /\ \A j : LastOf(j)' = LastOf(j) /\ (Whole(j)' <=> Whole(j))
       /\ \A j, e : Covers(j, e)' <=> Covers(j, e)
       /\ \A e : Untouched(e)' <=> Untouched(e)
  BY <1>1, <1>2, FlashSame
<1>14. WrittenEntries' = WrittenEntries
  BY <1>1 DEF WrittenEntries
<1>15. mFirstUsedEntry' = LeastOr(WrittenEntries, INVALID_ENTRY)
  <2> DEFINE W == WrittenEntries
  <2>1. mFirstUsedEntry = LeastOr(W \cup {b}, INVALID_ENTRY)
    BY <1>0, <1>2, <1>4, <1>9 DEF MembersRight
  <2>2. W \cup {b} \in SUBSET Nat /\ W \cup {b} # {}
    BY <1>5, <1>7
  <2>3. mFirstUsedEntry \in W \cup {b} /\ \A y \in W \cup {b} : mFirstUsedEntry <= y
    BY <2>1, <2>2, LeastOrProperty
  <2>4. CASE b = mFirstUsedEntry
    <3> DEFINE R == W \cap p .. last - 1
    <3>1. mFirstUsedEntry' = LeastOr(R, INVALID_ENTRY) /\ R \in SUBSET Nat
      BY <1>1, <1>7, <2>4
    <3>2. CASE W = {}
      BY <3>1, <3>2, LeastOrProperty
    <3>3. CASE W # {}
      <4> DEFINE x == LeastOr(W, INVALID_ENTRY)
      <4>1. x \in Heads /\ x \in W /\ \A y \in W : x <= y
        BY <1>2, <1>7, <3>3, FirstIsHead
      <4> HIDE DEF x
      <4>2. x \in Nat /\ x < mNextFreeEntry /\ x < ENTRY_COUNT
        BY <1>12, <4>1
      <4>3. b <= x /\ (x < b \/ x >= p)
        BY <1>8, <2>3, <2>4, <4>1
      <4>4. x >= p
        BY <1>5, <4>2, <4>3
      <4>5. x <= last - 1 /\ last \in Int
        BY <1>0, <1>5, <4>2, SizeAssumption
      <4>6. x \in R
        BY <1>5, <4>1, <4>2, <4>4, <4>5
      <4>7. \A y \in R : x <= y
        BY <4>1
      <4> HIDE DEF R
      <4>8. LeastOr(R, INVALID_ENTRY) = x
        BY <3>1, <4>6, <4>7, LeastIs
      <4> QED
        BY <3>1, <4>8 DEF x
    <3> QED
      BY <3>2, <3>3
  <2>5. CASE b # mFirstUsedEntry
    <3>1. mFirstUsedEntry' = mFirstUsedEntry /\ mFirstUsedEntry \in W /\ \A y \in W : mFirstUsedEntry <= y
      BY <1>1, <2>3, <2>5
    <3>2. LeastOr(W, INVALID_ENTRY) = mFirstUsedEntry
      BY <1>7, <3>1, LeastIs
    <3> QED
      BY <3>1, <3>2
  <2> QED
    BY <2>4, <2>5
<1>16. mNextFreeEntry' = Frontier /\ mNextFreeEntry' \in Nat /\ mNextFreeEntry' >= mNextFreeEntry
  BY <1>0, <1>1, <1>3, <1>5 DEF Frontier
<1>17. mUsedEntryCount' = Cardinality(WrittenEntries)
  BY <1>1, <1>2, <1>9 DEF MembersRight
<1>18. \A h \in Heads : h < mNextFreeEntry'
  BY <1>5, <1>12, <1>16
\* While an item is erased, it has entries.
<1>19. Kept = {h \in Heads : h < Swept}
  <2>1. b \notin Heads
    <3>1. b < p
      BY <1>0, <1>2, <1>3, <1>5 DEF EraseInv
    <3> QED
      BY <1>5, <1>10, <3>1
  <2> QED
    BY <1>0, <1>4, <2>1
<1>20. CASE op # NoOp
  <2>1. pc' = "return" /\ ret' = "OK" /\ Quiet' /\ op' = op
    BY <1>1, <1>20 DEF Respond, Quiet
  <2>2. ControlInv'
    BY <1>1, <1>2, <1>16, <1>20, <2>1 DEF ControlInv, PC, Clearing, Unaltered, scanVars, flashVars
  <2>3. Kept = Heads
    BY <1>4, <1>12, <1>19, <1>20
  <2>4. header = "ACTIVE" =>
          \A e \in Index : /\ e >= Frontier => Untouched(e)
                           /\ entryTable[e] = "EMPTY" => e >= Frontier
    <3>1. ~CutItem
      BY <1>20 DEF CutItem
    <3> QED
      BY <1>1, <1>2, <1>4, <1>9, <3>1 DEF EndRight, CleanEnd, Untouched
  <2>5. QuietInv'
    <3>1. mEntryTable' = entryTable' /\ mState' = header' /\ mHashList' = Heads'
      BY <1>1, <1>2, <1>4, <1>6, <1>13, <2>3 DEF MembersRight, flashVars
    <3>2. \A h \in Heads' : h < mNextFreeEntry' /\ Whole(h)'
      BY <1>2, <1>13, <1>18, <2>3 DEF KeptRight
    <3>3. \A g, h \in Heads' : entryData'[g].key = entryData'[h].key => g = h
      BY <1>1, <1>2, <1>13, <2>3 DEF KeptRight, flashVars
    <3>4. header' = "ACTIVE" =>
       \A e \in Index : /\ e >= mNextFreeEntry' => Untouched(e)'
                        /\ entryTable'[e] = "EMPTY" => e >= mNextFreeEntry'
      BY <1>1, <1>13, <1>16, <2>4 DEF flashVars
    <3> QED
      BY <1>14, <1>15, <1>17, <2>1, <3>1, <3>2, <3>3, <3>4 DEF QuietInv
  <2>6. (FlashInv /\ ControlInv /\ Quiet => (RamInv <=> QuietInv))'
    BY QuietRam, PTL
  <2> QED
    BY <1>13, <2>1, <2>2, <2>5, <2>6 DEF StringInv
<1>21. CASE op = NoOp
  <2>1. pc' = "scan" /\ op' = NoOp /\ at' = at /\ end' = end
    BY <1>1, <1>21 DEF scanVars
  <2>2. ~Erasing' /\ ~Entering' /\ ~Clearing' /\ ~Writing' /\ ~Failed'
    BY <2>1 DEF Erasing, Entering, Clearing, Writing, Failed
  <2>3. ControlInv'
    BY <1>1, <1>2, <1>16, <2>1, <2>2 DEF ControlInv, PC, Unaltered, scanVars, flashVars
  <2>4. Swept' = at /\ Swept = at /\ Gone' = {} /\ Fresh' = {} /\ Altered' = {} /\ Pending' = {} /\ Frontier' = mNextFreeEntry'
    BY <1>4, <1>21, <2>1, <2>2 DEF Swept, Gone, Fresh, Altered, Pending, Frontier
  <2>5. Kept' = Kept
    BY <1>13, <1>19, <2>4 DEF Kept
  <2>6. MembersRight'
    <3>1. WrittenEntries' \ Altered' = WrittenEntries /\ (WrittenEntries' \ Altered') \cup Gone' = WrittenEntries
      BY <1>14, <2>4
    <3>2. mHashList' = Kept' \cup Fresh'
      BY <1>1, <1>2, <1>4, <2>4, <2>5 DEF MembersRight
    <3> QED
      BY <1>13, <1>15, <1>17, <1>18, <3>1, <3>2 DEF MembersRight
  <2>7. KeptRight'
    <3>1. \A h \in Kept : Whole(h)'
      BY <1>2, <1>13 DEF KeptRight
    <3>2. \A g, h \in Kept : entryData'[g].key = entryData'[h].key => g = h
      BY <1>1, <1>2 DEF KeptRight, flashVars
    <3> QED
      BY <2>1, <2>2, <2>5, <3>1, <3>2 DEF KeptRight
  <2>8. EndRight'
    <3> SUFFICES ASSUME header = "ACTIVE" PROVE CleanEnd' \/ CutItem'
      BY <1>1 DEF EndRight, flashVars
    <3>1. CleanEnd \/ CutItem
      BY <1>2, <1>4 DEF EndRight
    <3>2. CASE CleanEnd
      <4>1. \A e \in Index : /\ e >= Frontier => entryTable[e] = "EMPTY" /\ entryData[e] = Blank
                             /\ entryTable[e] = "EMPTY" => e >= Frontier
        BY <1>1, <1>9, <3>2 DEF CleanEnd
      <4> QED
        BY <1>1, <1>16, <2>4, <4>1 DEF CleanEnd, flashVars
    <3>3. CASE CutItem
      <4>1. PICK n \in Heads :
              /\ Swept <= n /\ n < mNextFreeEntry /\ mNextFreeEntry <= LastOf(n) /\ ~Whole(n)
              /\ \A e \in Index : e > LastOf(n) => Untouched(e)
        BY <3>3 DEF CutItem
      <4>2. mNextFreeEntry' = mNextFreeEntry
        BY <1>1, <1>5, <1>12, <4>1
      <4>3. \A e \in Index : entryTable[e] = "EMPTY" => e >= mNextFreeEntry
        BY <1>9, <3>3 DEF CutItem
      <4>4. \E k \in Heads' :
              /\ Swept' <= k /\ k < mNextFreeEntry' /\ mNextFreeEntry' <= LastOf(k)' /\ ~Whole(k)'
              /\ \A e \in Index : e > LastOf(k)' => Untouched(e)'
        BY <1>13, <2>4, <4>1, <4>2
      <4>5. \A e \in Index : entryTable'[e] = "EMPTY" => e >= mNextFreeEntry' \/ e \in Pending'
        BY <1>1, <4>2, <4>3 DEF flashVars
      <4> QED
        BY <2>1, <4>4, <4>5 DEF CutItem
    <3> QED
      BY <3>1, <3>2, <3>3
  <2>9. AlterInv' /\ WriteInv' /\ EnterInv' /\ EraseInv'
    BY <2>1, <2>2 DEF AlterInv, WriteInv, EnterInv, EraseInv
  <2>10. ScanInv'
    <3>1. /\ end <= ENTRY_COUNT /\ end <= mNextFreeEntry
          /\ \A h \in Heads : h < end /\ (h >= Swept \/ LastOf(h) < Swept)
      BY <1>2, <1>3, <1>21 DEF ScanInv
    <3>2. end <= mNextFreeEntry'
      BY <1>2, <1>5, <1>16, <3>1 DEF ControlInv
    <3> QED
      BY <1>13, <2>1, <2>2, <2>4, <3>1, <3>2 DEF ScanInv
  <2>11. mEntryTable' = entryTable' /\ mState' = header'
    BY <1>1, <1>6 DEF flashVars
  <2> QED
    BY <1>13, <2>3, <2>6, <2>7, <2>8, <2>9, <2>10, <2>11 DEF StringInv, RamInv
<1> QED
  BY <1>20, <1>21

-----------------------------------------------------------------------------
(* RAM while load() is under way. *)

\* An item from s on was cut off, and reaches to the first empty entry or beyond.
CutFrom(s) ==
  \E n \in Heads :
    /\ s <= n /\ n < mNextFreeEntry /\ mNextFreeEntry <= LastOf(n) /\ ~Whole(n)
    /\ \A e \in Index : e > LastOf(n) => Untouched(e)

LoadedInv ==
  /\ mEntryTable = entryTable /\ mState = header
  /\ \A h \in Heads : h < mNextFreeEntry

HalfInv ==
  /\ LoadedInv /\ header = "ACTIVE" /\ mHashList = {}
  /\ mUsedEntryCount = Cardinality(WrittenEntries)
  /\ mFirstUsedEntry = LeastOr(WrittenEntries, INVALID_ENTRY)
  /\ \A e \in Index : entryTable[e] = "EMPTY" => e >= mNextFreeEntry
  /\ \/ CutFrom(0)
     \/ \A e \in Index : e >= mNextFreeEntry =>
          /\ entryTable[e] = "EMPTY"
          /\ entryData[e] = Blank \/ (e = mNextFreeEntry /\ ~FirstWordBlank(entryData[e]))

LEMMA HalfRam == FlashInv /\ ControlInv /\ pc = "half" => (RamInv <=> HalfInv)
<1> SUFFICES ASSUME FlashInv, ControlInv, pc = "half" PROVE RamInv <=> HalfInv
  OBVIOUS
<1>1. ~Erasing /\ ~Entering /\ ~Clearing /\ ~Writing /\ op = NoOp
  BY DEF Erasing, Entering, Clearing, Writing, ControlInv
<1>2. Altered = {} /\ Gone = {} /\ Fresh = {} /\ Pending = {} /\ Swept = 0 /\ Frontier = mNextFreeEntry
  BY <1>1 DEF Altered, Gone, Fresh, Pending, Swept, Frontier
<1>3. Kept = {}
  <2>1. \A h \in Heads : ~(h < 0)
    BY IndexProperty DEF Heads
  <2> QED
    BY <1>2, <2>1 DEF Kept
<1>4. WrittenEntries \ Altered = WrittenEntries /\ (WrittenEntries \ Altered) \cup Gone = WrittenEntries
      /\ Kept \cup Fresh = {}
  BY <1>2, <1>3
<1>5. MembersRight <=> /\ mUsedEntryCount = Cardinality(WrittenEntries)
                       /\ mFirstUsedEntry = LeastOr(WrittenEntries, INVALID_ENTRY)
                       /\ mHashList = {} /\ \A h \in Heads : h < mNextFreeEntry
  BY <1>2, <1>4 DEF MembersRight
<1>6. KeptRight
  BY <1>1, <1>3 DEF KeptRight
<1>7. CutItem <=> CutFrom(0) /\ \A e \in Index : entryTable[e] = "EMPTY" => e >= mNextFreeEntry
  BY <1>1, <1>2 DEF CutItem, CutFrom
<1>8. CleanEnd <=>
        /\ \A e \in Index : e >= mNextFreeEntry =>
             /\ entryTable[e] = "EMPTY"
             /\ entryData[e] = Blank \/ (e = mNextFreeEntry /\ ~FirstWordBlank(entryData[e]))
        /\ \A e \in Index : entryTable[e] = "EMPTY" => e >= mNextFreeEntry
  BY <1>1, <1>2 DEF CleanEnd
<1>9. AlterInv /\ WriteInv /\ EnterInv /\ EraseInv
  BY <1>1 DEF AlterInv, WriteInv, EnterInv, EraseInv
<1>10. ScanInv <=> header = "ACTIVE" /\ mHashList = {}
  BY <1>1 DEF ScanInv
<1>11. EndRight <=> (header = "ACTIVE" => CleanEnd \/ CutItem)
  BY <1>1 DEF EndRight
<1> QED
  BY <1>5, <1>6, <1>7, <1>8, <1>9, <1>10, <1>11 DEF RamInv, HalfInv, LoadedInv

ClearingInv ==
  /\ LoadedInv /\ header = "ACTIVE" /\ mHashList = {}
  /\ altering.begin \in Index /\ altering.span = 1 /\ altering.end = altering.begin + 1
  /\ altering.state = "ERASED"
  /\ mNextFreeEntry = altering.begin + 1 /\ altering.begin \notin Heads
  /\ mUsedEntryCount = Cardinality(WrittenEntries \ {altering.begin})
  /\ mFirstUsedEntry = LeastOr(WrittenEntries \ {altering.begin}, INVALID_ENTRY)
  /\ \A e \in Index : entryTable[e] = "EMPTY" => e >= altering.begin
  /\ CutFrom(0) \/ \A e \in Index : e >= mNextFreeEntry => Untouched(e)

LEMMA ClearingRam == FlashInv /\ ControlInv /\ Clearing => (RamInv <=> ClearingInv)
<1> SUFFICES ASSUME FlashInv, ControlInv, Clearing PROVE RamInv <=> ClearingInv
  OBVIOUS
<1>1. ~Erasing /\ ~Entering /\ ~Writing /\ pc = "alter" /\ op = NoOp
      /\ altering.begin \in Nat /\ altering.end \in Nat /\ altering.span \in Nat /\ mNextFreeEntry \in Nat
  BY DEF Erasing, Entering, Clearing, Writing, ControlInv
<1>2. AlterInv <=> altering.state = "ERASED" /\ altering.begin < altering.end /\ altering.end <= altering.begin + altering.span
  BY <1>1 DEF AlterInv
<1>3. ScanInv <=> /\ header = "ACTIVE" /\ mHashList = {} /\ altering.begin \in Index /\ altering.span = 1
                  /\ mNextFreeEntry = altering.begin + 1 /\ altering.begin \notin Heads
  BY <1>1 DEF ScanInv
<1>4. AlterInv /\ ScanInv <=>
        /\ header = "ACTIVE" /\ mHashList = {} /\ altering.begin \in Index /\ altering.span = 1
        /\ mNextFreeEntry = altering.begin + 1 /\ altering.begin \notin Heads
        /\ altering.state = "ERASED" /\ altering.end = altering.begin + 1
  BY <1>1, <1>2, <1>3
<1>5. WriteInv /\ EnterInv /\ EraseInv
  BY <1>1 DEF WriteInv, EnterInv, EraseInv
<1> SUFFICES ASSUME /\ header = "ACTIVE" /\ mHashList = {} /\ altering.begin \in Index /\ altering.span = 1
                    /\ mNextFreeEntry = altering.begin + 1 /\ altering.begin \notin Heads
                    /\ altering.state = "ERASED" /\ altering.end = altering.begin + 1
             PROVE  RamInv <=> ClearingInv
  BY <1>4 DEF RamInv, ClearingInv
<1>6. Altered = {altering.begin} /\ Pending = {altering.begin}
  <2>1. Altered = altering.begin .. altering.begin + 1 - 1 /\ Pending = altering.begin .. altering.begin + 1 - 1
    BY <1>1 DEF Altered, Pending
  <2> QED
    BY <1>1, <2>1
<1>7. Gone = {} /\ Fresh = {} /\ Swept = 0 /\ Frontier = mNextFreeEntry
  BY <1>1 DEF Gone, Fresh, Swept, Frontier
<1>8. Kept = {}
  <2>1. \A h \in Heads : ~(h < 0)
    BY IndexProperty DEF Heads
  <2> QED
    BY <1>7, <2>1 DEF Kept
<1>9. (WrittenEntries \ Altered) \cup Gone = WrittenEntries \ {altering.begin} /\ Kept \cup Fresh = {}
  BY <1>6, <1>7, <1>8
<1>10. MembersRight <=> /\ mUsedEntryCount = Cardinality(WrittenEntries \ {altering.begin})
                        /\ mFirstUsedEntry = LeastOr(WrittenEntries \ {altering.begin}, INVALID_ENTRY)
                        /\ \A h \in Heads : h < mNextFreeEntry
  BY <1>6, <1>7, <1>9 DEF MembersRight
<1>11. KeptRight
  BY <1>1, <1>8 DEF KeptRight
<1>12. \A e \in Index : e >= altering.begin <=> e >= mNextFreeEntry \/ e \in Pending
  BY <1>1, <1>6, IndexProperty
<1>13. CutItem <=> CutFrom(0) /\ \A e \in Index : entryTable[e] = "EMPTY" => e >= altering.begin
  BY <1>1, <1>7, <1>12 DEF CutItem, CutFrom
<1>14. CleanEnd <=> /\ \A e \in Index : e >= mNextFreeEntry => Untouched(e)
                    /\ \A e \in Index : entryTable[e] = "EMPTY" => e >= altering.begin
  BY <1>1, <1>7, <1>12 DEF CleanEnd, Untouched
<1>15. EndRight <=> CleanEnd \/ CutItem
  BY <1>1 DEF EndRight
<1> QED
  BY <1>4, <1>5, <1>10, <1>11, <1>13, <1>14, <1>15 DEF RamInv, ClearingInv, LoadedInv

ScanningInv ==
  /\ LoadedInv /\ mHashList = {h \in Heads : h < at}
  /\ mUsedEntryCount = Cardinality(WrittenEntries)
  /\ mFirstUsedEntry = LeastOr(WrittenEntries, INVALID_ENTRY)
  /\ \A h \in Heads : h < at => Whole(h)
  /\ \A g, h \in Heads : g < at /\ h < at /\ entryData[g].key = entryData[h].key => g = h
  /\ header = "ACTIVE" => /\ \A e \in Index : entryTable[e] = "EMPTY" => e >= mNextFreeEntry
                          /\ CutFrom(at) \/ \A e \in Index : e >= mNextFreeEntry => Untouched(e)
  /\ end <= ENTRY_COUNT /\ end <= mNextFreeEntry
  /\ \A h \in Heads : h < end /\ (h >= at \/ LastOf(h) < at)

LEMMA ScanningRam == FlashInv /\ ControlInv /\ pc = "scan" => (RamInv <=> ScanningInv)
<1> SUFFICES ASSUME FlashInv, ControlInv, pc = "scan" PROVE RamInv <=> ScanningInv
  OBVIOUS
<1>1. ~Erasing /\ ~Entering /\ ~Clearing /\ ~Writing /\ op = NoOp
  BY DEF Erasing, Entering, Clearing, Writing, ControlInv
<1>2. Altered = {} /\ Gone = {} /\ Fresh = {} /\ Pending = {} /\ Swept = at /\ Frontier = mNextFreeEntry
  BY <1>1 DEF Altered, Gone, Fresh, Pending, Swept, Frontier
<1>3. Kept = {h \in Heads : h < at}
  BY <1>2 DEF Kept
<1>4. WrittenEntries \ Altered = WrittenEntries /\ (WrittenEntries \ Altered) \cup Gone = WrittenEntries
      /\ Kept \cup Fresh = {h \in Heads : h < at}
  BY <1>2, <1>3
<1>5. MembersRight <=> /\ mUsedEntryCount = Cardinality(WrittenEntries)
                       /\ mFirstUsedEntry = LeastOr(WrittenEntries, INVALID_ENTRY)
                       /\ mHashList = {h \in Heads : h < at} /\ \A h \in Heads : h < mNextFreeEntry
  BY <1>2, <1>4 DEF MembersRight
<1>6. KeptRight <=> /\ \A h \in Heads : h < at => Whole(h)
                    /\ \A g, h \in Heads : g < at /\ h < at /\ entryData[g].key = entryData[h].key => g = h
  <2>1. \A h : h \in Kept <=> h \in Heads /\ h < at
    BY <1>3
  <2> QED
    BY <1>1, <2>1 DEF KeptRight
<1>7. CutItem <=> CutFrom(at) /\ \A e \in Index : entryTable[e] = "EMPTY" => e >= mNextFreeEntry
  BY <1>1, <1>2 DEF CutItem, CutFrom
<1>8. CleanEnd <=> /\ \A e \in Index : e >= mNextFreeEntry => Untouched(e)
                   /\ \A e \in Index : entryTable[e] = "EMPTY" => e >= mNextFreeEntry
  BY <1>1, <1>2 DEF CleanEnd, Untouched
<1>9. AlterInv /\ WriteInv /\ EnterInv /\ EraseInv
  BY <1>1 DEF AlterInv, WriteInv, EnterInv, EraseInv
<1>10. ScanInv <=> /\ end <= ENTRY_COUNT /\ end <= mNextFreeEntry
                   /\ \A h \in Heads : h < end /\ (h >= at \/ LastOf(h) < at)
  BY <1>1, <1>2 DEF ScanInv
<1>11. EndRight <=> (header = "ACTIVE" => CleanEnd \/ CutItem)
  BY <1>1 DEF EndRight
<1> QED
  BY <1>5, <1>6, <1>7, <1>8, <1>9, <1>10, <1>11 DEF RamInv, ScanningInv, LoadedInv

\* load() reads the bitmap.
LEMMA LoadTableStep == ASSUME StringInv, LoadTable PROVE StringInv'
<1> DEFINE W == {i \in Index : entryTable[i] = "WRITTEN"}
           E == {i \in Index : entryTable[i] = "EMPTY"}
<1>1. /\ pc = "load" /\ mState' = header /\ mEntryTable' = entryTable /\ mHashList' = {}
      /\ mUsedEntryCount' = Cardinality(W) /\ mFirstUsedEntry' = LeastOr(W, INVALID_ENTRY)
      /\ mNextFreeEntry' = IF header = "ACTIVE" THEN LeastOr(E, INVALID_ENTRY) ELSE INVALID_ENTRY
      /\ UNCHANGED <<flashVars, op, ret, found, written, altering, boundVars>>
      /\ IF header = "ACTIVE" THEN pc' = "half" /\ UNCHANGED scanVars
         ELSE pc' = "scan" /\ at' = mFirstUsedEntry' /\ end' = ENTRY_COUNT
  BY DEF LoadTable
<1>2. FlashInv /\ ControlInv /\ op = NoOp
  BY <1>1 DEF StringInv, ControlInv
<1>3. /\ FlashInv' /\ Heads' = Heads
      /\ \A i : LastOf(i)' = LastOf(i) /\ (Whole(i)' <=> Whole(i))
      /\ \A e : Untouched(e)' <=> Untouched(e)
  BY <1>1, <1>2, FlashSame
<1>4. W \in SUBSET Nat /\ E \in SUBSET Nat /\ INVALID_ENTRY \in Nat /\ Heads \subseteq W /\ INVALID_ENTRY \notin E
  BY IndexProperty DEF Heads
<1>5. WrittenEntries' = W /\ entryTable' = entryTable /\ header' = header /\ entryData' = entryData
  BY <1>1 DEF WrittenEntries, flashVars
<1> HIDE DEF W
<1>6. mFirstUsedEntry' \in Nat /\ mNextFreeEntry' \in Nat
  <2>1. LeastOr(W, INVALID_ENTRY) \in Nat
    BY <1>4, LeastOrProperty
  <2>2. LeastOr(E, INVALID_ENTRY) \in Nat
    BY <1>4, LeastOrProperty
  <2> QED
    BY <1>1, <1>4, <2>1, <2>2
<1>7. INVALID_ENTRY = ENTRY_COUNT + 1 /\ ENTRY_COUNT \in Nat
  BY SizeAssumption DEF INVALID_ENTRY
<1>8. \A h \in Heads : h \in Nat /\ h < ENTRY_COUNT /\ LastOf(h) \in Nat
  BY <1>2, HeadProperty, SizeAssumption DEF Index
<1>9. CASE header = "ACTIVE"
  <2>1. pc' = "half" /\ mNextFreeEntry' = LeastOr(E, INVALID_ENTRY)
    BY <1>1, <1>9
  <2>2. ControlInv'
    BY <1>1, <1>2, <1>6, <2>1 DEF ControlInv, PC, Clearing, scanVars
  <2>3. CASE E = {}
    <3>1. mNextFreeEntry' = INVALID_ENTRY
      BY <1>4, <2>1, <2>3, LeastOrProperty
    <3>2. \A e \in Index : ~(e >= INVALID_ENTRY) /\ entryTable[e] # "EMPTY"
      BY <1>7, <2>3, IndexProperty, SizeAssumption DEF Index
    <3>3. \A h \in Heads : h < INVALID_ENTRY
      BY <1>7, <1>8
    <3>4. HalfInv'
      BY <1>1, <1>3, <1>5, <1>9, <3>1, <3>2, <3>3 DEF HalfInv, LoadedInv
    <3>5. (FlashInv /\ ControlInv /\ pc = "half" => (RamInv <=> HalfInv))'
      BY HalfRam, PTL
    <3> QED
      BY <1>3, <2>1, <2>2, <3>4, <3>5 DEF StringInv
  <2>4. CASE E # {}
    <3> DEFINE f == LeastOr(E, INVALID_ENTRY)
    <3>1. f \in E /\ \A y \in E : f <= y
      BY <1>4, <2>4, LeastOrProperty
    <3>2. mNextFreeEntry' = f
      BY <2>1
    <3> HIDE DEF f
    <3>3. f \in Index /\ f \in Nat /\ entryTable[f] = "EMPTY" /\ \A e \in Index : entryTable[e] = "EMPTY" => e >= f
      BY <1>4, <3>1
    <3>4. f \notin Heads
      BY <3>3 DEF Heads
    <3>5. \/ \E h \in Heads : Covers(h, f) /\ \A j \in Index : j > LastOf(h) => Untouched(j)
          \/ /\ \A j \in Index : j > f => Untouched(j)
             /\ entryData[f] = Blank \/ ~FirstWordBlank(entryData[f])
      BY <1>2, <3>3 DEF FlashInv, EmptyLast
    <3>6. /\ \A h \in Heads : h < f
          /\ \/ \E n \in Heads : /\ 0 <= n /\ n < f /\ f <= LastOf(n) /\ ~Whole(n)
                                 /\ \A e \in Index : e > LastOf(n) => Untouched(e)
             \/ \A e \in Index : e >= f => /\ entryTable[e] = "EMPTY"
                                           /\ entryData[e] = Blank \/ (e = f /\ ~FirstWordBlank(entryData[e]))
      <4>1. ASSUME NEW n \in Heads, Covers(n, f), \A j \in Index : j > LastOf(n) => Untouched(j)
            PROVE  <3>6
        <5>1. n \in Nat /\ n < f /\ f <= LastOf(n) /\ ~Whole(n) /\ 0 <= n
          BY <1>8, <3>3, <3>4, <4>1 DEF Covers, Whole
        <5>2. ASSUME NEW h \in Heads PROVE h < f
          <6>1. h \in Index /\ h \in Nat /\ ~Untouched(h)
            BY <1>8 DEF Heads, Untouched
          <6>2. ~(h > LastOf(n))
            BY <4>1, <6>1
          <6>3. ~(n < h)
            BY <1>2, <1>8, <6>1, <6>2, HeadProperty
          <6> QED
            BY <3>3, <5>1, <6>1, <6>3
        <5> QED
          BY <4>1, <5>1, <5>2
      <4>2. ASSUME \A j \in Index : j > f => Untouched(j), entryData[f] = Blank \/ ~FirstWordBlank(entryData[f])
            PROVE  <3>6
        <5>1. ASSUME NEW h \in Heads PROVE h < f
          <6>1. h \in Index /\ h \in Nat /\ ~Untouched(h) /\ h # f
            BY <1>8, <3>4 DEF Heads, Untouched
          <6> QED
            BY <3>3, <4>2, <6>1
        <5>2. ASSUME NEW e \in Index, e >= f
              PROVE  entryTable[e] = "EMPTY" /\ (entryData[e] = Blank \/ (e = f /\ ~FirstWordBlank(entryData[e])))
          <6>1. e = f \/ e > f
            BY <3>3, <5>2, IndexProperty
          <6> QED
            BY <3>3, <4>2, <6>1 DEF Untouched
        <5> QED
          BY <5>1, <5>2
      <4> QED
        BY <3>5, <4>1, <4>2
    <3>7. HalfInv'
      BY <1>1, <1>3, <1>5, <1>9, <3>2, <3>3, <3>6 DEF HalfInv, LoadedInv, CutFrom
    <3>8. (FlashInv /\ ControlInv /\ pc = "half" => (RamInv <=> HalfInv))'
      BY HalfRam, PTL
    <3> QED
      BY <1>3, <2>1, <2>2, <3>7, <3>8 DEF StringInv
  <2> QED
    BY <2>3, <2>4
<1>10. CASE header # "ACTIVE"
  <2>1. pc' = "scan" /\ at' = LeastOr(W, INVALID_ENTRY) /\ end' = ENTRY_COUNT /\ mNextFreeEntry' = INVALID_ENTRY
    BY <1>1, <1>10
  <2>2. ControlInv'
    BY <1>1, <1>2, <1>6, <1>7, <2>1 DEF ControlInv, PC, Clearing
  <2>3. \A h \in Heads : h >= at' /\ h < ENTRY_COUNT /\ h < INVALID_ENTRY /\ ~(h < at')
    <3> SUFFICES ASSUME NEW h \in Heads PROVE h >= at' /\ h < ENTRY_COUNT /\ h < INVALID_ENTRY /\ ~(h < at')
      OBVIOUS
    <3>1. at' \in Nat /\ at' <= h
      BY <1>1, <1>4, <1>6, <2>1, LeastOrProperty
    <3> QED
      BY <1>7, <1>8, <3>1
  <2>4. ScanningInv'
    <3>1. mHashList' = {h \in Heads' : h < at'}
      BY <1>1, <1>3, <2>3
    <3>2. end' <= ENTRY_COUNT /\ end' <= mNextFreeEntry'
      BY <1>7, <2>1
    <3> QED
      BY <1>1, <1>3, <1>5, <1>10, <2>1, <2>3, <3>1, <3>2 DEF ScanningInv, LoadedInv
  <2>5. (FlashInv /\ ControlInv /\ pc = "scan" => (RamInv <=> ScanningInv))'
    BY ScanningRam, PTL
  <2> QED
    BY <1>3, <2>1, <2>2, <2>4, <2>5 DEF StringInv
<1> QED
  BY <1>9, <1>10

\* load() finds the first empty entry half-written.
LEMMA ClearHalfWrittenStep == ASSUME StringInv, ClearHalfWritten PROVE StringInv'
<1> DEFINE f == mNextFreeEntry
           W == WrittenEntries
<1>1. /\ pc = "half" /\ pc' = "alter" /\ HalfWritten
      /\ altering' = [begin |-> f, end |-> f + 1, span |-> 1, state |-> "ERASED", range |-> FALSE, then |-> "half"]
      /\ mUsedEntryCount' = IF mEntryTable[f] = "WRITTEN" THEN mUsedEntryCount - 1 ELSE mUsedEntryCount
      /\ mNextFreeEntry' = f + 1
      /\ UNCHANGED <<flashVars, mState, mEntryTable, mFirstUsedEntry, mHashList,
                     op, ret, found, written, scanVars, boundVars>>
  BY DEF ClearHalfWritten, Alter
<1>2. FlashInv /\ ControlInv /\ HalfInv /\ op = NoOp
  BY <1>1, HalfRam DEF StringInv, ControlInv, Failed
<1>3. /\ FlashInv' /\ Heads' = Heads
      /\ \A i : LastOf(i)' = LastOf(i) /\ (Whole(i)' <=> Whole(i))
      /\ \A e : Untouched(e)' <=> Untouched(e)
  BY <1>1, <1>2, FlashSame
<1>4. f \in Nat /\ f \in Index /\ ~FirstWordBlank(entryData[f]) /\ INVALID_ENTRY \in Nat
  BY <1>1, <1>2, IndexProperty DEF HalfWritten, ControlInv
<1>5. f \notin Heads /\ \A h \in Heads : h \in Nat /\ h < f /\ h < f + 1
  <2>1. \A h \in Heads : h \in Nat /\ h < f
    BY <1>2, HeadProperty DEF HalfInv, LoadedInv
  <2> QED
    BY <1>4, <2>1
<1>6. /\ W = {i \in Index : entryTable[i] = "WRITTEN"} /\ W \in SUBSET Nat /\ IsFiniteSet(W) /\ Cardinality(W) \in Nat
      /\ mEntryTable = entryTable /\ mUsedEntryCount = Cardinality(W) /\ mFirstUsedEntry = LeastOr(W, INVALID_ENTRY)
  BY <1>2, WrittenProperty DEF HalfInv, LoadedInv
<1>7. W' = W
  BY <1>1 DEF WrittenEntries
<1>8. ControlInv'
  <2>1. altering' \in [begin : Nat, end : Nat, span : Nat, state : {"EMPTY", "WRITTEN", "ERASED"},
                       range : BOOLEAN, then : {"idle", "erased", "entered", "half"}]
    BY <1>1, <1>4
  <2> QED
    BY <1>1, <1>2, <1>4, <2>1 DEF ControlInv, PC, Clearing, flashVars, scanVars
<1>9. Clearing' /\ ~Failed'
  BY <1>1 DEF Clearing, Failed
<1> HIDE DEF W, f
<1>10. mUsedEntryCount' = Cardinality(W \ {f})
  <2>1. CASE f \in W
    <3>1. Cardinality(W \ {f}) = Cardinality(W) - 1
      BY <1>6, <2>1, FS_RemoveElement
    <3> QED
      BY <1>1, <1>6, <2>1, <3>1
  <2>2. CASE f \notin W
    <3>1. W \ {f} = W
      BY <2>2
    <3> QED
      BY <1>1, <1>4, <1>6, <2>2, <3>1
  <2> QED
    BY <2>1, <2>2
<1>11. mFirstUsedEntry' = LeastOr(W \ {f}, INVALID_ENTRY)
  <2>1. CASE W = {}
    <3>1. W \ {f} = W
      BY <2>1
    <3> QED
      BY <1>1, <1>6, <3>1
  <2>2. CASE W # {}
    <3> DEFINE x == LeastOr(W, INVALID_ENTRY)
    <3>1. x \in Heads /\ x \in W /\ \A y \in W : x <= y
      BY <1>2, <1>6, <2>2, FirstIsHead
    <3> HIDE DEF x
    <3>2. x \in W \ {f} /\ W \ {f} \in SUBSET Nat
      BY <1>5, <1>6, <3>1
    <3>3. LeastOr(W \ {f}, INVALID_ENTRY) = x
      BY <3>1, <3>2, LeastIs
    <3> QED
      BY <1>1, <1>6, <3>3 DEF x
  <2> QED
    BY <2>1, <2>2
<1>12. CutFrom(0)' \/ \A e \in Index : e >= f + 1 => Untouched(e)
  <2>1. \/ CutFrom(0)
        \/ \A e \in Index : e >= f => /\ entryTable[e] = "EMPTY"
                                      /\ entryData[e] = Blank \/ (e = f /\ ~FirstWordBlank(entryData[e]))
    BY <1>2 DEF HalfInv, f
  <2>2. CASE CutFrom(0)
    <3>1. PICK n \in Heads : /\ 0 <= n /\ n < f /\ f <= LastOf(n) /\ ~Whole(n)
                             /\ \A e \in Index : e > LastOf(n) => Untouched(e)
      BY <2>2 DEF CutFrom, f
    <3>2. LastOf(n) \in Nat
      BY <1>2, HeadProperty
    <3>3. CASE f = LastOf(n)
      <4>1. \A e \in Index : e >= f + 1 => e > LastOf(n)
        BY <1>4, <3>3, IndexProperty
      <4> QED
        BY <3>1, <4>1
    <3>4. CASE f # LastOf(n)
      <4>1. f + 1 <= LastOf(n) /\ n < f + 1
        BY <1>4, <1>5, <3>1, <3>2, <3>4
      <4> QED
        BY <1>1, <1>3, <3>1, <4>1 DEF CutFrom
    <3> QED
      BY <3>3, <3>4
  <2>3. ASSUME \A e \in Index : e >= f => /\ entryTable[e] = "EMPTY"
                                          /\ entryData[e] = Blank \/ (e = f /\ ~FirstWordBlank(entryData[e]))
        PROVE  \A e \in Index : e >= f + 1 => Untouched(e)
    <3>1. \A e \in Index : e >= f + 1 => e >= f /\ e # f
      BY <1>4, IndexProperty
    <3> QED
      BY <2>3, <3>1 DEF Untouched
  <2> QED
    BY <2>1, <2>2, <2>3
<1>13. ClearingInv'
  <2>1. LoadedInv' /\ header' = "ACTIVE" /\ mHashList' = {} /\ entryTable' = entryTable
    BY <1>1, <1>2, <1>3, <1>5 DEF HalfInv, LoadedInv, flashVars
  <2>2. \A e \in Index : entryTable[e] = "EMPTY" => e >= f
    BY <1>2 DEF HalfInv, f
  <2>3. altering'.begin = f /\ altering'.end = f + 1 /\ altering'.span = 1 /\ altering'.state = "ERASED"
    BY <1>1
  <2>4. CutFrom(0)' \/ \A e \in Index : e >= mNextFreeEntry' => Untouched(e)'
    BY <1>1, <1>3, <1>12
  <2>5. /\ mUsedEntryCount' = Cardinality(WrittenEntries' \ {altering'.begin})
        /\ mFirstUsedEntry' = LeastOr(WrittenEntries' \ {altering'.begin}, INVALID_ENTRY)
    BY <1>7, <1>10, <1>11, <2>3 DEF W
  <2> QED
    BY <1>1, <1>3, <1>4, <1>5, <2>1, <2>2, <2>3, <2>4, <2>5 DEF ClearingInv
<1>14. (FlashInv /\ ControlInv /\ Clearing => (RamInv <=> ClearingInv))'
  BY ClearingRam, PTL
<1> QED
  BY <1>3, <1>8, <1>9, <1>13, <1>14 DEF StringInv

\* Its state is written.
LEMMA AlterClearingStep == ASSUME StringInv, AlterWord, Clearing PROVE StringInv'
<1> DEFINE f == altering.begin
           m == Min(LastPart)
<1>1. pc = "alter" /\ altering.then = "half" /\ op = NoOp /\ ~Failed
  BY DEF Clearing, Failed, StringInv, ControlInv
<1>2. FlashInv /\ ControlInv /\ RamInv /\ ClearingInv
  BY <1>1, ClearingRam DEF StringInv
<1>3. /\ f \in Index /\ f \in Nat /\ altering.end = f + 1 /\ altering.state = "ERASED" /\ mNextFreeEntry = f + 1 /\ f \notin Heads
      /\ \A e \in Index : entryTable[e] = "EMPTY" => e >= f
  BY <1>2, IndexProperty DEF ClearingInv
<1>4. /\ m \in Nat /\ f <= m /\ m < altering.end
      /\ entryTable' = [i \in Index |-> IF m <= i /\ i < altering.end THEN altering.state ELSE entryTable[i]]
      /\ mEntryTable' = entryTable'
      /\ pc' = IF m = f THEN altering.then ELSE "alter"
      /\ altering' = [altering EXCEPT !.end = m]
  BY <1>2, AlterWordTable
<1>5. UNCHANGED <<header, entryData, mState, mNextFreeEntry, mFirstUsedEntry, mUsedEntryCount,
                  mHashList, op, ret, found, written, scanVars, boundVars>>
  BY DEF AlterWord
<1> HIDE DEF f, m
<1>6. m = f /\ pc' = "half"
  <2>1. m = f
    BY <1>3, <1>4
  <2> QED
    BY <1>1, <1>4, <2>1
<1>7. entryTable' = [i \in Index |-> IF f <= i /\ i < f + 1 THEN "ERASED" ELSE entryTable[i]]
  BY <1>3, <1>4, <1>6
<1>8. /\ FlashInv' /\ Heads' = Heads
      /\ \A i : LastOf(i)' = LastOf(i)
      /\ \A i \in Heads : Whole(i)' => Whole(i)
  BY <1>2, <1>3, <1>5, <1>7, HalfWrittenErased
<1>9. \A e \in Index : IF e = f THEN entryTable'[e] = "ERASED" ELSE entryTable'[e] = entryTable[e]
  <2>1. \A e \in Index : f <= e /\ e < f + 1 <=> e = f
    BY <1>3, IndexProperty
  <2> QED
    BY <1>7, <2>1
<1>10. \A e \in Index : e # f /\ Untouched(e) => Untouched(e)'
  BY <1>5, <1>9 DEF Untouched
<1>11. ControlInv'
  <2>1. altering' \in [begin : Nat, end : Nat, span : Nat, state : {"EMPTY", "WRITTEN", "ERASED"},
                       range : BOOLEAN, then : {"idle", "erased", "entered", "half"}]
    BY <1>2, <1>4 DEF ControlInv
  <2> QED
    BY <1>1, <1>2, <1>5, <1>6, <2>1 DEF ControlInv, PC, Clearing, scanVars
<1>12. WrittenEntries' = WrittenEntries \ {f}
  <2>1. mEntryTable = entryTable
    BY <1>2 DEF ClearingInv, LoadedInv
  <2> QED
    BY <1>4, <1>9, <2>1 DEF WrittenEntries
<1>13. HalfInv'
  <2>1. LoadedInv' /\ header' = "ACTIVE" /\ mHashList' = {}
    BY <1>2, <1>4, <1>5, <1>8 DEF ClearingInv, LoadedInv
  <2>2. mUsedEntryCount' = Cardinality(WrittenEntries') /\ mFirstUsedEntry' = LeastOr(WrittenEntries', INVALID_ENTRY)
    BY <1>2, <1>5, <1>12 DEF ClearingInv, f
  <2>3. \A e \in Index : entryTable'[e] = "EMPTY" => e >= f + 1
    <3>1. \A e \in Index : e >= f /\ e # f => e >= f + 1
      BY <1>3, IndexProperty
    <3> QED
      BY <1>3, <1>9, <3>1
  <2>4. CASE CutFrom(0)
    <3>1. PICK n \in Heads : /\ 0 <= n /\ n < f + 1 /\ f + 1 <= LastOf(n) /\ ~Whole(n)
                             /\ \A e \in Index : e > LastOf(n) => Untouched(e)
      BY <1>3, <2>4 DEF CutFrom
    <3>2. LastOf(n) \in Nat
      BY <1>2, HeadProperty
    <3>3. \A e \in Index : e > LastOf(n) => e # f
      BY <1>3, <3>1, <3>2
    <3>4. CutFrom(0)'
      BY <1>3, <1>5, <1>8, <1>10, <3>1, <3>3 DEF CutFrom
    <3> QED
      BY <1>3, <1>5, <2>1, <2>2, <2>3, <3>4 DEF HalfInv
  <2>5. CASE \A e \in Index : e >= mNextFreeEntry => Untouched(e)
    <3>1. \A e \in Index : e >= mNextFreeEntry => e # f
      BY <1>3
    <3>2. \A e \in Index : e >= mNextFreeEntry' => Untouched(e)'
      BY <1>5, <1>10, <2>5, <3>1
    <3> QED
      BY <1>3, <1>5, <2>1, <2>2, <2>3, <3>2 DEF HalfInv, Untouched
  <2> QED
    BY <1>2, <2>4, <2>5 DEF ClearingInv
<1>14. (FlashInv /\ ControlInv /\ pc = "half" => (RamInv <=> HalfInv))'
  BY HalfRam, PTL
<1> QED
  BY <1>6, <1>8, <1>11, <1>13, <1>14 DEF StringInv

\* There is none: the loop over the items begins.
LEMMA NoneHalfWrittenStep == ASSUME StringInv, NoneHalfWritten PROVE StringInv'
<1>1. /\ pc = "half" /\ ~HalfWritten /\ pc' = "scan" /\ at' = 0 /\ altering' = Unaltered
      /\ end' = IF mNextFreeEntry > ENTRY_COUNT THEN ENTRY_COUNT ELSE mNextFreeEntry
      /\ UNCHANGED <<flashVars, pageVars, op, ret, found, written, boundVars>>
  BY DEF NoneHalfWritten
<1>2. FlashInv /\ ControlInv /\ HalfInv /\ op = NoOp /\ mNextFreeEntry \in Nat
  BY <1>1, HalfRam DEF StringInv, ControlInv, Failed
<1>3. /\ FlashInv' /\ Heads' = Heads
      /\ \A i : LastOf(i)' = LastOf(i) /\ (Whole(i)' <=> Whole(i))
      /\ \A e : Untouched(e)' <=> Untouched(e)
  BY <1>1, <1>2, FlashSame
<1>4. end' \in Nat /\ end' <= ENTRY_COUNT /\ end' <= mNextFreeEntry
  BY <1>1, <1>2, SizeAssumption
<1>5. ControlInv'
  BY <1>1, <1>2, <1>4 DEF ControlInv, PC, Clearing, Unaltered, flashVars, pageVars
<1>6. \A h \in Heads : h \in Nat /\ ~(h < at') /\ h >= at' /\ h < end'
  <2>1. \A h \in Heads : h \in Nat /\ h < ENTRY_COUNT /\ h < mNextFreeEntry
    BY <1>2, HeadProperty, SizeAssumption DEF HalfInv, LoadedInv, Index
  <2> QED
    BY <1>1, <2>1
<1>7. mHashList' = {h \in Heads : h < at'}
  BY <1>1, <1>2, <1>6 DEF HalfInv, pageVars
<1>8. CutFrom(at') \/ \A e \in Index : e >= mNextFreeEntry => Untouched(e)
  <2>1. CASE CutFrom(0)
    BY <1>1, <2>1 DEF CutFrom
  <2>2. ASSUME \A e \in Index : e >= mNextFreeEntry =>
                 /\ entryTable[e] = "EMPTY"
                 /\ entryData[e] = Blank \/ (e = mNextFreeEntry /\ ~FirstWordBlank(entryData[e]))
        PROVE  \A e \in Index : e >= mNextFreeEntry => Untouched(e)
    <3>1. \A e \in Index : e < ENTRY_COUNT
      BY SizeAssumption DEF Index
    <3> QED
      BY <1>1, <2>2, <3>1 DEF HalfWritten, Untouched
  <2> QED
    BY <1>2, <2>1, <2>2 DEF HalfInv
<1>9. ScanningInv'
  <2>1. WrittenEntries' = WrittenEntries /\ header' = header /\ entryTable' = entryTable /\ mNextFreeEntry' = mNextFreeEntry
        /\ entryData' = entryData /\ mEntryTable' = mEntryTable /\ mState' = mState
        /\ mUsedEntryCount' = mUsedEntryCount /\ mFirstUsedEntry' = mFirstUsedEntry
    BY <1>1 DEF WrittenEntries, flashVars, pageVars
  <2>2. LoadedInv'
    BY <1>2, <1>3, <2>1 DEF HalfInv, LoadedInv
  <2>3. CutFrom(at)' \/ \A e \in Index : e >= mNextFreeEntry' => Untouched(e)'
    BY <1>3, <1>8, <2>1 DEF CutFrom
  <2>4. \A e \in Index : entryTable[e] = "EMPTY" => e >= mNextFreeEntry
    BY <1>2 DEF HalfInv
  <2>5. /\ mUsedEntryCount = Cardinality(WrittenEntries)
        /\ mFirstUsedEntry = LeastOr(WrittenEntries, INVALID_ENTRY)
    BY <1>2 DEF HalfInv
  <2> QED
    BY <1>3, <1>4, <1>6, <1>7, <2>1, <2>2, <2>3, <2>4, <2>5 DEF ScanningInv
<1>10. (FlashInv /\ ControlInv /\ pc = "scan" => (RamInv <=> ScanningInv))'
  BY ScanningRam, PTL
<1> QED
  BY <1>1, <1>3, <1>5, <1>9, <1>10 DEF StringInv

\* The loop over the items comes to nothing but their headers.
LEMMA ScanAtHead ==
  ASSUME FlashInv, ControlInv, ScanningInv, at < end, ~Skipped(at)
  PROVE  /\ at \in Heads
         /\ at + SpanAt(at) = LastOf(at) + 1 /\ SpanAt(at) \in Nat
         /\ \A h \in Heads : h < LastOf(at) + 1 <=> h < at \/ h = at
         /\ \A h \in Heads : h < at => LastOf(h) < at
         /\ \A h \in Heads : h >= LastOf(at) + 1 \/ LastOf(h) < LastOf(at) + 1
         /\ LastOf(at) \in Nat /\ LastOf(at) + 1 <= ENTRY_COUNT
<1>1. at \in Nat /\ at \in Index /\ mEntryTable = entryTable /\ end \in Nat /\ mNextFreeEntry \in Nat
  BY SizeAssumption DEF ControlInv, ScanningInv, LoadedInv, Index
<1>2. entryTable[at] = "WRITTEN"
  <2>1. entryTable[at] \in {"EMPTY", "WRITTEN", "ERASED"}
    BY <1>1 DEF FlashInv, FlashTypes
  <2>2. entryTable[at] # "ERASED"
    BY <1>1 DEF Skipped
  <2>3. header # "ACTIVE" => entryTable[at] # "EMPTY"
    BY <1>1 DEF Skipped
  <2>4. header = "ACTIVE" => entryTable[at] # "EMPTY"
    <3>1. ~(at >= mNextFreeEntry)
      BY <1>1 DEF ScanningInv
    <3> QED
      BY <1>1, <3>1 DEF ScanningInv
  <2> QED
    BY <2>1, <2>2, <2>3, <2>4
<1>3. at \in Heads
  <2>1. PICK i \in Heads : Covers(i, at)
    BY <1>1, <1>2 DEF FlashInv, EntriesOwned
  <2>2. i \in Nat /\ LastOf(i) \in Nat
    BY HeadProperty
  <2>3. i = at
    BY <1>1, <2>1, <2>2 DEF ScanningInv, Covers
  <2> QED
    BY <2>1, <2>3
<1>4. at + SpanAt(at) = LastOf(at) + 1 /\ SpanAt(at) \in Nat
  BY <1>1, <1>3, EraseItemProperty
<1>5. LastOf(at) \in Nat /\ at < LastOf(at) /\ LastOf(at) + 1 <= ENTRY_COUNT
  <2>1. LastOf(at) \in Nat /\ at < LastOf(at) /\ LastOf(at) \in Index
    BY <1>3, HeadProperty
  <2> QED
    BY <2>1, SizeAssumption DEF Index
<1>6. ASSUME NEW h \in Heads
      PROVE  /\ h < LastOf(at) + 1 <=> h < at \/ h = at
             /\ h < at => LastOf(h) < at
             /\ h >= LastOf(at) + 1 \/ LastOf(h) < LastOf(at) + 1
  <2>1. h \in Nat /\ LastOf(h) \in Nat /\ (h < at => LastOf(h) < at)
    BY <1>3, HeadProperty
  <2>2. at < h => LastOf(at) < h
    BY <1>3, HeadProperty
  <2>3. CASE h = at
    BY <1>1, <1>5, <2>1, <2>3
  <2>4. CASE h # at
    BY <1>1, <1>5, <2>1, <2>2, <2>4
  <2> QED
    BY <2>3, <2>4
<1> QED
  BY <1>3, <1>4, <1>5, <1>6

LEMMA ScanSkipStep == ASSUME StringInv, ScanSkip PROVE StringInv'
<1>1. /\ pc = "scan" /\ pc' = "scan" /\ at < end /\ Skipped(at) /\ at' = at + 1
      /\ UNCHANGED <<flashVars, pageVars, op, ret, found, written, altering, end, boundVars>>
  BY DEF ScanSkip
<1>2. FlashInv /\ ControlInv /\ ScanningInv /\ op = NoOp /\ at \in Nat
  BY <1>1, ScanningRam DEF StringInv, ControlInv, Failed
<1>3. /\ FlashInv' /\ Heads' = Heads
      /\ \A i : LastOf(i)' = LastOf(i) /\ (Whole(i)' <=> Whole(i))
      /\ \A e : Untouched(e)' <=> Untouched(e)
  BY <1>1, <1>2, FlashSame
<1>4. at \notin Heads
  BY <1>1, <1>2 DEF Heads, Skipped, ScanningInv, LoadedInv
<1>5. ControlInv'
  BY <1>1, <1>2 DEF ControlInv, PC, Clearing, flashVars, pageVars
<1>6. \A h \in Heads : /\ h < at' <=> h < at
                       /\ h >= at => h >= at'
                       /\ LastOf(h) < at => LastOf(h) < at'
  <2> SUFFICES ASSUME NEW h \in Heads
               PROVE  (h < at' <=> h < at) /\ (h >= at => h >= at') /\ (LastOf(h) < at => LastOf(h) < at')
    OBVIOUS
  <2>1. h \in Nat /\ LastOf(h) \in Nat /\ h # at
    BY <1>2, <1>4, HeadProperty
  <2> QED
    BY <1>1, <1>2, <2>1
<1>7. CutFrom(at) => CutFrom(at')
  BY <1>6 DEF CutFrom
<1>8. ScanningInv'
  <2>1. WrittenEntries' = WrittenEntries /\ header' = header /\ entryTable' = entryTable /\ mNextFreeEntry' = mNextFreeEntry
        /\ entryData' = entryData /\ mEntryTable' = mEntryTable /\ mState' = mState /\ mHashList' = mHashList
        /\ mUsedEntryCount' = mUsedEntryCount /\ mFirstUsedEntry' = mFirstUsedEntry
    BY <1>1 DEF WrittenEntries, flashVars, pageVars
  <2>2. LoadedInv'
    BY <1>2, <1>3, <2>1 DEF ScanningInv, LoadedInv
  <2>3. CutFrom(at) => CutFrom(at)'
    BY <1>3, <1>7, <2>1 DEF CutFrom
  <2>4. mHashList' = {h \in Heads' : h < at'}
    BY <1>2, <1>3, <1>6, <2>1 DEF ScanningInv
  <2> QED
    BY <1>1, <1>2, <1>3, <1>6, <2>1, <2>2, <2>3, <2>4 DEF ScanningInv
<1>9. (FlashInv /\ ControlInv /\ pc = "scan" => (RamInv <=> ScanningInv))'
  BY ScanningRam, PTL
<1> QED
  BY <1>1, <1>3, <1>5, <1>8, <1>9 DEF StringInv

\* What was cut off lies behind the item that the loop is at.
LEMMA CutBehind ==
  ASSUME FlashInv, ControlInv, ScanningInv, at < end, ~Skipped(at), header = "ACTIVE",
         UNCHANGED <<flashVars, mNextFreeEntry>>, op' = NoOp, pc' = "alter", altering'.then = "erased",
         at' = LastOf(at) + 1
  PROVE  \/ \A e \in Index : e >= mNextFreeEntry /\ e > LastOf(at) => Untouched(e)
         \/ CutItem'
<1>1. CutFrom(at) \/ \A e \in Index : e >= mNextFreeEntry => Untouched(e)
  BY DEF ScanningInv
<1>2. SUFFICES ASSUME CutFrom(at), ~\A e \in Index : e >= mNextFreeEntry /\ e > LastOf(at) => Untouched(e)
               PROVE  CutItem'
  BY <1>1
<1>3. PICK n \in Heads : /\ at <= n /\ n < mNextFreeEntry /\ mNextFreeEntry <= LastOf(n) /\ ~Whole(n)
                         /\ \A e \in Index : e > LastOf(n) => Untouched(e)
  BY <1>2 DEF CutFrom
<1>4. n # at
  BY <1>2, <1>3
<1>5. at' <= n
  <2>1. n \in Nat /\ at \in Nat
    BY HeadProperty DEF ControlInv
  <2>2. ~(n < LastOf(at) + 1) /\ LastOf(at) \in Nat
    BY <1>3, <1>4, <2>1, ScanAtHead
  <2> QED
    BY <2>1, <2>2
<1>6. Erasing' /\ Swept' = at'
  BY DEF Erasing, Swept, Clearing
<1>7. /\ Heads' = Heads
      /\ \A i : LastOf(i)' = LastOf(i) /\ (Whole(i)' <=> Whole(i))
      /\ \A e : Untouched(e)' <=> Untouched(e)
  BY FlashSame
<1>8. \A e \in Index : entryTable'[e] = "EMPTY" => e >= mNextFreeEntry' \/ e \in Pending'
  BY DEF ScanningInv, flashVars
<1>9. \E k \in Heads' :
        /\ Swept' <= k /\ k < mNextFreeEntry' /\ mNextFreeEntry' <= LastOf(k)' /\ ~Whole(k)'
        /\ \A e \in Index : e > LastOf(k)' => Untouched(e)'
  BY <1>3, <1>5, <1>6, <1>7
<1> QED
  BY <1>6, <1>8, <1>9 DEF CutItem

LEMMA ScanIncompleteStep == ASSUME StringInv, ScanIncomplete PROVE StringInv'
<1> DEFINE i == at
           s == LastOf(at) + 1
<1>1. /\ pc = "scan" /\ at < end /\ ~Skipped(at) /\ EraseEntryAndSpan(at) /\ at' = at + SpanAt(at)
      /\ UNCHANGED <<op, ret, found, written, end, boundVars>>
  BY DEF ScanIncomplete
<1>2. /\ mHashList' = mHashList \ {i}
      /\ mUsedEntryCount' = mUsedEntryCount - Cardinality(WrittenEntries \cap i .. i + SpanAt(i) - 1)
      /\ altering' = [begin |-> i, end |-> i + SpanAt(i), span |-> SpanAt(i), state |-> "ERASED",
                      range |-> SpanAt(i) > 1, then |-> "erased"]
      /\ pc' = "alter"
      /\ UNCHANGED <<flashVars, mState, mEntryTable, mNextFreeEntry, mFirstUsedEntry>>
  BY <1>1 DEF EraseEntryAndSpan, Alter
<1>3. FlashInv /\ ControlInv /\ ScanningInv /\ op = NoOp /\ op' = NoOp /\ at \in Nat
  BY <1>1, ScanningRam DEF StringInv, ControlInv, Failed
<1>4. /\ i \in Heads /\ i + SpanAt(i) = s /\ SpanAt(i) \in Nat
      /\ \A h \in Heads : h < s <=> h < i \/ h = i
      /\ \A h \in Heads : h < i => LastOf(h) < i
      /\ \A h \in Heads : h >= s \/ LastOf(h) < s
      /\ LastOf(i) \in Nat /\ s <= ENTRY_COUNT
  BY <1>1, <1>3, ScanAtHead
<1>5. at' = s /\ s \in Nat /\ LastOf(i) < s
  BY <1>1, <1>4
<1>6. ControlInv'
  <2>1. altering' \in [begin : Nat, end : Nat, span : Nat, state : {"EMPTY", "WRITTEN", "ERASED"},
                       range : BOOLEAN, then : {"idle", "erased", "entered", "half"}]
    BY <1>2, <1>3, <1>4, <1>5
  <2> QED
    BY <1>1, <1>2, <1>3, <1>5, <2>1 DEF ControlInv, PC, Clearing, flashVars
<1>7. header = "ACTIVE" =>
        \/ \A e \in Index : /\ e >= mNextFreeEntry /\ e > LastOf(i) => Untouched(e)
                            /\ entryTable[e] = "EMPTY" => e >= mNextFreeEntry
        \/ CutItem'
  <2> SUFFICES ASSUME header = "ACTIVE"
               PROVE  \/ \A e \in Index : /\ e >= mNextFreeEntry /\ e > LastOf(i) => Untouched(e)
                                          /\ entryTable[e] = "EMPTY" => e >= mNextFreeEntry
                      \/ CutItem'
    OBVIOUS
  <2>1. \A e \in Index : entryTable[e] = "EMPTY" => e >= mNextFreeEntry
    BY <1>3 DEF ScanningInv
  <2>2. (\A e \in Index : e >= mNextFreeEntry /\ e > LastOf(at) => Untouched(e)) \/ CutItem'
    BY <1>1, <1>2, <1>3, <1>5, CutBehind
  <2> QED
    BY <2>1, <2>2
<1>8. /\ mEntryTable = entryTable /\ mState = header /\ mNextFreeEntry \in Nat
      /\ mUsedEntryCount = Cardinality(WrittenEntries) /\ mFirstUsedEntry = LeastOr(WrittenEntries, INVALID_ENTRY)
      /\ \A h \in Heads : h < mNextFreeEntry
      /\ mHashList = {h \in Heads : h < i}
      /\ \A h \in Heads : h < i => Whole(h)
      /\ \A g, h \in Heads : g < i /\ h < i /\ entryData[g].key = entryData[h].key => g = h
      /\ end <= ENTRY_COUNT /\ end <= mNextFreeEntry /\ \A h \in Heads : h < end
  BY <1>3 DEF ScanningInv, LoadedInv, ControlInv
<1> HIDE DEF i, s
<1>9. {h \in Heads : h < s} \ {i} = {h \in Heads : h < i}
  <2>1. ~(i < i)
    BY <1>3 DEF i
  <2> QED
    BY <1>4, <2>1
<1>10. /\ mHashList' = {h \in Heads : h < s} \ {i}
       /\ \A h \in {g \in Heads : g < s} \ {i} : Whole(h)
       /\ \A g, h \in {f \in Heads : f < s} \ {i} : entryData[g].key = entryData[h].key => g = h
  <2>1. mHashList \ {i} = mHashList
    <3>1. ~(i < i)
      BY <1>3 DEF i
    <3> QED
      BY <1>8, <3>1
  <2> QED
    BY <1>2, <1>8, <1>9, <2>1
<1>11. end' <= ENTRY_COUNT /\ end' <= mNextFreeEntry /\ \A h \in Heads : h < end' /\ (h >= s \/ LastOf(h) < s)
  BY <1>1, <1>4, <1>8
<1>12. s = IF op' = NoOp THEN at' ELSE ENTRY_COUNT
  BY <1>3, <1>5
<1>13. RamInv' /\ FlashInv'
  BY <1>2, <1>3, <1>4, <1>5, <1>6, <1>7, <1>8, <1>10, <1>11, <1>12, EraseItemRam
<1> QED
  BY <1>6, <1>13 DEF StringInv

\* An item that is complete: it stays, and an older version of it is erased.
LEMMA ScanCompleteStep == ASSUME StringInv, ScanComplete PROVE StringInv'
<1> DEFINE s == LastOf(at) + 1
<1>1. /\ pc = "scan" /\ at < end /\ ~Skipped(at) /\ Complete(at) /\ at' = at + SpanAt(at)
      /\ UNCHANGED <<op, ret, found, written, end, boundVars>>
  BY DEF ScanComplete
<1>2. FlashInv /\ ControlInv /\ ScanningInv /\ op = NoOp /\ op' = NoOp /\ at \in Nat
  BY <1>1, ScanningRam DEF StringInv, ControlInv, Failed
<1>3. /\ at \in Heads /\ at + SpanAt(at) = s /\ SpanAt(at) \in Nat
      /\ \A h \in Heads : h < s <=> h < at \/ h = at
      /\ \A h \in Heads : h < at => LastOf(h) < at
      /\ \A h \in Heads : h >= s \/ LastOf(h) < s
      /\ LastOf(at) \in Nat /\ s <= ENTRY_COUNT
  BY <1>1, <1>2, ScanAtHead
<1>4. at' = s /\ s \in Nat /\ LastOf(at) < s
  BY <1>1, <1>3
<1>5. /\ mEntryTable = entryTable /\ mState = header /\ mNextFreeEntry \in Nat
      /\ mUsedEntryCount = Cardinality(WrittenEntries) /\ mFirstUsedEntry = LeastOr(WrittenEntries, INVALID_ENTRY)
      /\ \A h \in Heads : h < mNextFreeEntry
      /\ mHashList = {h \in Heads : h < at}
      /\ \A h \in Heads : h < at => Whole(h)
      /\ \A g, h \in Heads : g < at /\ h < at /\ entryData[g].key = entryData[h].key => g = h
      /\ end <= ENTRY_COUNT /\ end <= mNextFreeEntry /\ \A h \in Heads : h < end
  BY <1>2 DEF ScanningInv, LoadedInv, ControlInv
<1>6. Whole(at)
  <2> SUFFICES ASSUME NEW e \in Index, Covers(at, e) PROVE entryTable[e] = "WRITTEN"
    BY DEF Whole
  <2>1. e \in Nat /\ at <= e /\ e <= LastOf(at) /\ LastOf(at) = at + Len(entryData[at].val) /\ LastOf(at) \in Nat
    BY <1>2, <1>3, IndexProperty, HeadProperty DEF Covers
  <2>2. e \in at .. LastOf(at)
    BY <1>2, <2>1
  <2>3. e \in WrittenEntries
    BY <1>1, <2>1, <2>2 DEF Complete
  <2> QED
    BY <1>5, <2>3 DEF WrittenEntries
<1>7. /\ \A h \in Heads : h < s => Whole(h)
      /\ mHashList \cup {at} = {h \in Heads : h < s}
  <2>1. \A h \in Heads : h < s => Whole(h)
    BY <1>3, <1>5, <1>6
  <2>2. mHashList \cup {at} = {h \in Heads : h < s}
    BY <1>3, <1>5
  <2> QED
    BY <2>1, <2>2
<1> HIDE DEF s
<1>8. CASE header = "ACTIVE" /\ Older(at) # {}
  <2> DEFINE i == Min(Older(at))
  <2>1. /\ mHashList' = (mHashList \cup {at}) \ {i}
        /\ mUsedEntryCount' = mUsedEntryCount - Cardinality(WrittenEntries \cap i .. i + SpanAt(i) - 1)
        /\ altering' = [begin |-> i, end |-> i + SpanAt(i), span |-> SpanAt(i), state |-> "ERASED",
                        range |-> TRUE, then |-> "erased"]
        /\ pc' = "alter"
        /\ UNCHANGED <<flashVars, mState, mEntryTable, mNextFreeEntry, mFirstUsedEntry>>
    BY <1>8 DEF ScanComplete, Alter
  <2>2. i \in Older(at)
    <3>1. Older(at) \in SUBSET Nat
      BY <1>5, IndexProperty DEF Older, Heads
    <3> QED
      BY <1>8, <3>1, MinProperty
  <2> HIDE DEF i
  <2>3. i \in Heads /\ i < at /\ entryData[i].key = entryData[at].key
    BY <1>5, <2>2 DEF Older
  <2>4. /\ i \in Nat /\ LastOf(i) \in Nat /\ LastOf(i) < s /\ SpanAt(i) \in Nat /\ i + SpanAt(i) \in Nat /\ LastOf(i) < LastOf(at)
    <3>1. i \in Nat /\ LastOf(i) \in Nat /\ SpanAt(i) \in Nat /\ LastOf(i) < at /\ at < LastOf(at)
      BY <1>2, <1>3, <2>3, HeadProperty
    <3> QED
      BY <1>2, <1>3, <1>4, <3>1
  <2>5. ControlInv'
    <3>1. altering' \in [begin : Nat, end : Nat, span : Nat, state : {"EMPTY", "WRITTEN", "ERASED"},
                         range : BOOLEAN, then : {"idle", "erased", "entered", "half"}]
      BY <2>1, <2>4
    <3> QED
      BY <1>1, <1>2, <1>4, <2>1, <3>1 DEF ControlInv, PC, Clearing, flashVars
  <2>6. \/ \A e \in Index : /\ e >= mNextFreeEntry /\ e > LastOf(i) => Untouched(e)
                            /\ entryTable[e] = "EMPTY" => e >= mNextFreeEntry
        \/ CutItem'
    <3>1. \A e \in Index : entryTable[e] = "EMPTY" => e >= mNextFreeEntry
      BY <1>2, <1>8 DEF ScanningInv
    <3>2. CutFrom(at) \/ \A e \in Index : e >= mNextFreeEntry => Untouched(e)
      BY <1>2, <1>8 DEF ScanningInv
    <3>3. CASE CutFrom(at)
      <4>1. PICK n \in Heads : /\ at <= n /\ n < mNextFreeEntry /\ mNextFreeEntry <= LastOf(n) /\ ~Whole(n)
                               /\ \A e \in Index : e > LastOf(n) => Untouched(e)
        BY <3>3 DEF CutFrom
      <4>2. n # at /\ n \in Nat
        BY <1>2, <1>6, <4>1, HeadProperty
      <4>3. at' <= n
        <5>1. ~(n < s)
          BY <1>2, <1>3, <4>1, <4>2
        <5> QED
          BY <1>4, <4>2, <5>1
      <4>4. Erasing' /\ Swept' = at'
        BY <1>2, <2>1 DEF Erasing, Swept, Clearing
      <4>5. /\ Heads' = Heads
            /\ \A j : LastOf(j)' = LastOf(j) /\ (Whole(j)' <=> Whole(j))
            /\ \A e : Untouched(e)' <=> Untouched(e)
        BY <1>2, <2>1, FlashSame
      <4>6. \A e \in Index : entryTable'[e] = "EMPTY" => e >= mNextFreeEntry' \/ e \in Pending'
        BY <2>1, <3>1 DEF flashVars
      <4>7. \E k \in Heads' :
              /\ Swept' <= k /\ k < mNextFreeEntry' /\ mNextFreeEntry' <= LastOf(k)' /\ ~Whole(k)'
              /\ \A e \in Index : e > LastOf(k)' => Untouched(e)'
        BY <2>1, <4>1, <4>3, <4>4, <4>5
      <4> QED
        BY <1>2, <4>4, <4>6, <4>7 DEF CutItem
    <3> QED
      BY <3>1, <3>2, <3>3
  <2>7. /\ mHashList' = {h \in Heads : h < s} \ {i}
        /\ \A h \in {g \in Heads : g < s} \ {i} : Whole(h)
    BY <1>7, <2>1
  <2>8. \A g, h \in {f \in Heads : f < s} \ {i} : entryData[g].key = entryData[h].key => g = h
    <3> SUFFICES ASSUME NEW g \in Heads, NEW h \in Heads, g < s, h < s, g # i, h # i,
                        entryData[g].key = entryData[h].key
                 PROVE  g = h
      OBVIOUS
    <3>1. (g < at \/ g = at) /\ (h < at \/ h = at)
      BY <1>3
    <3> QED
      BY <1>5, <2>3, <3>1
  <2>9. end' <= ENTRY_COUNT /\ end' <= mNextFreeEntry /\ \A h \in Heads : h < end' /\ (h >= s \/ LastOf(h) < s)
    BY <1>1, <1>3, <1>5
  <2>10. s = IF op' = NoOp THEN at' ELSE ENTRY_COUNT
    BY <1>2, <1>4
  <2>11. RamInv' /\ FlashInv'
    BY <1>2, <1>3, <1>4, <1>5, <2>1, <2>3, <2>4, <2>5, <2>6, <2>7, <2>8, <2>9, <2>10, EraseItemRam
  <2> QED
    BY <2>5, <2>11 DEF StringInv
<1>9. CASE ~(header = "ACTIVE" /\ Older(at) # {})
  <2>1. /\ mHashList' = mHashList \cup {at}
        /\ UNCHANGED <<flashVars, mState, mEntryTable, mNextFreeEntry, mFirstUsedEntry,
                       mUsedEntryCount, pc, altering>>
    BY <1>9 DEF ScanComplete
  <2>2. /\ FlashInv' /\ Heads' = Heads
        /\ \A i : LastOf(i)' = LastOf(i) /\ (Whole(i)' <=> Whole(i))
        /\ \A e : Untouched(e)' <=> Untouched(e)
    BY <1>2, <2>1, FlashSame
  <2>3. ControlInv'
    BY <1>1, <1>2, <1>4, <2>1 DEF ControlInv, PC, Clearing, flashVars
  <2>4. \A h \in Heads : h < at => entryData[h].key # entryData[at].key
    <3>1. CASE header = "ACTIVE"
      BY <1>5, <1>9, <3>1 DEF Older
    <3>2. CASE header # "ACTIVE"
      BY <1>2, <1>3, <1>5, <1>6, <3>2 DEF FlashInv, TwoVersions
    <3> QED
      BY <3>1, <3>2
  <2>5. \A g, h \in Heads : g < s /\ h < s /\ entryData[g].key = entryData[h].key => g = h
    <3> SUFFICES ASSUME NEW g \in Heads, NEW h \in Heads, g < s, h < s, entryData[g].key = entryData[h].key
                 PROVE  g = h
      OBVIOUS
    <3>1. (g < at \/ g = at) /\ (h < at \/ h = at)
      BY <1>3
    <3> QED
      BY <1>5, <2>4, <3>1
  <2>6. header = "ACTIVE" => /\ \A e \in Index : entryTable[e] = "EMPTY" => e >= mNextFreeEntry
                             /\ CutFrom(s) \/ \A e \in Index : e >= mNextFreeEntry => Untouched(e)
    <3> SUFFICES ASSUME header = "ACTIVE", CutFrom(at) PROVE CutFrom(s)
      BY <1>2 DEF ScanningInv
    <3>1. PICK n \in Heads : /\ at <= n /\ n < mNextFreeEntry /\ mNextFreeEntry <= LastOf(n) /\ ~Whole(n)
                             /\ \A e \in Index : e > LastOf(n) => Untouched(e)
      BY DEF CutFrom
    <3>2. n # at /\ n \in Nat
      BY <1>2, <1>6, <3>1, HeadProperty
    <3>3. s <= n
      <4>1. ~(n < s)
        BY <1>2, <1>3, <3>1, <3>2
      <4> QED
        BY <1>4, <3>2, <4>1
    <3> QED
      BY <3>1, <3>3 DEF CutFrom
  <2>7. ScanningInv'
    <3>1. WrittenEntries' = WrittenEntries /\ header' = header /\ entryTable' = entryTable /\ mNextFreeEntry' = mNextFreeEntry
          /\ entryData' = entryData /\ mEntryTable' = mEntryTable /\ mState' = mState
          /\ mUsedEntryCount' = mUsedEntryCount /\ mFirstUsedEntry' = mFirstUsedEntry /\ end' = end /\ at' = s
      BY <1>1, <1>4, <2>1 DEF WrittenEntries, flashVars
    <3>2. LoadedInv'
      BY <1>5, <2>2, <3>1 DEF LoadedInv
    <3>3. CutFrom(s) => CutFrom(at)'
      BY <2>2, <3>1 DEF CutFrom
    <3>4. mHashList' = {h \in Heads' : h < at'}
      BY <1>7, <2>1, <2>2, <3>1
    <3> QED
      BY <1>3, <1>5, <1>7, <2>2, <2>5, <2>6, <3>1, <3>2, <3>3, <3>4 DEF ScanningInv
  <2>8. (FlashInv /\ ControlInv /\ pc = "scan" => (RamInv <=> ScanningInv))'
    BY ScanningRam, PTL
  <2> QED
    BY <1>1, <2>1, <2>2, <2>3, <2>7, <2>8 DEF StringInv
<1> QED
  BY <1>8, <1>9

\* The loop is through.
LEMMA ScanDoneStep == ASSUME StringInv, ScanDone PROVE StringInv'
<1>1. /\ pc = "scan" /\ at >= end /\ pc' = "idle" /\ at' = 0 /\ end' = 0
      /\ UNCHANGED <<flashVars, pageVars, op, ret, found, written, altering, boundVars>>
  BY DEF ScanDone
<1>2. FlashInv /\ ControlInv /\ ScanningInv /\ op = NoOp /\ at \in Nat /\ end \in Nat
  BY <1>1, ScanningRam DEF StringInv, ControlInv, Failed
<1>3. /\ FlashInv' /\ Heads' = Heads
      /\ \A i : LastOf(i)' = LastOf(i) /\ (Whole(i)' <=> Whole(i))
      /\ \A e : Untouched(e)' <=> Untouched(e)
  BY <1>1, <1>2, FlashSame
<1>4. ControlInv'
  BY <1>1, <1>2 DEF ControlInv, PC, Clearing, flashVars, pageVars
<1>5. \A h \in Heads : h < at /\ ~(at <= h)
  <2> SUFFICES ASSUME NEW h \in Heads PROVE h < at /\ ~(at <= h)
    OBVIOUS
  <2>1. h \in Nat /\ h < end
    BY <1>2, HeadProperty DEF ScanningInv
  <2> QED
    BY <1>1, <1>2, <2>1
<1>6. ~CutFrom(at)
  BY <1>5 DEF CutFrom
<1>7. QuietInv'
  <2>1. WrittenEntries' = WrittenEntries /\ header' = header /\ entryTable' = entryTable /\ mNextFreeEntry' = mNextFreeEntry
        /\ entryData' = entryData /\ mEntryTable' = mEntryTable /\ mState' = mState /\ mHashList' = mHashList
        /\ mUsedEntryCount' = mUsedEntryCount /\ mFirstUsedEntry' = mFirstUsedEntry
    BY <1>1 DEF WrittenEntries, flashVars, pageVars
  <2>2. mHashList = Heads
    BY <1>2, <1>5 DEF ScanningInv
  <2> QED
    BY <1>1, <1>2, <1>3, <1>5, <1>6, <2>1, <2>2 DEF ScanningInv, LoadedInv, QuietInv
<1>8. Quiet'
  BY <1>1 DEF Quiet
<1>9. (FlashInv /\ ControlInv /\ Quiet => (RamInv <=> QuietInv))'
  BY QuietRam, PTL
<1> QED
  BY <1>3, <1>4, <1>7, <1>8, <1>9 DEF StringInv

-----------------------------------------------------------------------------
(* Together. *)

LEMMA StringStutter == ASSUME StringInv, UNCHANGED vars PROVE StringInv'
<1>1. /\ UNCHANGED flashVars /\ UNCHANGED pageVars /\ UNCHANGED scanVars
      /\ UNCHANGED <<op, pc, ret, found, written, altering>>
      /\ header' = header /\ entryTable' = entryTable /\ entryData' = entryData
      /\ mState' = mState /\ mEntryTable' = mEntryTable /\ mNextFreeEntry' = mNextFreeEntry
      /\ mFirstUsedEntry' = mFirstUsedEntry /\ mUsedEntryCount' = mUsedEntryCount /\ mHashList' = mHashList
      /\ at' = at /\ end' = end /\ op' = op /\ pc' = pc /\ ret' = ret /\ found' = found
      /\ written' = written /\ altering' = altering
  BY DEF vars, flashVars, pageVars, scanVars
<1>2. FlashInv /\ ControlInv /\ (~Failed => RamInv)
  BY DEF StringInv
<1>3. /\ FlashInv' /\ Heads' = Heads
      /\ \A i : LastOf(i)' = LastOf(i) /\ (Whole(i)' <=> Whole(i))
      /\ \A e : Untouched(e)' <=> Untouched(e)
  BY <1>1, <1>2, FlashSame
<1>4. /\ (Failed' <=> Failed) /\ (Erasing' <=> Erasing) /\ (Entering' <=> Entering) /\ (Clearing' <=> Clearing)
      /\ (Writing' <=> Writing)
  BY <1>1 DEF Failed, Erasing, Entering, Clearing, Writing
<1>5. /\ Altered' = Altered /\ Gone' = Gone /\ Pending' = Pending /\ Frontier' = Frontier /\ Swept' = Swept
      /\ Start' = Start /\ Fresh' = Fresh /\ WrittenEntries' = WrittenEntries /\ EntriesNext' = EntriesNext
  BY <1>1, <1>4 DEF Altered, Gone, Pending, Frontier, Swept, Start, Fresh, Writing, WrittenEntries, EntriesNext,
     FilledNext, Erasing, Entering, Clearing
<1>6. Kept' = Kept
  BY <1>3, <1>5 DEF Kept
<1>7. ControlInv'
  BY <1>1, <1>2, <1>4 DEF ControlInv
<1>8. ASSUME RamInv PROVE RamInv'
  <2>1. MembersRight'
    BY <1>1, <1>3, <1>5, <1>6, <1>8 DEF RamInv, MembersRight
  <2>2. KeptRight'
    BY <1>1, <1>3, <1>4, <1>6, <1>8 DEF RamInv, KeptRight
  <2>3. CleanEnd => CleanEnd'
    BY <1>1, <1>5 DEF CleanEnd
  <2>4. CutItem => CutItem'
    <3> SUFFICES ASSUME CutItem PROVE CutItem'
      OBVIOUS
    <3>1. \E n \in Heads' :
            /\ Swept' <= n /\ n < mNextFreeEntry' /\ mNextFreeEntry' <= LastOf(n)' /\ ~Whole(n)'
            /\ \A e \in Index : e > LastOf(n)' => Untouched(e)'
      BY <1>1, <1>3, <1>5 DEF CutItem
    <3> QED
      BY <1>1, <1>4, <1>5, <3>1 DEF CutItem
  <2>5. EndRight'
    BY <1>1, <1>4, <1>8, <2>3, <2>4 DEF RamInv, EndRight
  <2>6. AlterInv'
    BY <1>1, <1>4, <1>8 DEF RamInv, AlterInv
  <2>7. WriteInv'
    BY <1>1, <1>3, <1>4, <1>5, <1>8 DEF RamInv, WriteInv
  <2>8. EnterInv'
    BY <1>1, <1>3, <1>4, <1>5, <1>8 DEF RamInv, EnterInv
  <2>9. EraseInv'
    BY <1>1, <1>3, <1>4, <1>5, <1>8 DEF RamInv, EraseInv
  <2>10. ScanInv'
    BY <1>1, <1>3, <1>4, <1>5, <1>8 DEF RamInv, ScanInv
  <2> QED
    BY <1>1, <1>8, <2>1, <2>2, <2>5, <2>6, <2>7, <2>8, <2>9, <2>10 DEF RamInv
<1> QED
  BY <1>2, <1>3, <1>4, <1>7, <1>8 DEF StringInv

LEMMA StringNext ==
  ASSUME StringInv, [Next]_vars, ~ContinueAfterFailure
  PROVE  StringInv'
<1>1. CASE Begin
  BY <1>1, BeginStep
<1>2. CASE FindForSet
  BY <1>2, FindForSetStep
<1>3. CASE FindForErase
  BY <1>3, FindForEraseStep
<1>4. CASE TryWrite
  <2>1. pc' \in {"return", "markFull", "item"}
    BY <1>4 DEF TryWrite, Respond
  <2> QED
    BY <1>4, <2>1, TryWriteStep, RefuseStep
<1>5. CASE MarkFull
  BY <1>5, MarkFullStep
<1>6. CASE WriteData
  BY <1>6, WriteDataStep
<1>7. CASE Entered
  BY <1>7, EnteredStep
<1>8. CASE EraseOld
  BY <1>8, EraseOldStep
<1>9. CASE Erased
  BY <1>9, ErasedStep
<1>10. CASE AlterWord
  <2>1. Erasing \/ Entering \/ Clearing
    BY <1>10 DEF AlterWord, StringInv, RamInv, AlterInv, Failed
  <2> QED
    BY <1>10, <2>1, AlterErasingStep, AlterEnteringStep, AlterClearingStep
<1>11. CASE Return
  BY <1>11, ReturnStep
<1>12. CASE LoadTable
  BY <1>12, LoadTableStep
<1>13. CASE ClearHalfWritten
  BY <1>13, ClearHalfWrittenStep
<1>14. CASE NoneHalfWritten
  BY <1>14, NoneHalfWrittenStep
<1>15. CASE ScanSkip
  BY <1>15, ScanSkipStep
<1>16. CASE ScanIncomplete
  BY <1>16, ScanIncompleteStep
<1>17. CASE ScanComplete
  BY <1>17, ScanCompleteStep
<1>18. CASE ScanDone
  BY <1>18, ScanDoneStep
<1>19. CASE PowerFailure
  BY <1>19, PowerFailureStep
<1>20. CASE FlashError
  BY <1>20, FlashErrorStep
<1>21. CASE UNCHANGED vars
  BY <1>21, StringStutter
<1> QED
  BY <1>1, <1>2, <1>3, <1>4, <1>5, <1>6, <1>7, <1>8, <1>9, <1>10, <1>11, <1>12, <1>13, <1>14, <1>15, <1>16,
     <1>17, <1>18, <1>19, <1>20, <1>21 DEF Next, Request, Load

LEMMA StringInvExact == StringInv => PageExact
<1> SUFFICES ASSUME StringInv, pc = "idle"
             PROVE  EmptyIsBlank /\ ItemsComplete /\ MembersExact
  BY DEF PageExact
<1>1. Quiet /\ ~Failed
  BY DEF Quiet, Failed
<1>2. FlashInv /\ ControlInv /\ QuietInv
  BY <1>1, QuietRam DEF StringInv
<1>3. /\ mEntryTable = entryTable /\ mState = header /\ mHashList = Heads
      /\ mUsedEntryCount = Cardinality(WrittenEntries)
      /\ mFirstUsedEntry = LeastOr(WrittenEntries, INVALID_ENTRY)
      /\ \A h \in Heads : Whole(h)
      /\ \A g, h \in Heads : entryData[g].key = entryData[h].key => g = h
      /\ header = "ACTIVE" =>
           \A e \in Index : /\ e >= mNextFreeEntry => Untouched(e)
                            /\ entryTable[e] = "EMPTY" => e >= mNextFreeEntry
  BY <1>2 DEF QuietInv
<1>4. EmptyIsBlank
  BY <1>3 DEF EmptyIsBlank, Untouched
<1>5. MembersExact
  <2>1. mNextFreeEntry \in Nat /\ Index \in SUBSET Nat
    BY <1>2, IndexProperty DEF ControlInv
  <2>2. header = "ACTIVE" => \A i \in Index : mEntryTable[i] = "EMPTY" <=> mNextFreeEntry <= i
    BY <1>3, <2>1 DEF Untouched
  <2> QED
    BY <1>3, <2>2 DEF MembersExact
<1>6. ItemsComplete
  <2> DEFINE items == {i \in WrittenEntries : entryData[i] \in Headers}
             Entries(i) == i .. i + Len(entryData[i].val)
  <2>1. items = Heads
    BY <1>3 DEF WrittenEntries, Heads
  <2>2. \A i \in Heads : /\ i \in Nat /\ LastOf(i) \in Nat /\ LastOf(i) < ENTRY_COUNT
                         /\ Entries(i) = i .. LastOf(i)
                         /\ \A j \in Heads : i < j => LastOf(i) < j
    BY <1>2, HeadProperty DEF FlashInv, HeadsApart
  <2> HIDE DEF items, Entries
  <2>3. \A i \in Heads : \A e : e \in Entries(i) <=> e \in Index /\ Covers(i, e)
    <3> SUFFICES ASSUME NEW i \in Heads, NEW e
                 PROVE  e \in i .. LastOf(i) <=> e \in Index /\ i <= e /\ e <= LastOf(i)
      BY <2>2 DEF Covers
    <3>1. i \in Nat /\ LastOf(i) \in Nat /\ LastOf(i) < ENTRY_COUNT
      BY <2>2
    <3> QED
      BY <3>1, SizeAssumption DEF Index
  <2>4. WrittenEntries = UNION {Entries(i) : i \in items}
    <3>1. ASSUME NEW e \in WrittenEntries PROVE \E i \in Heads : e \in Entries(i)
      <4>1. e \in Index /\ entryTable[e] = "WRITTEN"
        BY <1>3 DEF WrittenEntries
      <4> QED
        BY <1>2, <2>3, <4>1 DEF FlashInv, EntriesOwned
    <3>2. ASSUME NEW i \in Heads, NEW e \in Entries(i) PROVE e \in WrittenEntries
      BY <1>3, <2>3 DEF Whole, WrittenEntries
    <3> QED
      BY <2>1, <3>1, <3>2
  <2>5. \A i \in items : \A n \in DOMAIN entryData[i].val : entryData[i + n] = entryData[i].val[n]
    BY <1>2, <1>3, <2>1 DEF FlashInv, DataRight
  <2>6. ASSUME NEW i \in items, NEW j \in items, i # j
        PROVE  Entries(i) \cap Entries(j) = {} /\ entryData[i].key # entryData[j].key
    <3>1. entryData[i].key # entryData[j].key
      BY <1>3, <2>1, <2>6
    <3>2. ASSUME NEW e \in Entries(i) \cap Entries(j) PROVE FALSE
      <4>1. e \in Nat /\ i <= e /\ e <= LastOf(i) /\ j <= e /\ e <= LastOf(j)
        BY <2>1, <2>3, IndexProperty DEF Covers
      <4> QED
        BY <2>1, <2>2, <2>6, <4>1
    <3> QED
      BY <3>1, <3>2
  <2> QED
    BY <1>3, <2>1, <2>4, <2>5, <2>6 DEF ItemsComplete, items, Entries
<1> QED
  BY <1>4, <1>5, <1>6

(***************************************************************************)
(* Whatever a power failure or a flash error leaves of an item, RAM says   *)
(* of the page what the flash holds, in every step of a request and of     *)
(* load(), unless the request has failed and the page is yet to be loaded. *)
(***************************************************************************)
THEOREM StringsHold == ASSUME ~ContinueAfterFailure PROVE Spec => []StringInv
<1>1. Init => StringInv
  BY InitInv
<1>2. StringInv /\ [Next]_vars => StringInv'
  BY StringNext
<1> QED
  BY <1>1, <1>2, PTL DEF Spec

(***************************************************************************)
(* For pages and words of any size and strings of any length: between      *)
(* requests, and so after every load(), the page has complete items only,  *)
(* nothing lies where the next item will be written, and the members of    *)
(* the Page object are right.  The application does not go on after an     *)
(* error without initialising the storage again.                           *)
(***************************************************************************)
THEOREM PageIsExact == ASSUME ~ContinueAfterFailure PROVE Spec => []PageExact
BY StringsHold, StringInvExact, PTL

-----------------------------------------------------------------------------
(***************************************************************************)
(* The refinement: the strings a page has, of which the newest of each key *)
(* counts.                                                                 *)
(***************************************************************************)
Held == {h \in Heads : Whole(h)}

Newest(h) == \A g \in Held : entryData[g].key = entryData[h].key => g <= h

StoredRule ==
  \A k \in Key :
    /\ \A h \in Held : entryData[h].key = k /\ Newest(h) => Stored(k) = entryData[h].val
    /\ \A h \in Held : entryData[h].key = k => \E g \in Held : entryData[g].key = k /\ Newest(g)
    /\ (\A h \in Held : entryData[h].key # k) => Stored(k) = NoValue

LEMMA MaxIs ==
  ASSUME NEW S \in SUBSET Nat, NEW x \in S, \A y \in S : y <= x
  PROVE  Max(S) = x
<1>1. \A z \in S : (\A y \in S : z >= y) => z = x
  OBVIOUS
<1>2. \A y \in S : x >= y
  OBVIOUS
<1> QED
  BY <1>1, <1>2 DEF Max

LEMMA GreatestOf ==
  ASSUME NEW S \in SUBSET Index, S # {}
  PROVE  \E x \in S : \A y \in S : y <= x
<1> DEFINE T == {ENTRY_COUNT - y : y \in S}
<1>1. \A y \in S : y \in Nat /\ y < ENTRY_COUNT /\ ENTRY_COUNT - y \in Nat
  BY SizeAssumption DEF Index
<1>2. T \in SUBSET Nat /\ T # {}
  BY <1>1
<1>3. Min(T) \in T /\ \A t \in T : Min(T) <= t
  BY <1>2, MinProperty
<1>4. PICK x \in S : Min(T) = ENTRY_COUNT - x
  BY <1>3
<1>5. \A y \in S : ENTRY_COUNT - x <= ENTRY_COUNT - y
  BY <1>3, <1>4
<1>6. \A y \in S : y <= x
  <2> SUFFICES ASSUME NEW y \in S PROVE y <= x
    OBVIOUS
  <2>1. ENTRY_COUNT - x <= ENTRY_COUNT - y /\ x \in Nat /\ y \in Nat /\ ENTRY_COUNT \in Nat
    BY <1>1, <1>5, SizeAssumption
  <2> QED
    BY <2>1
<1> QED
  BY <1>6

\* The versions of a string that count are the whole items with its key.
LEMMA VersionsRule ==
  ASSUME FlashInv, NEW k \in Key
  PROVE  Versions(k) = {h \in Held : entryData[h].key = k}
<1>1. ASSUME NEW i \in Heads
      PROVE  Whole(i) <=> \A n \in DOMAIN entryData[i].val :
                            InUse(i + n) /\ entryData[i + n] = entryData[i].val[n]
  <2>1. /\ i \in Nat /\ entryTable[i] = "WRITTEN" /\ entryData[i].val \in String
        /\ LastOf(i) = i + Len(entryData[i].val)
    BY HeadProperty
  <2>2. DOMAIN entryData[i].val = 1 .. Len(entryData[i].val) /\ Len(entryData[i].val) \in Nat
    BY <2>1, StringProperty
  <2>3. ASSUME Whole(i), NEW n \in DOMAIN entryData[i].val
        PROVE  InUse(i + n) /\ entryData[i + n] = entryData[i].val[n]
    <3>1. i + n \in Index /\ Covers(i, i + n)
      BY DataProperty
    <3>2. entryTable[i + n] = "WRITTEN"
      BY <2>3, <3>1 DEF Whole
    <3> QED
      BY <2>3, <3>2 DEF InUse, FlashInv, DataRight
  <2>4. ASSUME \A n \in DOMAIN entryData[i].val : InUse(i + n), NEW e \in Index, Covers(i, e)
        PROVE  entryTable[e] = "WRITTEN"
    <3>1. e \in Nat
      BY IndexProperty
    <3>2. CASE e = i
      BY <2>1, <3>2
    <3>3. CASE e # i
      <4> DEFINE v == entryData[i].val
                 n == e - i
      <4>1. i <= e /\ e <= LastOf(i)
        BY <2>4 DEF Covers
      <4>2. Len(v) \in Nat /\ LastOf(i) = i + Len(v) /\ DOMAIN v = 1 .. Len(v)
        BY <2>1, <2>2
      <4> HIDE DEF v
      <4>3. n \in 1 .. Len(v) /\ i + n = e
        BY <2>1, <3>1, <3>3, <4>1, <4>2
      <4> HIDE DEF n
      <4>4. \A j \in DOMAIN v : InUse(i + j)
        BY <2>4 DEF v
      <4>5. InUse(i + n)
        BY <4>2, <4>3, <4>4
      <4> QED
        BY <4>3, <4>5 DEF InUse
    <3> QED
      BY <3>2, <3>3
  <2> QED
    BY <2>3, <2>4 DEF Whole
<1> QED
  BY <1>1 DEF Versions, Held, Heads, InUse

\* Of what a key has, the newest version is stored.
LEMMA StoredValue == FlashInv => StoredRule
<1> SUFFICES ASSUME FlashInv, NEW k \in Key
             PROVE  /\ \A h \in Held : entryData[h].key = k /\ Newest(h) => Stored(k) = entryData[h].val
                    /\ \A h \in Held : entryData[h].key = k => \E g \in Held : entryData[g].key = k /\ Newest(g)
                    /\ (\A h \in Held : entryData[h].key # k) => Stored(k) = NoValue
  BY DEF StoredRule
<1> DEFINE V == {h \in Held : entryData[h].key = k}
<1>1. Versions(k) = V
  BY VersionsRule
<1>2. V \in SUBSET Index /\ V \in SUBSET Nat
  BY IndexProperty DEF Held, Heads
<1>3. Stored(k) = IF V = {} THEN NoValue ELSE entryData[Max(V)].val
  BY <1>1 DEF Stored
<1>4. ASSUME NEW h \in Held, entryData[h].key = k, Newest(h) PROVE Stored(k) = entryData[h].val
  <2>1. h \in V /\ \A y \in V : y <= h
    BY <1>4 DEF Newest
  <2> HIDE DEF V
  <2>2. Max(V) = h
    BY <1>2, <2>1, MaxIs
  <2> QED
    BY <1>3, <2>1, <2>2
<1>5. ASSUME NEW h \in Held, entryData[h].key = k PROVE \E g \in Held : entryData[g].key = k /\ Newest(g)
  <2>1. V # {}
    BY <1>5
  <2>2. PICK x \in V : \A y \in V : y <= x
    <3> HIDE DEF V
    <3> QED
      BY <1>2, <2>1, GreatestOf
  <2> QED
    BY <2>2 DEF Newest
<1>6. (\A h \in Held : entryData[h].key # k) => Stored(k) = NoValue
  BY <1>3
<1> QED
  BY <1>4, <1>5, <1>6

-----------------------------------------------------------------------------
(* What a step of flash does to what is stored. *)

SameStored == \A k \in Key : Stored(k)' = Stored(k)

LEMMA HeldProperty ==
  ASSUME FlashInv, NEW h \in Held
  PROVE  h \in Heads /\ Whole(h) /\ h \in Nat /\ h \in Index /\ entryData[h].key \in Key /\ entryData[h].val \in String
<1>1. h \in Heads /\ Whole(h)
  BY DEF Held
<1> QED
  BY <1>1, HeadProperty

\* The items of a key.
OfKey(k) == {h \in Held : entryData[h].key = k}

\* One of them may go if there is a newer one.
LEMMA StoredOf ==
  ASSUME FlashInv, FlashInv', NEW k \in Key, OfKey(k)' \subseteq OfKey(k),
         \A h \in OfKey(k) : entryData'[h] = entryData[h],
         \A h \in OfKey(k) \ OfKey(k)' : \E g \in OfKey(k)' : h < g
  PROVE  Stored(k)' = Stored(k)
<1>1. StoredRule /\ StoredRule'
  <2>1. (FlashInv => StoredRule)'
    BY StoredValue, PTL
  <2> QED
    BY <2>1, StoredValue
<1>2. CASE OfKey(k) = {}
  <2>1. OfKey(k)' = {}
    BY <1>2
  <2>2. Stored(k) = NoValue /\ Stored(k)' = NoValue
    BY <1>1, <1>2, <2>1 DEF StoredRule, OfKey
  <2> QED
    BY <2>2
<1>3. CASE OfKey(k) # {}
  <2>1. PICK g \in OfKey(k) : Newest(g)
    BY <1>1, <1>3 DEF StoredRule, OfKey
  <2>2. g \in OfKey(k)'
    <3> SUFFICES ASSUME g \notin OfKey(k)' PROVE FALSE
      OBVIOUS
    <3>1. PICK n \in OfKey(k)' : g < n
      OBVIOUS
    <3>2. n \in OfKey(k) /\ n <= g /\ n \in Nat /\ g \in Nat
      BY <2>1, <3>1, HeldProperty DEF Newest, OfKey
    <3> QED
      BY <3>1, <3>2
  <2>3. Newest(g)'
    <3>1. \A h \in OfKey(k)' : h <= g
      BY <2>1 DEF Newest, OfKey
    <3> QED
      BY <2>2, <3>1 DEF Newest, OfKey
  <2>4. Stored(k) = entryData[g].val /\ Stored(k)' = entryData'[g].val
    BY <1>1, <2>1, <2>2, <2>3 DEF StoredRule, OfKey
  <2> QED
    BY <2>1, <2>4
<1> QED
  BY <1>2, <1>3

LEMMA StoredKeep ==
  ASSUME FlashInv, FlashInv', Held' \subseteq Held, \A h \in Held : entryData'[h] = entryData[h],
         \A h \in Held \ Held' : \E g \in Held' : h < g /\ entryData[g].key = entryData[h].key
  PROVE  SameStored
<1> SUFFICES ASSUME NEW k \in Key PROVE Stored(k)' = Stored(k)
  BY DEF SameStored
<1>1. OfKey(k)' \subseteq OfKey(k) /\ \A h \in OfKey(k) : entryData'[h] = entryData[h]
  BY DEF OfKey
<1>2. \A h \in OfKey(k) \ OfKey(k)' : \E g \in OfKey(k)' : h < g
  BY DEF OfKey
<1> QED
  BY <1>1, <1>2, StoredOf

LEMMA StoredSame ==
  ASSUME FlashInv, FlashInv', Held' = Held, \A h \in Held : entryData'[h] = entryData[h]
  PROVE  SameStored
BY StoredKeep

LEMMA FlashStored ==
  ASSUME FlashInv, UNCHANGED flashVars
  PROVE  SameStored /\ FlashInv' /\ Held' = Held
<1>1. FlashInv' /\ Held' = Held
  BY FlashSame DEF Held
<1> QED
  BY <1>1, StoredSame DEF flashVars

-----------------------------------------------------------------------------
(***************************************************************************)
(* What the store has while a request is served: before a set has taken    *)
(* effect no item has the new value (OldOther), and after it the newest    *)
(* has (NewThere); of what is erased otherwise there is a newer version    *)
(* (NewerThere), and of what an erase request erases there is no other     *)
(* (OneErased).  load() clears entries of no whole item (NoneCleared).     *)
(***************************************************************************)
Setting == op.name = "set" /\ (pc \in {"write", "markFull"} \/ Writing)

OldOther ==
  Setting => \A h \in Heads \ Fresh : entryData[h].key = op.key => entryData[h].val # op.val

NewThere == op.name = "set" /\ Erasing => Stored(op.key) = op.val

NewerThere ==
  Erasing /\ pc = "alter" /\ op.name # "erase" /\ altering.begin \in Held =>
    \E h \in Held : altering.begin < h /\ entryData[h].key = entryData[altering.begin].key

OneErased ==
  Erasing /\ op.name = "erase" =>
    /\ \A h \in Heads \ {altering.begin} : entryData[h].key # op.key
    /\ pc = "alter" => entryData[altering.begin].key = op.key

NoneCleared == Clearing => \A h \in Held : ~Covers(h, altering.begin)

\* What was altered before an item is written is not taken for an erase by FlashError.
NoneAltered ==
  pc \in {"idle", "find", "write", "markFull", "item", "written", "load", "scan"} =>
    altering.state # "ERASED"

ValueInv == OldOther /\ NewThere /\ NewerThere /\ OneErased /\ NoneCleared /\ NoneAltered

\* Where nothing is altered and nothing written.
LEMMA Calm ==
  ASSUME pc' \in {"idle", "find", "return", "load", "half", "scan"},
         pc' \in {"return", "half"} \/ altering'.state # "ERASED"
  PROVE  ValueInv'
<1>1. pc' \notin {"write", "markFull", "item", "written", "alter", "entered", "erased"}
  OBVIOUS
<1> QED
  BY <1>1 DEF ValueInv, OldOther, NewThere, NewerThere, OneErased, NoneCleared, NoneAltered,
     Setting, Writing, Entering, Erasing, Clearing

\* While an item is on its way.
LEMMA SettingStays ==
  ASSUME OldOther, Setting, op' = op, (Heads \ Fresh)' \subseteq Heads \ Fresh,
         \A h \in Heads : entryData'[h] = entryData[h],
         Setting', ~Erasing', ~Clearing',
         pc' \in {"alter", "entered"} \/ altering'.state # "ERASED"
  PROVE  ValueInv'
<1>1. OldOther'
  <2> SUFFICES ASSUME NEW h \in (Heads \ Fresh)', entryData'[h].key = op.key
               PROVE  entryData'[h].val # op.val
    BY DEF OldOther
  <2>1. h \in Heads \ Fresh /\ h \in Heads /\ entryData'[h] = entryData[h]
    OBVIOUS
  <2> QED
    BY <2>1 DEF OldOther
<1>2. pc' \in {"alter", "entered"} => pc' \notin {"idle", "find", "write", "markFull", "item", "written", "load", "scan"}
  OBVIOUS
<1>3. NoneAltered'
  BY <1>2 DEF NoneAltered
<1> QED
  BY <1>1, <1>3 DEF ValueInv, NewThere, NewerThere, OneErased, NoneCleared

\* Where erasing begins.
LEMMA ErasingBegins ==
  ASSUME pc' = "alter", altering'.then = "erased", NewThere', NewerThere', OneErased'
  PROVE  ValueInv'
<1>1. ~Setting' /\ ~Clearing'
  BY DEF Setting, Clearing, Writing, Entering
<1> QED
  BY <1>1 DEF ValueInv, OldOther, NoneCleared, NoneAltered

\* A request that is served leaves the page alone in between.
LEMMA QuietForm ==
  StringInv /\ Quiet /\ ~Failed => QuietInv /\ FlashInv /\ ControlInv /\ Held = Heads
<1>1. StringInv /\ Quiet /\ ~Failed => QuietInv /\ FlashInv /\ ControlInv
  BY QuietRam DEF StringInv
<1> QED
  BY <1>1 DEF QuietInv, Held

LEMMA BeginValue == ASSUME ValueInv, Begin PROVE ValueInv'
BY Calm DEF Begin, ValueInv, NoneAltered

LEMMA FindForSetValue == ASSUME StringInv, ValueInv, FindForSet PROVE ValueInv'
<1>1. pc = "find" /\ Quiet /\ ~Failed /\ op.name = "set" /\ op' = op /\ UNCHANGED <<flashVars, pageVars, altering>>
      /\ altering.state # "ERASED"
  BY DEF FindForSet, Quiet, Failed, ValueInv, NoneAltered
<1>2. QuietInv /\ FlashInv /\ ControlInv /\ Held = Heads
  BY <1>1, QuietForm
<1>3. CASE Unmodified(Find(op.key), op.val)
  <2>1. pc' = "return"
    BY <1>3 DEF FindForSet, Respond
  <2> QED
    BY <2>1, Calm
<1>4. CASE ~Unmodified(Find(op.key), op.val)
  <2>1. pc' = "write"
    BY <1>4 DEF FindForSet
  <2>2. ~Erasing' /\ ~Clearing' /\ ~Writing' /\ Fresh' = {} /\ Setting'
    BY <1>1, <2>1 DEF Erasing, Clearing, Writing, Entering, Fresh, Setting
  <2>3. Heads' = Heads
    BY <1>1, <1>2, FlashSame
  <2>4. ASSUME NEW h \in Heads, entryData[h].key = op.key PROVE entryData[h].val # op.val
    <3> SUFFICES ASSUME entryData[h].val = op.val PROVE FALSE
      OBVIOUS
    <3>1. Find(op.key) = h
      <4>1. Find(op.key) \in Heads /\ entryData[Find(op.key)].key = op.key
        BY <1>1, <2>4, FindProperty
      <4> QED
        BY <1>2, <2>4, <4>1 DEF QuietInv
    <3>2. \A n \in DOMAIN op.val : entryData[h + n] = op.val[n]
      BY <1>2 DEF FlashInv, DataRight, QuietInv
    <3>3. h # INVALID_ENTRY
      BY <1>2, HeadProperty, IndexProperty
    <3> QED
      BY <1>4, <3>1, <3>2, <3>3 DEF Unmodified
  <2>5. OldOther'
    BY <1>1, <2>2, <2>3, <2>4 DEF OldOther, flashVars
  <2> QED
    BY <1>1, <2>1, <2>2, <2>5 DEF ValueInv, NewThere, NewerThere, OneErased, NoneCleared, NoneAltered
<1> QED
  BY <1>3, <1>4

LEMMA FindForEraseValue == ASSUME StringInv, ValueInv, FindForErase PROVE ValueInv'
<1>1. pc = "find" /\ Quiet /\ ~Failed /\ op.name = "erase" /\ op' = op
  BY DEF FindForErase, Quiet, Failed
<1>2. QuietInv /\ FlashInv /\ ControlInv /\ Held = Heads
  BY <1>1, QuietForm
<1>3. CASE Find(op.key) = INVALID_ENTRY
  <2>1. pc' = "return"
    BY <1>3 DEF FindForErase, Respond
  <2> QED
    BY <2>1, Calm
<1>4. CASE Find(op.key) # INVALID_ENTRY
  <2> DEFINE i == Find(op.key)
  <2>1. EraseEntryAndSpan(i)
    BY <1>4 DEF FindForErase
  <2>2. i \in Heads /\ entryData[i].key = op.key
    BY <1>1, <1>4, FindProperty
  <2> HIDE DEF i
  <2>3. pc' = "alter" /\ altering'.then = "erased" /\ altering'.begin = i /\ UNCHANGED flashVars
    BY <2>1 DEF EraseEntryAndSpan, Alter
  <2>4. Heads' = Heads
    BY <1>2, <2>3, FlashSame
  <2>5. \A h \in Heads \ {i} : entryData[h].key # op.key
    BY <1>2, <2>2 DEF QuietInv
  <2>6. OneErased'
    BY <1>1, <2>2, <2>3, <2>4, <2>5 DEF OneErased, flashVars
  <2>7. NewThere' /\ NewerThere'
    BY <1>1 DEF NewThere, NewerThere
  <2> QED
    BY <2>3, <2>6, <2>7, ErasingBegins
<1> QED
  BY <1>3, <1>4

LEMMA TryWriteValue == ASSUME StringInv, ValueInv, TryWrite PROVE ValueInv'
<1>1. /\ pc = "write" /\ op' = op /\ UNCHANGED <<flashVars, altering>> /\ op.name = "set"
      /\ altering.state # "ERASED" /\ FlashInv
  BY DEF TryWrite, StringInv, ControlInv, ValueInv, NoneAltered
<1>2. pc' \in {"return", "markFull", "item"}
  BY DEF TryWrite, Respond
<1>3. CASE pc' = "return"
  BY <1>3, Calm
<1>4. CASE pc' \in {"markFull", "item"}
  <2>1. Setting /\ Setting' /\ ~Erasing' /\ ~Clearing' /\ Fresh = {}
    BY <1>1, <1>4 DEF Setting, Writing, Erasing, Clearing, Entering, Fresh
  <2>2. Heads' = Heads
    BY <1>1, FlashSame
  <2>3. (Heads \ Fresh)' \subseteq Heads \ Fresh /\ \A h \in Heads : entryData'[h] = entryData[h]
    BY <1>1, <2>1, <2>2 DEF flashVars
  <2> QED
    BY <1>1, <1>4, <2>1, <2>3, SettingStays DEF ValueInv
<1> QED
  BY <1>2, <1>3, <1>4

LEMMA MarkFullValue == ASSUME MarkFull PROVE ValueInv'
BY Calm DEF MarkFull, Respond

\* The items of the page while the data of one are written.
LEMMA WriteDataItems ==
  ASSUME StringInv, pc = "item", header' = header, entryTable' = entryTable,
         entryData' \in {entryData, Programmed(EntriesNext)} \cup CutOff(EntriesNext)
  PROVE  /\ FlashInv' /\ Heads' = Heads /\ Held' = Held /\ SameStored
         /\ \A h \in Heads : entryData'[h] = entryData[h]
<1>1. FlashInv /\ ControlInv /\ RamInv
  BY DEF StringInv, Failed
<1>2. /\ FlashInv' /\ Heads' = Heads
      /\ \A i \in Heads : (Whole(i)' <=> Whole(i)) /\ entryData'[i] = entryData[i]
  BY <1>1, CutOffProperty
<1>3. Held' = Held
  BY <1>2 DEF Held
<1>4. \A h \in Held : entryData'[h] = entryData[h]
  BY <1>2 DEF Held
<1> QED
  BY <1>1, <1>2, <1>3, <1>4, StoredSame

LEMMA WriteDataValue == ASSUME StringInv, ValueInv, WriteData PROVE ValueInv' /\ SameStored
<1>1. /\ pc = "item" /\ Writing /\ op' = op /\ pc' = "alter" /\ altering'.then = "entered"
      /\ header' = header /\ entryTable' = entryTable /\ entryData' = Programmed(EntriesNext)
      /\ UNCHANGED <<mNextFreeEntry, written>> /\ ~Failed
  BY DEF WriteData, Alter, Writing, pageVars, Failed
<1>2. WriteInv
  BY <1>1 DEF StringInv, RamInv
<1>3. Heads' = Heads /\ SameStored /\ \A h \in Heads : entryData'[h] = entryData[h]
  BY <1>1, WriteDataItems
<1>4. Setting /\ Setting' /\ ~Erasing' /\ ~Clearing' /\ Fresh = {Start} /\ Fresh' = {Start}
  BY <1>1, <1>2 DEF WriteInv, Setting, Writing, Entering, Erasing, Clearing, Fresh, Start
<1>5. (Heads \ Fresh)' \subseteq Heads \ Fresh
  BY <1>3, <1>4
<1> QED
  BY <1>1, <1>3, <1>4, <1>5, SettingStays DEF ValueInv

LEMMA EnteredValue == ASSUME StringInv, ValueInv, Entered PROVE ValueInv'
<1>1. /\ pc = "entered" /\ op' = op /\ UNCHANGED flashVars /\ pc' \in {"item", "written"}
      /\ altering' = Unaltered /\ mNextFreeEntry' = mNextFreeEntry + altering.span
      /\ written' = written + altering.span /\ ~Failed
  BY DEF Entered, Failed
<1>2. altering.then = "entered" /\ Writing /\ Entering /\ WriteInv /\ FlashInv
  BY <1>1 DEF StringInv, RamInv, AlterInv, Writing, Entering
<1>3. altering.span \in Nat /\ written \in Nat /\ mNextFreeEntry \in Nat
  BY DEF StringInv, ControlInv
<1>4. Start' = Start
  BY <1>1, <1>3 DEF Start
<1>5. Setting /\ Setting' /\ ~Erasing' /\ ~Clearing' /\ Fresh = {Start} /\ Fresh' = {Start}
      /\ altering'.state # "ERASED"
  BY <1>1, <1>2, <1>4 DEF WriteInv, Setting, Writing, Entering, Erasing, Clearing, Fresh, Unaltered
<1>6. Heads' = Heads
  BY <1>1, <1>2, FlashSame
<1>7. (Heads \ Fresh)' \subseteq Heads \ Fresh /\ \A h \in Heads : entryData'[h] = entryData[h]
  BY <1>1, <1>5, <1>6 DEF flashVars
<1> QED
  BY <1>1, <1>5, <1>7, SettingStays DEF ValueInv

\* The new item is stored.
LEMMA WrittenStored ==
  ASSUME StringInv, pc = "written"
  PROVE  Stored(op.key) = op.val
<1>1. /\ FlashInv /\ op.key \in Key /\ Start \in Held /\ entryData[Start].key = op.key
      /\ entryData[Start].val = op.val /\ Held = Heads /\ \A h \in Heads \ {Start} : h < Start
  BY WrittenItem DEF Held
<1>2. Newest(Start)
  <2>1. \A h \in Held : h <= Start
    BY <1>1, HeldProperty
  <2> QED
    BY <2>1 DEF Newest
<1>3. StoredRule
  BY <1>1, StoredValue
<1> QED
  BY <1>1, <1>2, <1>3 DEF StoredRule

LEMMA EraseOldValue == ASSUME StringInv, ValueInv, EraseOld PROVE ValueInv'
<1>1. pc = "written" /\ op' = op
  BY DEF EraseOld
<1>2. /\ FlashInv /\ op.name = "set" /\ op.key \in Key /\ Start \in Held /\ entryData[Start].key = op.key
      /\ entryData[Start].val = op.val /\ Held = Heads /\ \A h \in Heads \ {Start} : h < Start
      /\ found => Find(op.key) \in Heads \ {Start} /\ entryData[Find(op.key)].key = op.key
  BY <1>1, WrittenItem DEF Held
<1>3. CASE ~found
  <2>1. pc' = "return"
    BY <1>3 DEF EraseOld, Respond
  <2> QED
    BY <2>1, Calm
<1>4. CASE found
  <2> DEFINE i == Find(op.key)
  <2>1. EraseEntryAndSpan(i)
    BY <1>4 DEF EraseOld
  <2>2. i \in Heads \ {Start} /\ entryData[i].key = op.key
    BY <1>2, <1>4
  <2> HIDE DEF i
  <2>3. pc' = "alter" /\ altering'.then = "erased" /\ altering'.begin = i /\ UNCHANGED flashVars
    BY <2>1 DEF EraseEntryAndSpan, Alter
  <2>4. Held' = Held /\ SameStored
    BY <1>2, <2>3, FlashStored
  <2>5. NewerThere'
    BY <1>2, <2>2, <2>3, <2>4 DEF NewerThere, flashVars
  <2>6. NewThere'
    BY <1>1, <1>2, <2>4, WrittenStored DEF NewThere, SameStored
  <2>7. OneErased'
    BY <1>1, <1>2 DEF OneErased
  <2> QED
    BY <2>3, <2>5, <2>6, <2>7, ErasingBegins
<1> QED
  BY <1>3, <1>4

LEMMA ErasedValue == ASSUME Erased PROVE ValueInv'
<1>1. pc' \in {"scan", "return"} /\ altering'.state # "ERASED"
  BY DEF Erased, Respond, Unaltered
<1> QED
  BY <1>1, Calm

LEMMA ReturnValue == ASSUME Return PROVE ValueInv'
<1>1. pc' \in {"idle", "load"} /\ altering'.state # "ERASED"
  BY DEF Return, Restart, Unaltered
<1> QED
  BY <1>1, Calm

LEMMA PowerFailureValue == ASSUME PowerFailure PROVE ValueInv'
<1>1. pc' = "load" /\ altering'.state # "ERASED"
  BY DEF PowerFailure, Restart, Unaltered
<1> QED
  BY <1>1, Calm

LEMMA FlashErrorValue == ASSUME FlashError PROVE ValueInv'
BY Calm DEF FlashError, Respond

\* What load() does to RAM.
LEMMA LoadTableValue == ASSUME ValueInv, LoadTable PROVE ValueInv'
<1>1. pc' \in {"half", "scan"} /\ altering'.state # "ERASED"
  BY DEF LoadTable, ValueInv, NoneAltered
<1> QED
  BY <1>1, Calm

LEMMA NoneHalfWrittenValue == ASSUME NoneHalfWritten PROVE ValueInv'
<1>1. pc' = "scan" /\ altering'.state # "ERASED"
  BY DEF NoneHalfWritten, Unaltered
<1> QED
  BY <1>1, Calm

LEMMA ScanSkipValue == ASSUME ValueInv, ScanSkip \/ ScanDone PROVE ValueInv'
<1>1. pc' \in {"scan", "idle"} /\ altering'.state # "ERASED"
  BY DEF ScanSkip, ScanDone, ValueInv, NoneAltered
<1> QED
  BY <1>1, Calm

\* The first empty entry is not one of a whole item, and neither is one that follows what was cut off.
LEMMA ClearHalfWrittenValue == ASSUME StringInv, ClearHalfWritten PROVE ValueInv'
<1>1. /\ pc = "half" /\ ~Failed /\ UNCHANGED flashVars
      /\ pc' = "alter" /\ altering'.then = "half" /\ altering'.begin = mNextFreeEntry
      /\ mNextFreeEntry < ENTRY_COUNT
  BY DEF ClearHalfWritten, Alter, Failed, HalfWritten
<1>2. HalfInv /\ FlashInv /\ ControlInv
  BY <1>1, HalfRam DEF StringInv
<1>3. Held' = Held
  BY <1>1, <1>2, FlashStored
<1>4. mNextFreeEntry \in Index /\ mNextFreeEntry \in Nat
  BY <1>1, <1>2, IndexProperty DEF ControlInv
<1>5. ASSUME NEW h \in Held, Covers(h, mNextFreeEntry) PROVE FALSE
  <2>1. h \in Heads /\ Whole(h) /\ h \in Nat /\ LastOf(h) \in Nat /\ h <= mNextFreeEntry /\ mNextFreeEntry <= LastOf(h)
    BY <1>2, <1>5, HeldProperty, HeadProperty DEF Covers
  <2>2. entryTable[mNextFreeEntry] = "WRITTEN"
    BY <1>4, <1>5, <2>1 DEF Whole
  <2>3. CutFrom(0)
    <3>1. entryTable[mNextFreeEntry] # "EMPTY"
      BY <2>2
    <3>2. mNextFreeEntry >= mNextFreeEntry
      BY <1>4
    <3> QED
      BY <1>2, <1>4, <3>1, <3>2 DEF HalfInv
  <2>4. PICK n \in Heads : n < mNextFreeEntry /\ mNextFreeEntry <= LastOf(n) /\ ~Whole(n)
    BY <2>3 DEF CutFrom
  <2>5. n \in Nat /\ LastOf(n) \in Nat /\ (n < h => LastOf(n) < h) /\ (h < n => LastOf(h) < n)
    BY <1>2, <2>1, HeadProperty
  <2>6. n = h
    BY <1>4, <2>1, <2>4, <2>5
  <2> QED
    BY <2>1, <2>4, <2>6
<1>6. NoneCleared'
  <2>1. \A h \in Held : ~Covers(h, mNextFreeEntry)
    BY <1>5
  <2>2. \A h, e : Covers(h, e)' <=> Covers(h, e)
    BY <1>1, <1>2, FlashSame
  <2> QED
    BY <1>1, <1>3, <2>1, <2>2 DEF NoneCleared
<1>7. ~Setting' /\ ~Erasing'
  BY <1>1 DEF Setting, Writing, Entering, Erasing
<1> QED
  BY <1>1, <1>6, <1>7 DEF ValueInv, OldOther, NewThere, NewerThere, OneErased, NoneAltered

LEMMA ScanIncompleteValue == ASSUME StringInv, ScanIncomplete PROVE ValueInv'
<1>1. /\ pc = "scan" /\ ~Failed /\ ~Complete(at) /\ EraseEntryAndSpan(at) /\ op' = op /\ op = NoOp
      /\ at < end /\ ~Skipped(at)
  BY DEF ScanIncomplete, Failed, StringInv, ControlInv
<1>2. ScanningInv /\ FlashInv /\ ControlInv
  BY <1>1, ScanningRam DEF StringInv
<1>3. pc' = "alter" /\ altering'.then = "erased" /\ altering'.begin = at /\ UNCHANGED flashVars
  BY <1>1 DEF EraseEntryAndSpan, Alter
<1>4. op.name = "none"
  BY <1>1 DEF NoOp
<1>5. at \notin Held
  <2> SUFFICES ASSUME at \in Held PROVE FALSE
    OBVIOUS
  <2>1. at \in Heads /\ Whole(at) /\ at \in Nat /\ at \in Index
    BY <1>2, HeldProperty
  <2>2. entryData[at] \in Headers /\ LastOf(at) = at + Len(entryData[at].val) /\ LastOf(at) \in Nat /\ LastOf(at) \in Index
    BY <1>2, <2>1, HeadProperty
  <2>3. ASSUME NEW e \in at .. LastOf(at) PROVE e \in WrittenEntries
    <3>1. e \in Index /\ Covers(at, e)
      BY <2>1, <2>2, <2>3, SizeAssumption DEF Index, Covers
    <3> QED
      BY <1>2, <2>1, <3>1 DEF Whole, WrittenEntries, ScanningInv, LoadedInv
  <2>4. at .. at + Len(entryData[at].val) \subseteq WrittenEntries
    BY <2>2, <2>3
  <2> QED
    BY <1>1, <2>2, <2>4 DEF Complete
<1>6. Held' = Held
  BY <1>2, <1>3, FlashStored
<1>7. NewThere' /\ NewerThere' /\ OneErased'
  BY <1>1, <1>3, <1>4, <1>5, <1>6 DEF NewThere, NewerThere, OneErased
<1> QED
  BY <1>3, <1>7, ErasingBegins

LEMMA ScanCompleteValue == ASSUME StringInv, ValueInv, ScanComplete PROVE ValueInv'
<1>1. /\ pc = "scan" /\ ~Failed /\ Complete(at) /\ op' = op /\ op = NoOp /\ at < end /\ ~Skipped(at)
      /\ altering.state # "ERASED"
  BY DEF ScanComplete, Failed, StringInv, ControlInv, ValueInv, NoneAltered
<1>2. ScanningInv /\ FlashInv /\ ControlInv
  BY <1>1, ScanningRam DEF StringInv
<1>3. CASE ~(header = "ACTIVE" /\ Older(at) # {})
  <2>1. pc' = "scan" /\ altering' = altering
    BY <1>1, <1>3 DEF ScanComplete
  <2> QED
    BY <1>1, <2>1, Calm
<1>4. CASE header = "ACTIVE" /\ Older(at) # {}
  <2> DEFINE i == Min(Older(at))
  <2>1. pc' = "alter" /\ altering'.then = "erased" /\ altering'.begin = i /\ UNCHANGED flashVars
    BY <1>4 DEF ScanComplete, Alter
  <2>2. i \in Older(at)
    <3>1. Older(at) \in SUBSET Nat
      BY <1>2, HeadProperty DEF Older, ScanningInv
    <3> QED
      BY <1>4, <3>1, MinProperty
  <2> HIDE DEF i
  <2>3. i < at /\ entryData[i].key = entryData[at].key
    BY <2>2 DEF Older
  <2>4. at \in Held
    <3>1. at \in Heads /\ LastOf(at) = at + Len(entryData[at].val) /\ LastOf(at) \in Nat /\ at \in Nat
      BY <1>1, <1>2, ScanAtHead, HeadProperty
    <3>2. ASSUME NEW e \in Index, Covers(at, e) PROVE entryTable[e] = "WRITTEN"
      <4>1. e \in at .. at + Len(entryData[at].val)
        BY <3>1, <3>2, IndexProperty DEF Covers
      <4> QED
        BY <1>1, <1>2, <4>1 DEF Complete, WrittenEntries, ScanningInv, LoadedInv
    <3> QED
      BY <3>1, <3>2 DEF Held, Whole
  <2>5. Held' = Held
    BY <1>2, <2>1, FlashStored
  <2>6. op.name = "none"
    BY <1>1 DEF NoOp
  <2>7. NewThere' /\ NewerThere' /\ OneErased'
    BY <1>1, <2>1, <2>3, <2>4, <2>5, <2>6 DEF NewThere, NewerThere, OneErased, flashVars
  <2> QED
    BY <2>1, <2>7, ErasingBegins
<1> QED
  BY <1>3, <1>4

-----------------------------------------------------------------------------
(* A word of the bitmap. *)

\* The item that is written is not whole before the last of its states is written.
LEMMA NotYet ==
  ASSUME StringInv, ValueInv, Writing, pc # "written", pc # "entered"
  PROVE  Start \notin Held /\ \A h \in Held : entryData[h].key = op.key => entryData[h].val # op.val
<1>1. /\ ~Failed /\ FlashInv /\ ControlInv /\ WriteInv /\ op.name = "set" /\ Setting /\ Fresh = {Start}
      /\ EnterInv /\ AlterInv
  BY DEF Failed, Writing, Entering, StringInv, RamInv, WriteInv, Setting, Fresh
<1>2. Start \notin Held
  <2> SUFFICES ASSUME Start \in Held PROVE FALSE
    OBVIOUS
  <2>0. /\ Start \in Nat /\ written \in Nat /\ mNextFreeEntry \in Nat /\ mNextFreeEntry = Start + written
        /\ Start + Len(op.val) \in Index /\ Len(op.val) \in Nat
    BY <1>1, WritingProperty
  <2>1. written <= Len(op.val) /\ entryTable[mNextFreeEntry] # "WRITTEN"
    <3>1. CASE pc = "item"
      <4>1. ~Entering /\ written <= Len(op.val)
        BY <1>1, <3>1 DEF Entering, WriteInv
      <4>2. mNextFreeEntry \in Index
        BY <2>0, <4>1, SizeAssumption DEF Index
      <4>3. mNextFreeEntry >= mNextFreeEntry
        BY <2>0
      <4>4. Untouched(mNextFreeEntry)
        BY <1>1, <4>1, <4>2, <4>3 DEF WriteInv
      <4> QED
        BY <4>1, <4>4 DEF Untouched
    <3>2. CASE pc = "alter"
      <4>1. Entering /\ written <= Len(op.val) /\ altering.begin = mNextFreeEntry /\ altering.begin < altering.end
        BY <1>1, <3>2 DEF Writing, WriteInv, EnterInv, AlterInv
      <4>2. mNextFreeEntry \in Index
        BY <2>0, <4>1, SizeAssumption DEF Index
      <4>3. mNextFreeEntry >= mNextFreeEntry
        BY <2>0
      <4> QED
        BY <1>1, <4>1, <4>2, <4>3 DEF EnterInv
    <3> QED
      BY <3>1, <3>2 DEF Writing, Entering
  <2>2. Start \in Heads /\ Whole(Start) /\ LastOf(Start) = Start + Len(entryData[Start].val)
    BY <1>1, HeldProperty, HeadProperty
  <2>3. mNextFreeEntry \in Index
    BY <2>0, <2>1, SizeAssumption DEF Index
  <2>4. written > 0
    BY <2>0, <2>1, <2>2 DEF Heads
  <2>5. entryData[Start].val = op.val
    BY <1>1, <2>4 DEF WriteInv, Header
  <2>6. Covers(Start, mNextFreeEntry)
    BY <2>0, <2>1, <2>2, <2>5 DEF Covers
  <2> QED
    BY <2>1, <2>2, <2>3, <2>6 DEF Whole
<1>3. \A h \in Heads \ {Start} : entryData[h].key = op.key => entryData[h].val # op.val
  BY <1>1 DEF ValueInv, OldOther
<1> QED
  BY <1>2, <1>3 DEF Held

\* So its value is not stored yet.
LEMMA NotStoredYet ==
  ASSUME StringInv, ValueInv, Setting, pc # "written", pc # "entered"
  PROVE  op.name = "set" /\ op # NoOp /\ op.key \in Key /\ op.val \in String /\ Stored(op.key) # op.val
<1>1. FlashInv /\ op.name = "set" /\ op # NoOp /\ op.key \in Key /\ op.val \in String
  BY RequestProperty DEF StringInv, Setting
<1>2. \A h \in Held : entryData[h].key = op.key => entryData[h].val # op.val
  <2>1. CASE Writing
    BY <2>1, NotYet
  <2>2. CASE ~Writing
    BY <2>2 DEF ValueInv, OldOther, Fresh, Held
  <2> QED
    BY <2>1, <2>2
<1>3. StoredRule
  BY <1>1, StoredValue
<1>4. CASE \A h \in Held : entryData[h].key # op.key
  <2>1. Stored(op.key) = NoValue
    BY <1>1, <1>3, <1>4 DEF StoredRule
  <2> QED
    BY <1>1, <2>1, StringAssumption
<1>5. CASE \E h \in Held : entryData[h].key = op.key
  <2>1. PICK g \in Held : entryData[g].key = op.key /\ Newest(g)
    BY <1>1, <1>3, <1>5 DEF StoredRule
  <2> QED
    BY <1>1, <1>2, <1>3, <2>1 DEF StoredRule
<1> QED
  BY <1>1, <1>4, <1>5

\* The last word of its states makes the item count, and no word before it changes anything.
LEMMA AlterEnteringValue ==
  ASSUME StringInv, StringInv', ValueInv, AlterWord, Entering
  PROVE  /\ ValueInv' /\ op' = op /\ Setting /\ pc = "alter" /\ pc' \in {"alter", "entered"}
         /\ \/ SameStored
            \/ Stored(op.key)' = op.val /\ \A k \in Key \ {op.key} : Stored(k)' = Stored(k)
<1>1. /\ pc = "alter" /\ Writing /\ ~Failed /\ FlashInv /\ ControlInv /\ RamInv /\ WriteInv /\ EnterInv
      /\ MembersRight /\ FlashInv'
  BY DEF AlterWord, Writing, Entering, Failed, StringInv, RamInv
<1> DEFINE m == Min(LastPart)
<1>2. /\ m \in Nat /\ altering.begin <= m /\ m < altering.end
      /\ entryTable' = [i \in Index |-> IF m <= i /\ i < altering.end THEN altering.state ELSE entryTable[i]]
      /\ pc' = IF m = altering.begin THEN altering.then ELSE "alter"
      /\ altering' = [altering EXCEPT !.end = m]
  BY <1>1, AlterWordTable
<1> HIDE DEF m
<1>3. /\ altering.state = "WRITTEN" /\ altering.then = "entered" /\ pc' \in {"alter", "entered"}
      /\ altering \in [begin : Nat, end : Nat, span : Nat, state : {"EMPTY", "WRITTEN", "ERASED"},
                       range : BOOLEAN, then : {"idle", "erased", "entered", "half"}]
  BY <1>1, <1>2 DEF RamInv, AlterInv, Entering, ControlInv
<1>4. altering'.then = "entered"
  BY <1>2, <1>3
<1>5. op' = op /\ header' = header /\ entryData' = entryData /\ UNCHANGED <<mNextFreeEntry, written>>
  BY DEF AlterWord
<1>6. /\ Heads' = Heads \cup {Start} /\ (Start \in Heads <=> written > 0)
      /\ \A i : LastOf(i)' = LastOf(i)
      /\ \A i \in Heads \ {Start} : Whole(i)' <=> Whole(i)
  BY <1>1, <1>2, <1>3, <1>5, StatesWritten
<1>7. Setting /\ Setting' /\ ~Erasing' /\ ~Clearing' /\ Fresh = {Start} /\ Fresh' = {Start}
  BY <1>1, <1>3, <1>4, <1>5 DEF Setting, Writing, Entering, Erasing, Clearing, Fresh, Start, WriteInv
<1>8. ValueInv'
  <2>1. (Heads \ Fresh)' \subseteq Heads \ Fresh /\ \A h \in Heads : entryData'[h] = entryData[h]
    BY <1>5, <1>6, <1>7
  <2> QED
    BY <1>3, <1>5, <1>7, <2>1, SettingStays DEF ValueInv
<1>9. Start \notin Held /\ op.key \in Key
  BY <1>1, NotYet, WritingProperty
<1>10. Held' \ {Start} = Held
  BY <1>6, <1>9 DEF Held
<1>11. CASE Start \notin Held'
  <2>1. SameStored
    BY <1>1, <1>5, <1>10, <1>11, StoredSame
  <2> QED
    BY <1>1, <1>3, <1>5, <1>7, <1>8, <2>1
<1>12. CASE Start \in Held'
  <2>0. /\ Start \in Nat /\ written \in Nat /\ mNextFreeEntry = Start + written /\ Len(op.val) \in Nat
        /\ written <= Len(op.val) /\ altering.begin = mNextFreeEntry /\ op.val \in String
    BY <1>1, WritingProperty DEF WriteInv, EnterInv
  <2>1. entryData[Start].key = op.key /\ entryData[Start].val = op.val
    <3>1. CASE written > 0
      BY <1>1, <3>1 DEF WriteInv, Header
    <3>2. CASE written = 0
      <4>1. altering.begin = Start /\ altering.span = 1 /\ EntriesNext[1] = Header(op.key, op.val)
        <5>1. pc # "written"
          BY <1>1
        <5>2. Len(EntriesNext) = 1 /\ EntriesNext[1] = Header(op.key, op.val)
          BY <1>1, <3>2, <5>1, EntriesNextProperty
        <5>3. altering.span = Len(EntriesNext) /\ altering.begin = Start
          BY <1>1, <2>0, <3>2 DEF EnterInv
        <5> QED
          BY <5>2, <5>3
      <4>2. \A n \in 1 .. altering.span : entryData[altering.begin + n - 1] = EntriesNext[n]
        BY <1>1 DEF EnterInv
      <4>3. entryData[altering.begin + 1 - 1] = EntriesNext[1]
        BY <4>1, <4>2
      <4>4. altering.begin + 1 - 1 = Start
        BY <2>0, <4>1
      <4> QED
        BY <4>1, <4>3, <4>4 DEF Header
    <3> QED
      BY <2>0, <3>1, <3>2
  <2>2. LastOf(Start) = Start + Len(op.val)
    BY <2>1 DEF LastOf
  <2>3. ASSUME NEW h \in Heads \ {Start} PROVE h <= Start
    <3>1. h \in Nat /\ h \in Index /\ h < mNextFreeEntry
      BY <1>1, <1>7, HeadProperty DEF MembersRight
    <3>2. ~(Start < h)
      <4> SUFFICES ASSUME Start < h PROVE FALSE
        OBVIOUS
      <4>1. PICK s : s = Start
        OBVIOUS
      <4>2. h \in Heads' /\ s \in Heads' /\ s < h
        BY <1>6, <4>1
      <4>3. LastOf(s) < h
        <5>1. LastOf(s)' < h
          BY <1>1, <4>2 DEF FlashInv, HeadsApart
        <5> QED
          BY <1>6, <5>1
      <4>4. LastOf(Start) < h
        BY <4>1, <4>3
      <4> QED
        BY <2>0, <2>2, <3>1, <4>4
    <3> QED
      BY <2>0, <3>1, <3>2
  <2>4. Newest(Start)'
    <3>1. \A g \in Held' : g <= Start
      <4>1. Held \subseteq Heads
        BY DEF Held
      <4> QED
        BY <1>9, <1>10, <2>0, <2>3, <4>1
    <3>2. \A g \in Held' : entryData'[g].key = entryData'[Start].key => g <= Start
      BY <3>1
    <3> QED
      BY <1>5, <3>2, <2>0 DEF Newest, Start
  <2>5. Stored(op.key)' = op.val
    <3>1. (FlashInv => StoredRule)'
      BY StoredValue, PTL
    <3> QED
      BY <1>1, <1>5, <1>9, <1>12, <2>1, <2>4, <3>1 DEF StoredRule, Start
  <2>6. ASSUME NEW k \in Key \ {op.key} PROVE Stored(k)' = Stored(k)
    <3>1. OfKey(k)' = OfKey(k)
      BY <1>5, <1>9, <1>10, <2>1, <2>6 DEF OfKey
    <3> QED
      BY <1>1, <1>5, <3>1, StoredOf
  <2> QED
    BY <1>1, <1>3, <1>5, <1>7, <1>8, <2>5, <2>6
<1> QED
  BY <1>11, <1>12

\* The first word that is erased of an item is the end of it.
LEMMA AlterErasingItems ==
  ASSUME StringInv, StringInv', AlterWord, Erasing
  PROVE  /\ FlashInv /\ FlashInv' /\ altering.begin \in Heads
         /\ Heads' \subseteq Heads /\ Held' = Held \ {altering.begin}
         /\ pc = "alter" /\ pc' \in {"alter", "erased"} /\ altering'.then = "erased"
         /\ altering'.begin = altering.begin
         /\ UNCHANGED <<op, entryData>>
<1>1. /\ pc = "alter" /\ ~Failed /\ ~Entering /\ FlashInv /\ FlashInv' /\ ControlInv /\ RamInv /\ EraseInv
  BY DEF AlterWord, Erasing, Entering, Failed, StringInv, RamInv
<1> DEFINE b == altering.begin
           e == altering.end
           m == Min(LastPart)
<1>2. /\ m \in Nat /\ b <= m /\ m < e
      /\ entryTable' = [i \in Index |-> IF m <= i /\ i < e THEN altering.state ELSE entryTable[i]]
      /\ pc' = IF m = b THEN altering.then ELSE "alter"
      /\ altering' = [altering EXCEPT !.end = m]
  BY <1>1, AlterWordTable
<1> HIDE DEF m
<1>3. /\ altering.state = "ERASED" /\ altering.then = "erased" /\ pc' \in {"alter", "erased"}
      /\ altering \in [begin : Nat, end : Nat, span : Nat, state : {"EMPTY", "WRITTEN", "ERASED"},
                       range : BOOLEAN, then : {"idle", "erased", "entered", "half"}]
      /\ b \in Nat /\ e \in Nat /\ altering.span \in Nat /\ e <= b + altering.span
  BY <1>1, <1>2 DEF RamInv, AlterInv, Erasing, ControlInv
<1>4. altering'.then = "erased" /\ altering'.begin = b
  BY <1>2, <1>3
<1>5. op' = op /\ header' = header /\ entryData' = entryData
  BY DEF AlterWord
<1>6. b \in Heads /\ LastOf(b) + 1 = b + altering.span /\ LastOf(b) \in Nat
      /\ \A i \in Index : e <= i /\ i < b + altering.span => entryTable[i] = "ERASED"
  BY <1>1, HeadProperty DEF EraseInv
<1>7. /\ Heads' = (IF m = b THEN Heads \ {b} ELSE Heads)
      /\ \A i : LastOf(i)' = LastOf(i)
      /\ \A i \in Heads : Whole(i)' => Whole(i)
  <2>1. e <= LastOf(b) + 1 /\ \A i \in Index : e <= i /\ i <= LastOf(b) => entryTable[i] = "ERASED"
    <3>1. \A i \in Index : i <= LastOf(b) => i < b + altering.span
      BY <1>3, <1>6, IndexProperty
    <3> QED
      BY <1>3, <1>6, <3>1
  <2>2. entryTable' = [i \in Index |-> IF m <= i /\ i < e THEN "ERASED" ELSE entryTable[i]]
    BY <1>2, <1>3
  <2> HIDE DEF b, e
  <2> QED
    BY <1>1, <1>2, <1>3, <1>5, <1>6, <2>1, <2>2, ItemStatesErased
<1>8. \A i, j : Covers(i, j)' <=> Covers(i, j)
  BY <1>5 DEF Covers, LastOf
<1>9. m \in Index /\ Covers(b, m) /\ m <= LastOf(b)
  <2>1. m <= LastOf(b)
    BY <1>2, <1>3, <1>6
  <2>2. LastOf(b) \in Index
    BY <1>1, <1>6, HeadProperty
  <2>3. m \in Index
    BY <1>2, <2>1, <2>2, SizeAssumption DEF Index
  <2> QED
    BY <1>2, <2>1, <2>3 DEF Covers
<1>10. ASSUME NEW i, i = b PROVE ~Whole(i)'
  <2>1. entryTable'[m] = "ERASED"
    BY <1>2, <1>3, <1>9
  <2> QED
    BY <1>8, <1>9, <1>10, <2>1 DEF Whole
<1>11. ASSUME NEW i \in Heads, i # b, Whole(i) PROVE Whole(i)'
  <2>1. i \in Nat /\ LastOf(i) \in Nat /\ (i < b => LastOf(i) < b) /\ (b < i => LastOf(b) < i)
    BY <1>1, <1>6, HeadProperty
  <2>2. ASSUME NEW j \in Index, Covers(i, j) PROVE ~(m <= j /\ j < e)
    <3>1. j \in Nat /\ i <= j /\ j <= LastOf(i)
      BY <2>2, IndexProperty DEF Covers
    <3> QED
      BY <1>2, <1>3, <1>6, <1>11, <2>1, <3>1
  <2> QED
    BY <1>2, <1>8, <1>11, <2>2 DEF Whole
<1>12. Held' = Held \ {b}
  <2>1. ASSUME NEW i \in Held, i # b PROVE i \in Held'
    BY <1>7, <1>11, <2>1 DEF Held
  <2>2. ASSUME NEW i \in Held' PROVE i \in Held /\ i # b
    <3>1. i \in Heads /\ Whole(i)' /\ Whole(i)
      BY <1>7, <2>2 DEF Held
    <3>2. i # b
      BY <1>10, <3>1
    <3> QED
      BY <3>1, <3>2 DEF Held
  <2> QED
    BY <2>1, <2>2
<1> QED
  BY <1>1, <1>3, <1>4, <1>5, <1>6, <1>7, <1>12

\* An erase takes effect with the first word; the erasing of an older version has no effect.
LEMMA AlterErasingValue ==
  ASSUME StringInv, StringInv', ValueInv, AlterWord, Erasing
  PROVE  /\ ValueInv' /\ op' = op /\ pc = "alter" /\ pc' \in {"alter", "erased"}
         /\ \/ SameStored
            \/ /\ op.name = "erase" /\ Stored(op.key) # NoValue /\ Stored(op.key)' = NoValue
               /\ \A k \in Key \ {op.key} : Stored(k)' = Stored(k)
<1> DEFINE b == altering.begin
<1>1. /\ FlashInv /\ FlashInv' /\ b \in Heads /\ Heads' \subseteq Heads /\ Held' = Held \ {b}
      /\ pc = "alter" /\ pc' \in {"alter", "erased"} /\ altering'.then = "erased" /\ altering'.begin = b
      /\ UNCHANGED <<op, entryData>>
  BY AlterErasingItems
<1>2. ~Setting' /\ ~Clearing' /\ Erasing'
  BY <1>1 DEF Setting, Clearing, Writing, Entering, Erasing
<1>3. NewerThere' /\ NoneAltered' /\ OneErased'
  <2>1. NewerThere'
    BY <1>1 DEF NewerThere
  <2>2. NoneAltered'
    BY <1>1 DEF NoneAltered
  <2>3. OneErased'
    <3> SUFFICES ASSUME op.name = "erase"
                 PROVE  /\ \A h \in Heads' \ {b} : entryData[h].key # op.key
                        /\ entryData[b].key = op.key
      BY <1>1 DEF OneErased
    <3> QED
      BY <1>1 DEF ValueInv, OneErased
  <2> QED
    BY <2>1, <2>2, <2>3
<1>4. CASE b \in Held => op.name # "erase"
  <2>1. SameStored
    <3>1. \A h \in Held \ Held' : \E g \in Held' : h < g /\ entryData[g].key = entryData[h].key
      <4> SUFFICES ASSUME b \in Held
                   PROVE  \E g \in Held' : b < g /\ entryData[g].key = entryData[b].key
        BY <1>1
      <4>1. PICK g \in Held : b < g /\ entryData[g].key = entryData[b].key
        BY <1>1, <1>4 DEF ValueInv, NewerThere
      <4>2. g # b
        BY <1>1, <4>1, HeadProperty
      <4> QED
        BY <1>1, <4>1, <4>2
    <3> QED
      BY <1>1, <3>1, StoredKeep
  <2>2. NewThere'
    <3> SUFFICES ASSUME op.name = "set" PROVE Stored(op.key)' = op.val
      BY <1>1 DEF NewThere
    <3>1. op.key \in Key /\ Stored(op.key) = op.val
      BY RequestProperty DEF StringInv, ValueInv, NewThere
    <3> QED
      BY <1>1, <2>1, <3>1 DEF SameStored
  <2> QED
    BY <1>1, <1>2, <1>3, <2>1, <2>2 DEF ValueInv, OldOther, NoneCleared
<1>5. CASE b \in Held /\ op.name = "erase"
  <2>1. op.key \in Key /\ entryData[b].key = op.key /\ \A h \in Heads \ {b} : entryData[h].key # op.key
    BY <1>1, <1>5, RequestProperty DEF StringInv, ValueInv, OneErased
  <2>2. \A h \in Held \ {b} : entryData[h].key # op.key
    BY <2>1 DEF Held
  <2>3. Stored(op.key) # NoValue
    <3>1. Newest(b)
      <4>1. b <= b
        BY <1>1, HeadProperty
      <4> QED
        BY <2>1, <2>2, <4>1 DEF Newest
    <3>2. Stored(op.key) = entryData[b].val
      BY <1>1, <1>5, <2>1, <3>1, StoredValue DEF StoredRule
    <3> QED
      BY <1>1, <3>2, HeadProperty, StringAssumption
  <2>4. Stored(op.key)' = NoValue
    <3>1. (FlashInv => StoredRule)'
      BY StoredValue, PTL
    <3>2. \A h \in Held' : entryData'[h].key # op.key
      BY <1>1, <2>2
    <3> QED
      BY <1>1, <2>1, <3>1, <3>2 DEF StoredRule
  <2>5. ASSUME NEW k \in Key \ {op.key} PROVE Stored(k)' = Stored(k)
    <3>1. OfKey(k)' = OfKey(k)
      BY <1>1, <2>1, <2>5 DEF OfKey
    <3> QED
      BY <1>1, <3>1, StoredOf
  <2>6. NewThere'
    BY <1>1, <1>5 DEF NewThere
  <2> QED
    BY <1>1, <1>2, <1>3, <1>5, <2>3, <2>4, <2>5, <2>6 DEF ValueInv, OldOther, NoneCleared
<1> QED
  BY <1>4, <1>5

\* What load() clears was not a part of anything whole.
LEMMA AlterClearingValue ==
  ASSUME StringInv, StringInv', ValueInv, AlterWord, Clearing
  PROVE  ValueInv' /\ SameStored /\ op = NoOp /\ op' = NoOp
<1>1. /\ pc = "alter" /\ ~Failed /\ FlashInv /\ FlashInv' /\ ControlInv /\ RamInv /\ op = NoOp /\ op' = op
  BY DEF AlterWord, Clearing, Failed, StringInv, ControlInv
<1>2. ClearingInv
  BY <1>1, ClearingRam
<1> DEFINE m == Min(LastPart)
           f == altering.begin
<1>3. /\ m \in Nat /\ f <= m /\ m < altering.end
      /\ entryTable' = [i \in Index |-> IF m <= i /\ i < altering.end THEN altering.state ELSE entryTable[i]]
      /\ pc' = IF m = f THEN altering.then ELSE "alter"
  BY <1>1, AlterWordTable
<1> HIDE DEF m
<1>4. f \in Index /\ f \in Nat /\ altering.end = f + 1 /\ altering.state = "ERASED" /\ f \notin Heads
      /\ \A e \in Index : entryTable[e] = "EMPTY" => e >= f
  BY <1>2, IndexProperty DEF ClearingInv
<1>5. m = f /\ header' = header /\ entryData' = entryData
  BY <1>3, <1>4 DEF AlterWord
<1>6. pc' = "half"
  BY <1>3, <1>5 DEF Clearing
<1>7. entryTable' = [i \in Index |-> IF f <= i /\ i < f + 1 THEN "ERASED" ELSE entryTable[i]]
  BY <1>3, <1>4, <1>5
<1>8. /\ Heads' = Heads /\ \A i \in Heads : Whole(i)' => Whole(i)
  <2> HIDE DEF f
  <2> QED
    BY <1>1, <1>4, <1>5, <1>7, HalfWrittenErased
<1>9. ASSUME NEW i \in Held PROVE Whole(i)'
  <2>1. ~Covers(i, f) /\ Whole(i)
    BY DEF ValueInv, NoneCleared, Held
  <2>2. ASSUME NEW e \in Index, Covers(i, e) PROVE entryTable'[e] = "WRITTEN"
    <3>1. e # f /\ entryTable[e] = "WRITTEN" /\ e \in Nat
      BY <2>1, <2>2, IndexProperty DEF Whole
    <3>2. ~(f <= e /\ e < f + 1)
      BY <1>4, <3>1
    <3> QED
      BY <1>7, <3>1, <3>2
  <2>3. \A e : Covers(i, e)' <=> Covers(i, e)
    BY <1>5 DEF Covers, LastOf
  <2> QED
    BY <2>2, <2>3 DEF Whole
<1>10. Held' = Held
  BY <1>8, <1>9 DEF Held
<1>11. SameStored
  BY <1>1, <1>5, <1>10, StoredSame
<1> QED
  BY <1>1, <1>6, <1>11, Calm

-----------------------------------------------------------------------------
(* Each step of the page is one of the store, or none. *)

MappedRequest ==
  IF op.name = "set" THEN [name |-> "set", item |-> op.key, val |-> op.val] ELSE op

Serving == op # NoOp /\ op.name \in {"set", "erase"} /\ op.key \in Key

Effected == Stored(op.key) = (IF op.name = "set" THEN op.val ELSE NoValue)

LEMMA PhaseIs ==
  /\ op = NoOp => Phase = "idle"
  /\ op # NoOp /\ pc = "return" => Phase = ret
  /\ op # NoOp /\ pc = "find" => Phase = "pending"
  /\ op # NoOp /\ pc \notin {"return", "find"} => Phase = IF Effected THEN "applied" ELSE "pending"
BY DEF Phase, Effected

LEMMA PhaseNext ==
  /\ op' = NoOp => Phase' = "idle"
  /\ op' # NoOp /\ pc' = "return" => Phase' = ret'
  /\ op' # NoOp /\ pc' = "find" => Phase' = "pending"
  /\ op' # NoOp /\ pc' \notin {"return", "find"} => Phase' = IF Effected' THEN "applied" ELSE "pending"
<1>1. (/\ op = NoOp => Phase = "idle"
       /\ op # NoOp /\ pc = "return" => Phase = ret
       /\ op # NoOp /\ pc = "find" => Phase = "pending"
       /\ op # NoOp /\ pc \notin {"return", "find"} => Phase = IF Effected THEN "applied" ELSE "pending")'
  BY PhaseIs, PTL
<1> QED
  BY <1>1

LEMMA ServingRule == ControlInv /\ op # NoOp => Serving
BY RequestProperty DEF Serving

LEMMA SameStore ==
  ASSUME SameStored
  PROVE  [k \in Key |-> Stored(k)]' = [k \in Key |-> Stored(k)]
BY DEF SameStored

LEMMA SameEffect ==
  ASSUME SameStored, op' = op, Serving
  PROVE  Effected' = Effected
<1>1. Stored(op.key)' = Stored(op.key)
  <2>1. PICK k \in Key : k = op.key
    BY DEF Serving
  <2>2. Stored(k)' = Stored(k)
    BY <2>1 DEF SameStored
  <2>3. k = op'.key
    BY <2>1
  <2> QED
    BY <2>1, <2>2, <2>3 DEF Stored, Versions
<1> QED
  BY <1>1 DEF Effected

\* A step that the store does not see.
LEMMA IdleKV ==
  ASSUME SameStored, op = NoOp, op' = NoOp
  PROVE  UNCHANGED KV!vars
BY SameStore, PhaseIs, PhaseNext DEF KV!vars, MappedRequest

LEMMA GoOnKV ==
  ASSUME SameStored, op' = op, Serving, pc # "return", pc' \notin {"return", "find"}, pc = "find" => ~Effected
  PROVE  UNCHANGED KV!vars
<1>1. op # NoOp
  BY DEF Serving
<1>2. Effected' = Effected
  BY SameEffect
<1>3. Phase' = Phase
  BY <1>1, <1>2, PhaseIs, PhaseNext
<1> QED
  BY <1>3, SameStore DEF KV!vars, MappedRequest

\* The end of a request, by a return or by a restart.
LEMMA RestartKV ==
  ASSUME SameStored, op' = NoOp
  PROVE  KV!Next
<1>1. MappedRequest' = KV!NoRequest /\ Phase' = "idle"
  BY PhaseNext DEF MappedRequest, NoOp, KV!NoRequest
<1> QED
  BY <1>1, SameStore DEF KV!Next, KV!Restart, MappedRequest

\* An error before anything took effect.
LEMMA RefuseKV ==
  ASSUME SameStored, op' = op, Serving, pc # "return", pc = "find" \/ ~Effected,
         pc' = "return", ret' \in KV!Refusal
  PROVE  KV!Next
<1>1. Phase = "pending" /\ Phase' = ret'
  BY PhaseIs, PhaseNext DEF Serving
<1> QED
  BY <1>1, SameStore DEF KV!Next, KV!Refuse, MappedRequest

\* The answer to a request that took effect.
LEMMA DoneKV ==
  ASSUME SameStored, op' = op, Serving, pc \notin {"return", "find"}, Effected, pc' = "return",
         ret' \in {"OK", IF op.name = "set" THEN "REMOVE_FAILED" ELSE "FLASH_OP_FAIL"}
  PROVE  KV!Next
<1>1. Phase = "applied" /\ Phase' = ret'
  BY PhaseIs, PhaseNext DEF Serving
<1>2. MappedRequest' = MappedRequest /\ MappedRequest.name = op.name
  BY DEF MappedRequest
<1> QED
  BY <1>1, <1>2, SameStore DEF KV!Next, KV!Done, MappedRequest

\* A string gets its value.
LEMMA SetKV ==
  ASSUME op' = op, Serving, op.name = "set", Phase = "pending", Phase' \in {"applied", "OK"},
         \A k \in Key : Stored(k)' = IF k = op.key THEN op.val ELSE Stored(k)
  PROVE  KV!Next
<1>1. /\ MappedRequest' = MappedRequest /\ MappedRequest.name = "set"
      /\ MappedRequest.item = op.key /\ MappedRequest.val = op.val
  BY DEF MappedRequest
<1>2. [k \in Key |-> Stored(k)]' = [[k \in Key |-> Stored(k)] EXCEPT ![op.key] = op.val]
  OBVIOUS
<1> QED
  BY <1>1, <1>2 DEF KV!Next, KV!Set, MappedRequest

\* A string is erased.
LEMMA EraseKV ==
  ASSUME op' = op, Serving, op.name = "erase", Phase = "pending", Phase' = "applied",
         Stored(op.key) # NoValue,
         \A k \in Key : Stored(k)' = IF k = op.key THEN NoValue ELSE Stored(k)
  PROVE  KV!Next
<1>1. MappedRequest' = MappedRequest /\ MappedRequest.name = "erase" /\ MappedRequest.key = op.key
  BY DEF MappedRequest
<1>2. [k \in Key |-> Stored(k)]' = [[k \in Key |-> Stored(k)] EXCEPT ![op.key] = NoValue]
  OBVIOUS
<1>3. op.key \in Key /\ [k \in Key |-> k][op.key] = op.key /\ [k \in Key |-> Stored(k)][op.key] # NoValue
  BY DEF Serving
<1> QED
  BY <1>1, <1>2, <1>3 DEF KV!Next, KV!Erase, MappedRequest

\* There is no string with the key.
LEMMA NotFoundKV ==
  ASSUME SameStored, op' = op, Serving, op.name = "erase", Phase = "pending", Phase' = "NOT_FOUND",
         Stored(op.key) = NoValue
  PROVE  KV!Next
<1>1. MappedRequest' = MappedRequest /\ MappedRequest.name = "erase" /\ MappedRequest.key = op.key
  BY DEF MappedRequest
<1> QED
  BY <1>1, SameStore DEF KV!Next, KV!NotFound, MappedRequest

LEMMA BeginKV == ASSUME StringInv, Begin PROVE KV!Next
<1>1. /\ pc = "idle" /\ op = NoOp /\ pc' = "find" /\ UNCHANGED flashVars /\ FlashInv
      /\ op'.name \in {"set", "erase"}
  BY DEF Begin, StringInv, ControlInv
<1>2. SameStored
  BY <1>1, FlashStored
<1>3. op' # NoOp
  BY <1>1 DEF NoOp
<1>4. Phase = "idle" /\ Phase' = "pending"
  BY <1>1, <1>3, PhaseIs, PhaseNext
<1>5. MappedRequest' \in KV!Request
  <2>1. ASSUME NEW k \in Key, NEW v \in String, op' = [name |-> "set", key |-> k, val |-> v]
        PROVE  MappedRequest' \in KV!Request
    <3>1. MappedRequest' = [name |-> "set", item |-> k, val |-> v]
      BY <2>1 DEF MappedRequest
    <3> QED
      BY <3>1 DEF KV!Request
  <2>2. ASSUME NEW k \in Key, op' = [name |-> "erase", key |-> k]
        PROVE  MappedRequest' \in KV!Request
    <3>1. MappedRequest' = [name |-> "erase", key |-> [n \in Key |-> n][k]]
      BY <2>2 DEF MappedRequest
    <3> QED
      BY <3>1 DEF KV!Request
  <2> QED
    BY <2>1, <2>2 DEF Begin
<1> QED
  BY <1>2, <1>4, <1>5, SameStore DEF KV!Next, KV!Begin, MappedRequest

\* A set has no effect before the last word of its item.
LEMMA NotEffected ==
  StringInv /\ ValueInv /\ Setting /\ pc \notin {"written", "entered"} => ~Effected
BY NotStoredYet DEF Effected

\* A value that is there already is not written again: the store has it.
LEMMA FindForSetKV ==
  ASSUME StringInv, StringInv', ValueInv', FindForSet
  PROVE  KV!Next \/ UNCHANGED KV!vars
<1>1. pc = "find" /\ Quiet /\ ~Failed /\ op.name = "set" /\ op' = op /\ UNCHANGED <<flashVars, pageVars>>
  BY DEF FindForSet, Quiet, Failed
<1>2. QuietInv /\ FlashInv /\ ControlInv /\ Held = Heads
  BY <1>1, QuietForm
<1>3. Serving /\ SameStored
  BY <1>1, <1>2, ServingRule, FlashStored DEF ControlInv
<1>4. Phase = "pending"
  BY <1>1, <1>3, PhaseIs DEF Serving
<1>5. CASE Unmodified(Find(op.key), op.val)
  <2>1. pc' = "return" /\ ret' = "OK"
    BY <1>5 DEF FindForSet, Respond
  <2>2. Phase' = "OK"
    BY <1>1, <1>3, <2>1, PhaseNext DEF Serving
  <2>3. Find(op.key) \in Held /\ entryData[Find(op.key)].key = op.key /\ entryData[Find(op.key)].val = op.val
    BY <1>1, <1>2, <1>5, FindProperty DEF Unmodified
  <2>4. Newest(Find(op.key))
    <3> DEFINE i == Find(op.key)
    <3>1. \A g \in Held : entryData[g].key = entryData[i].key => g = i
      BY <1>2, <2>3 DEF QuietInv
    <3>2. i <= i
      BY <1>2, <2>3, HeldProperty
    <3> QED
      BY <3>1, <3>2 DEF Newest
  <2>5. Stored(op.key) = op.val
    <3>1. StoredRule
      BY <1>2, StoredValue
    <3> QED
      BY <1>3, <2>3, <2>4, <3>1 DEF StoredRule, Serving
  <2>6. \A k \in Key : Stored(k)' = IF k = op.key THEN op.val ELSE Stored(k)
    BY <1>3, <2>5 DEF SameStored
  <2> QED
    BY <1>1, <1>3, <1>4, <2>2, <2>6, SetKV
<1>6. CASE ~Unmodified(Find(op.key), op.val)
  <2>1. pc' = "write" /\ Setting'
    BY <1>1, <1>6 DEF FindForSet, Setting
  <2>2. ~Effected'
    <3>1. (StringInv /\ ValueInv /\ Setting /\ pc \notin {"written", "entered"} => ~Effected)'
      BY NotEffected, PTL
    <3> QED
      BY <2>1, <3>1
  <2> QED
    BY <1>1, <1>3, <2>1, <2>2, SameEffect, GoOnKV
<1> QED
  BY <1>5, <1>6

\* NOT_FOUND is answered when there is no string with the key.
LEMMA FindForEraseKV == ASSUME StringInv, FindForErase PROVE KV!Next \/ UNCHANGED KV!vars
<1>1. pc = "find" /\ Quiet /\ ~Failed /\ op.name = "erase" /\ op' = op /\ UNCHANGED flashVars
  BY DEF FindForErase, Quiet, Failed, EraseEntryAndSpan
<1>2. QuietInv /\ FlashInv /\ ControlInv /\ Held = Heads /\ StoredRule
  BY <1>1, QuietForm, StoredValue
<1>3. Serving /\ SameStored /\ op.key \in Key
  BY <1>1, <1>2, ServingRule, FlashStored DEF ControlInv, Serving
<1>4. Phase = "pending"
  BY <1>1, <1>3, PhaseIs DEF Serving
<1>5. CASE Find(op.key) = INVALID_ENTRY
  <2>1. pc' = "return" /\ ret' = "NOT_FOUND"
    BY <1>5 DEF FindForErase, Respond
  <2>2. Phase' = "NOT_FOUND"
    BY <1>1, <1>3, <2>1, PhaseNext DEF Serving
  <2>3. \A h \in Held : entryData[h].key # op.key
    BY <1>1, <1>2, <1>5, FindProperty
  <2>4. Stored(op.key) = NoValue
    BY <1>2, <1>3, <2>3 DEF StoredRule
  <2> QED
    BY <1>1, <1>3, <1>4, <2>2, <2>4, NotFoundKV
<1>6. CASE Find(op.key) # INVALID_ENTRY
  <2>1. pc' = "alter"
    BY <1>6 DEF FindForErase, EraseEntryAndSpan, Alter
  <2>2. PICK h \in Held : entryData[h].key = op.key
    BY <1>1, <1>2, <1>6, FindProperty
  <2>3. PICK g \in Held : entryData[g].key = op.key /\ Newest(g)
    BY <1>2, <1>3, <2>2 DEF StoredRule
  <2>4. Stored(op.key) = entryData[g].val /\ entryData[g].val \in String
    BY <1>2, <1>3, <2>3, HeldProperty DEF StoredRule
  <2>5. ~Effected
    BY <1>1, <2>4, StringAssumption DEF Effected
  <2> QED
    BY <1>1, <1>3, <2>1, <2>5, GoOnKV
<1> QED
  BY <1>5, <1>6

\* Page::writeItem() begins, or gives up.
LEMMA TryWriteKV == ASSUME StringInv, ValueInv, TryWrite PROVE KV!Next \/ UNCHANGED KV!vars
<1>1. pc = "write" /\ op' = op /\ UNCHANGED flashVars /\ FlashInv /\ ControlInv /\ op # NoOp /\ op.name = "set"
  BY DEF TryWrite, StringInv, ControlInv
<1>2. Serving /\ SameStored /\ ~Effected
  BY <1>1, ServingRule, FlashStored, NotEffected DEF Setting
<1>3. CASE pc' = "return"
  <2>1. ret' \in {"INVALID_STATE", "NOT_ENOUGH_SPACE"}
    BY <1>3 DEF TryWrite, Respond
  <2> QED
    BY <1>1, <1>2, <1>3, <2>1, RefuseKV DEF KV!Refusal
<1>4. CASE pc' # "return"
  <2>1. pc' \in {"markFull", "item"}
    BY <1>4 DEF TryWrite, Respond
  <2> QED
    BY <1>1, <1>2, <2>1, GoOnKV
<1> QED
  BY <1>3, <1>4

LEMMA MarkFullKV == ASSUME StringInv, StringInv', ValueInv, MarkFull PROVE KV!Next
<1>1. /\ pc = "markFull" /\ op' = op /\ FlashInv /\ FlashInv' /\ ControlInv /\ op # NoOp /\ op.name = "set"
      /\ pc' = "return" /\ ret' = "NOT_ENOUGH_SPACE" /\ UNCHANGED <<entryTable, entryData>>
  BY DEF MarkFull, Respond, StringInv, ControlInv
<1>2. Held' = Held
  BY <1>1 DEF Held, Heads, Whole, Covers, LastOf
<1>3. Serving /\ SameStored /\ ~Effected
  BY <1>1, <1>2, ServingRule, StoredSame, NotEffected DEF Setting
<1> QED
  BY <1>1, <1>3, RefuseKV DEF KV!Refusal

LEMMA WriteDataKV == ASSUME StringInv, ValueInv, WriteData PROVE KV!Next \/ UNCHANGED KV!vars
<1>1. pc = "item" /\ pc' = "alter" /\ op' = op /\ ControlInv /\ op # NoOp
  <2>1. pc = "item" /\ Writing /\ ~Failed
    BY DEF WriteData, Writing, Failed
  <2> QED
    BY <2>1, WritingProperty DEF WriteData, Alter, StringInv, RamInv
<1> QED
  BY <1>1, ServingRule, WriteDataValue, GoOnKV

\* Steps of a request that only RAM sees.
LEMMA EnteredKV == ASSUME StringInv, Entered PROVE KV!Next \/ UNCHANGED KV!vars
<1>1. pc = "entered" /\ pc' \in {"item", "written"} /\ op' = op /\ UNCHANGED flashVars /\ ~Failed
  BY DEF Entered, Failed
<1>2. FlashInv /\ ControlInv /\ Writing /\ WriteInv
  BY <1>1 DEF StringInv, RamInv, AlterInv, Writing, Entering
<1>3. Serving
  BY <1>2, WritingProperty, ServingRule
<1> QED
  BY <1>1, <1>2, <1>3, FlashStored, GoOnKV

\* The set has taken effect when the older version is erased.
LEMMA EraseOldKV == ASSUME StringInv, EraseOld PROVE KV!Next \/ UNCHANGED KV!vars
<1>1. pc = "written" /\ op' = op /\ UNCHANGED flashVars
  BY DEF EraseOld, EraseEntryAndSpan
<1>2. FlashInv /\ ControlInv /\ op.name = "set" /\ op # NoOp
  BY <1>1, WrittenItem DEF NoOp
<1>3. Serving /\ SameStored /\ Effected
  BY <1>1, <1>2, ServingRule, FlashStored, WrittenStored DEF Effected
<1>4. CASE ~found
  <2>1. pc' = "return" /\ ret' = "OK"
    BY <1>4 DEF EraseOld, Respond
  <2> QED
    BY <1>1, <1>3, <2>1, DoneKV
<1>5. CASE found
  <2>1. pc' = "alter"
    BY <1>5 DEF EraseOld, EraseEntryAndSpan, Alter
  <2> QED
    BY <1>1, <1>3, <2>1, GoOnKV
<1> QED
  BY <1>4, <1>5

\* So has a set whose older version is erased, and an erase when its item is.
LEMMA ErasedKV == ASSUME StringInv, ValueInv, Erased PROVE KV!Next \/ UNCHANGED KV!vars
<1>1. pc = "erased" /\ op' = op /\ UNCHANGED flashVars /\ ~Failed
  BY DEF Erased, Failed
<1>2. FlashInv /\ ControlInv /\ RamInv /\ Erasing /\ EraseInv /\ altering.end = altering.begin /\ altering.span > 0
  BY <1>1 DEF StringInv, RamInv, AlterInv, EraseInv, Erasing
<1>3. SameStored
  BY <1>1, <1>2, FlashStored
<1>4. CASE op = NoOp
  BY <1>1, <1>3, <1>4, IdleKV
<1>5. CASE op # NoOp
  <2>1. Serving /\ pc' = "return" /\ ret' = "OK"
    BY <1>2, <1>5, ServingRule DEF Erased, Respond
  <2>2. Effected
    <3>1. CASE op.name = "set"
      BY <1>2, <3>1 DEF ValueInv, NewThere, Effected
    <3>2. CASE op.name = "erase"
      <4>1. entryTable[altering.begin] = "ERASED"
        <5>1. altering.begin \in Index /\ altering.begin \in Nat /\ altering.span \in Nat
          BY <1>2 DEF EraseInv, ControlInv
        <5>2. altering.end <= altering.begin /\ altering.begin < altering.begin + altering.span
          BY <1>2, <5>1
        <5> QED
          BY <1>2, <5>1, <5>2 DEF EraseInv
      <4>2. \A h \in Held : entryData[h].key # op.key
        BY <1>2, <3>2, <4>1 DEF ValueInv, OneErased, Held, Heads
      <4>3. Stored(op.key) = NoValue
        BY <1>2, <2>1, <4>2, StoredValue DEF StoredRule, Serving
      <4> QED
        BY <3>2, <4>3 DEF Effected
    <3> QED
      BY <2>1, <3>1, <3>2 DEF Serving
  <2> QED
    BY <1>1, <1>3, <2>1, <2>2, DoneKV
<1> QED
  BY <1>4, <1>5

\* A word of the bitmap.
LEMMA AlterWordKV ==
  ASSUME StringInv, StringInv', ValueInv, AlterWord
  PROVE  ValueInv' /\ (KV!Next \/ UNCHANGED KV!vars)
<1>1. pc = "alter" /\ ~Failed /\ ControlInv /\ (Erasing \/ Entering \/ Clearing)
  BY DEF AlterWord, Failed, StringInv, RamInv, AlterInv
<1>2. CASE Entering
  <2>1. /\ ValueInv' /\ op' = op /\ Setting /\ pc' \in {"alter", "entered"}
        /\ \/ SameStored
           \/ Stored(op.key)' = op.val /\ \A k \in Key \ {op.key} : Stored(k)' = Stored(k)
    BY <1>2, AlterEnteringValue
  <2>2. op.name = "set" /\ op # NoOp /\ Serving
    BY <1>1, <2>1, RequestProperty, ServingRule DEF Setting
  <2>3. CASE SameStored
    BY <1>1, <2>1, <2>2, <2>3, GoOnKV
  <2>4. CASE Stored(op.key)' = op.val /\ \A k \in Key \ {op.key} : Stored(k)' = Stored(k)
    <3>1. Phase = "pending"
      BY <1>1, <2>1, <2>2, NotEffected, PhaseIs
    <3>2. Effected'
      BY <2>1, <2>2, <2>4 DEF Effected
    <3>3. Phase' = "applied"
      BY <2>1, <2>2, <3>2, PhaseNext
    <3>4. \A k \in Key : Stored(k)' = IF k = op.key THEN op.val ELSE Stored(k)
      BY <2>1, <2>4
    <3> QED
      BY <2>1, <2>2, <3>1, <3>3, <3>4, SetKV
  <2> QED
    BY <2>1, <2>3, <2>4
<1>3. CASE Erasing
  <2>1. /\ ValueInv' /\ op' = op /\ pc' \in {"alter", "erased"}
        /\ \/ SameStored
           \/ /\ op.name = "erase" /\ Stored(op.key) # NoValue /\ Stored(op.key)' = NoValue
              /\ \A k \in Key \ {op.key} : Stored(k)' = Stored(k)
    BY <1>3, AlterErasingValue
  <2>2. CASE SameStored
    <3>1. CASE op = NoOp
      BY <2>1, <2>2, <3>1, IdleKV
    <3>2. CASE op # NoOp
      BY <1>1, <2>1, <2>2, <3>2, ServingRule, GoOnKV
    <3> QED
      BY <2>1, <3>1, <3>2
  <2>3. CASE /\ op.name = "erase" /\ Stored(op.key) # NoValue /\ Stored(op.key)' = NoValue
             /\ \A k \in Key \ {op.key} : Stored(k)' = Stored(k)
    <3>1. op # NoOp /\ Serving
      BY <1>1, <2>3, RequestProperty, ServingRule
    <3>2. ~Effected /\ Effected'
      BY <2>1, <2>3 DEF Effected
    <3>3. Phase = "pending" /\ Phase' = "applied"
      BY <1>1, <2>1, <3>1, <3>2, PhaseIs, PhaseNext
    <3>4. \A k \in Key : Stored(k)' = IF k = op.key THEN NoValue ELSE Stored(k)
      BY <2>1, <2>3
    <3> QED
      BY <2>1, <2>3, <3>1, <3>3, <3>4, EraseKV
  <2> QED
    BY <2>1, <2>2, <2>3
<1>4. CASE Clearing
  BY <1>4, AlterClearingValue, IdleKV
<1> QED
  BY <1>1, <1>2, <1>3, <1>4

\* What a write that is cut off leaves does not count.
LEMMA CutOffStored ==
  ASSUME StringInv, entryData' \in CutOffData, header' = header, entryTable' = entryTable
  PROVE  SameStored
<1>1. CASE pc = "item"
  BY <1>1, WriteDataItems DEF CutOffData
<1>2. CASE pc # "item"
  <2>1. UNCHANGED flashVars /\ FlashInv
    BY <1>2 DEF CutOffData, flashVars, StringInv
  <2> QED
    BY <2>1, FlashStored
<1> QED
  BY <1>1, <1>2

LEMMA EndKV == ASSUME StringInv, Return \/ PowerFailure PROVE KV!Next
<1>1. CASE Return
  <2>1. UNCHANGED flashVars /\ FlashInv /\ op' = NoOp
    BY <1>1 DEF Return, Restart, StringInv
  <2> QED
    BY <2>1, FlashStored, RestartKV
<1>2. CASE PowerFailure
  <2>1. entryData' \in CutOffData /\ header' = header /\ entryTable' = entryTable /\ op' = NoOp
    BY <1>2 DEF PowerFailure, Restart
  <2> QED
    BY <2>1, CutOffStored, RestartKV
<1> QED
  BY <1>1, <1>2

\* An error is answered: REMOVE_FAILED if the new value is there.
LEMMA FlashErrorKV == ASSUME StringInv, ValueInv, FlashError PROVE KV!Next
<1>1. /\ op # NoOp /\ op' = op /\ pc \in {"item", "alter", "markFull"} /\ pc' = "return" /\ ~Failed
      /\ ret' = IF op.name = "set" /\ altering.state = "ERASED" THEN "REMOVE_FAILED" ELSE "FLASH_OP_FAIL"
      /\ ControlInv /\ RamInv
  BY DEF FlashError, Respond, Failed, StringInv
<1>2. Serving /\ SameStored
  BY <1>1, ServingRule, CutOffStored DEF FlashError
<1>3. CASE Setting
  <2>1. ~Effected
    BY <1>1, <1>3, NotEffected
  <2>2. altering.state # "ERASED"
    <3>1. CASE pc \in {"item", "markFull"}
      BY <3>1 DEF ValueInv, NoneAltered
    <3>2. CASE pc = "alter"
      <4>1. Entering
        BY <1>3, <3>2 DEF Setting, Writing
      <4> QED
        BY <1>1, <3>2, <4>1 DEF RamInv, AlterInv
    <3> QED
      BY <1>1, <3>1, <3>2
  <2> QED
    BY <1>1, <1>2, <2>1, <2>2, RefuseKV DEF KV!Refusal
<1>4. CASE ~Setting
  <2>1. pc = "alter" /\ Erasing /\ altering.state = "ERASED"
    <3>1. pc # "item"
      BY <1>1, <1>4, RequestProperty DEF Setting, Writing, RamInv, WriteInv
    <3>2. pc # "markFull"
      BY <1>1, <1>4 DEF Setting, ControlInv
    <3>3. ~Entering
      BY <1>4 DEF Setting, Writing, StringInv, RamInv, WriteInv, Failed, Entering
    <3>4. ~Clearing
      BY <1>1 DEF ControlInv
    <3> QED
      BY <1>1, <3>1, <3>2, <3>3, <3>4 DEF RamInv, AlterInv
  <2>2. CASE op.name = "set"
    <3>1. Effected
      BY <2>1, <2>2 DEF ValueInv, NewThere, Effected
    <3> QED
      BY <1>1, <1>2, <2>1, <2>2, <3>1, DoneKV
  <2>3. CASE op.name = "erase"
    <3>1. CASE Effected
      BY <1>1, <1>2, <2>3, <3>1, DoneKV
    <3>2. CASE ~Effected
      BY <1>1, <1>2, <2>3, <3>2, RefuseKV DEF KV!Refusal
    <3> QED
      BY <3>1, <3>2
  <2> QED
    BY <1>2, <2>2, <2>3 DEF Serving
<1> QED
  BY <1>3, <1>4

\* load() serves no request, and what it does to flash AlterWord does.
LEMMA LoadKV == ASSUME StringInv, Load PROVE UNCHANGED KV!vars
<1>1. pc \in {"load", "half", "scan"} /\ op' = op /\ UNCHANGED flashVars
  BY DEF Load, LoadTable, ClearHalfWritten, NoneHalfWritten, ScanSkip, ScanIncomplete, ScanComplete,
     ScanDone, EraseEntryAndSpan
<1>2. op = NoOp /\ FlashInv
  BY <1>1 DEF StringInv, ControlInv
<1> QED
  BY <1>1, <1>2, FlashStored, IdleKV

LEMMA LoadValue == ASSUME StringInv, ValueInv, Load PROVE ValueInv'
BY LoadTableValue, ClearHalfWrittenValue, NoneHalfWrittenValue, ScanSkipValue, ScanIncompleteValue,
   ScanCompleteValue DEF Load

\* A blank page has no string.
LEMMA InitKV == ASSUME Init PROVE KV!Init /\ ValueInv
<1>1. FlashInv /\ op = NoOp
  BY InitInv DEF StringInv, Init
<1>2. Held = {}
  BY DEF Init, Held, Heads
<1>3. \A k \in Key : Stored(k) = NoValue
  BY <1>1, <1>2, StoredValue DEF StoredRule
<1>4. Phase = "idle" /\ MappedRequest = KV!NoRequest
  BY <1>1, PhaseIs DEF MappedRequest, NoOp, KV!NoRequest
<1>5. KV!Init
  BY <1>3, <1>4 DEF KV!Init, MappedRequest
<1>6. ValueInv
  BY DEF Init, Unaltered, ValueInv, OldOther, NewThere, NewerThere, OneErased, NoneCleared, NoneAltered,
     Setting, Writing, Entering, Erasing, Clearing
<1> QED
  BY <1>5, <1>6

\* Nothing happens.
LEMMA StoreStutter == ASSUME StringInv, ValueInv, UNCHANGED vars PROVE ValueInv' /\ UNCHANGED KV!vars
<1>1. /\ UNCHANGED flashVars /\ FlashInv /\ op' = op /\ pc' = pc /\ ret' = ret /\ altering' = altering
      /\ entryData' = entryData /\ mNextFreeEntry' = mNextFreeEntry /\ written' = written
  BY DEF vars, flashVars, pageVars, StringInv
<1>2. SameStored /\ Held' = Held /\ Heads' = Heads /\ \A h, e : Covers(h, e)' <=> Covers(h, e)
  BY <1>1, FlashStored, FlashSame
<1>3. /\ (Erasing' <=> Erasing) /\ (Entering' <=> Entering) /\ (Clearing' <=> Clearing)
      /\ (Writing' <=> Writing) /\ (Setting' <=> Setting) /\ Fresh' = Fresh
  BY <1>1 DEF Erasing, Entering, Clearing, Writing, Setting, Fresh, Start
<1>4. ControlInv
  BY DEF StringInv
<1>5. CASE op = NoOp
  <2>1. op.name = "none"
    BY <1>5 DEF NoOp
  <2>2. ValueInv'
    BY <1>1, <1>2, <1>3, <2>1 DEF ValueInv, OldOther, NewThere, NewerThere, OneErased, NoneCleared, NoneAltered,
       Setting
  <2> QED
    BY <1>1, <1>2, <1>5, <2>2, IdleKV
<1>6. CASE op # NoOp
  <2>1. Serving /\ Effected' = Effected
    BY <1>1, <1>2, <1>4, <1>6, ServingRule, SameEffect
  <2>2. NewThere'
    <3> SUFFICES ASSUME op.name = "set", Erasing PROVE Effected'
      BY <1>1, <1>3 DEF NewThere, Effected
    <3> QED
      BY <2>1 DEF ValueInv, NewThere, Effected
  <2>3. OldOther' /\ NewerThere' /\ OneErased' /\ NoneCleared' /\ NoneAltered'
    BY <1>1, <1>2, <1>3 DEF ValueInv, OldOther, NewerThere, OneErased, NoneCleared, NoneAltered
  <2>4. Phase' = Phase
    BY <1>1, <1>6, <2>1, PhaseIs, PhaseNext
  <2> QED
    BY <1>1, <1>2, <2>2, <2>3, <2>4, SameStore DEF ValueInv, KV!vars, MappedRequest
<1> QED
  BY <1>5, <1>6

\* Every step is one of the store or none.
LEMMA StringNextKV ==
  ASSUME StringInv, StringInv', ValueInv, [Next]_vars
  PROVE  ValueInv' /\ (KV!Next \/ UNCHANGED KV!vars)
<1>1. CASE Begin
  BY <1>1, BeginValue, BeginKV
<1>2. CASE FindForSet
  BY <1>2, FindForSetValue, FindForSetKV
<1>3. CASE FindForErase
  BY <1>3, FindForEraseValue, FindForEraseKV
<1>4. CASE TryWrite
  BY <1>4, TryWriteValue, TryWriteKV
<1>5. CASE MarkFull
  BY <1>5, MarkFullValue, MarkFullKV
<1>6. CASE WriteData
  BY <1>6, WriteDataValue, WriteDataKV
<1>7. CASE Entered
  BY <1>7, EnteredValue, EnteredKV
<1>8. CASE EraseOld
  BY <1>8, EraseOldValue, EraseOldKV
<1>9. CASE Erased
  BY <1>9, ErasedValue, ErasedKV
<1>10. CASE AlterWord
  BY <1>10, AlterWordKV
<1>11. CASE Return \/ PowerFailure
  BY <1>11, ReturnValue, PowerFailureValue, EndKV
<1>12. CASE Load
  BY <1>12, LoadValue, LoadKV
<1>13. CASE FlashError
  BY <1>13, FlashErrorValue, FlashErrorKV
<1>14. CASE UNCHANGED vars
  BY <1>14, StoreStutter
<1> QED
  BY <1>1, <1>2, <1>3, <1>4, <1>5, <1>6, <1>7, <1>8, <1>9, <1>10, <1>11, <1>12, <1>13, <1>14 DEF Next, Request

(***************************************************************************)
(* A string is set and erased in one step, although its entries and their  *)
(* states take many: for pages and words of any size and strings of any    *)
(* length, a power failure or an error leaves the old string or the new    *)
(* one, whole, and what load() clears and erases after it is none that     *)
(* counts.                                                                 *)
(***************************************************************************)
THEOREM StringsRefined == ASSUME ~ContinueAfterFailure PROVE Spec => StringsImplemented
<1>1. Init => KV!Init /\ ValueInv
  BY InitKV
<1>2. StringInv /\ StringInv' /\ ValueInv /\ [Next]_vars => ValueInv' /\ [KV!Next]_(KV!vars)
  BY StringNextKV
<1> QED
  BY <1>1, <1>2, StringsHold, PTL DEF Spec, StringsImplemented, KV!Spec

=============================================================================
