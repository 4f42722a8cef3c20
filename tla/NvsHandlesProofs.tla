--------------------------- MODULE NvsHandlesProofs ---------------------------
(***************************************************************************)
(* Proofs of the safety properties of NvsHandlesProperties.                *)
(***************************************************************************)
EXTENDS NvsHandlesProperties, TLAPS

USE DEF Index, Number, NONE

(***************************************************************************)
(* What is left of a deleted object, or of one made invalid, is none of    *)
(* the objects: the index in it is NONE.                                   *)
(***************************************************************************)
LEMMA DeletedNoObject == Deleted \notin Object
<1> SUFFICES ASSUME Deleted \in Object PROVE FALSE
  OBVIOUS
<1>1. Deleted.mNsIndex \in Index
  BY DEF Object
<1> QED
  BY <1>1 DEF Deleted

LEMMA InvalidNotDeleted == Invalid # Deleted
<1>1. Invalid.freed /\ ~Deleted.freed
  BY DEF Invalid, Deleted
<1> QED
  BY <1>1

(***************************************************************************)
(* An object is one of those there may be, and what the deletion of the    *)
(* storage of p does to it changes nothing in it but freed.                *)
(***************************************************************************)
LEMMA FreedObject ==
  ASSUME NEW o \in Object, NEW b \in BOOLEAN
  PROVE  /\ [o EXCEPT !.freed = b] \in Object
         /\ [o EXCEPT !.freed = b].valid = o.valid
         /\ [o EXCEPT !.freed = b].freed = b
         /\ [o EXCEPT !.freed = b].mStoragePtr = o.mStoragePtr
         /\ [o EXCEPT !.freed = b].mNsIndex = o.mNsIndex
  BY DEF Object

\* What is left of a deleted or an invalidated object has the members of one.
LEMMA FreedBlank ==
  ASSUME NEW o \in {Deleted, Invalid}
  PROVE  [o EXCEPT !.freed = o.freed] = o
<1> DEFINE Blank == [valid : BOOLEAN, mReadOnly : BOOLEAN, mNsIndex : {NONE}, mStoragePtr : {"none"},
                     freed : BOOLEAN]
<1>1. Deleted \in Blank
  BY DEF Deleted
<1>2. Invalid \in Blank
  BY DEF Invalid
<1>3. \A x \in Blank : [x EXCEPT !.freed = x.freed] = x
  OBVIOUS
<1> HIDE DEF Blank
<1> QED
  BY <1>1, <1>2, <1>3

WithoutStorage(o, p) == [o EXCEPT !.freed = @ \/ o.mStoragePtr = p]

LEMMA KeptObject ==
  ASSUME NEW p \in Partition, NEW o \in Object \cup {Deleted, Invalid}
  PROVE  /\ WithoutStorage(o, p) \in Object \cup {Deleted, Invalid}
         /\ WithoutStorage(o, p) = Deleted <=> o = Deleted
         /\ WithoutStorage(o, p).valid = o.valid
         /\ WithoutStorage(o, p).mStoragePtr = o.mStoragePtr
         /\ WithoutStorage(o, p).mNsIndex = o.mNsIndex
         /\ ~o.freed /\ o.mStoragePtr # p => WithoutStorage(o, p) = o
<1>1. CASE o = Deleted
  <2>1. (o.freed \/ o.mStoragePtr = p) = FALSE
    BY <1>1, LabelAssumption DEF Deleted
  <2>2. [o EXCEPT !.freed = FALSE] = o
    <3>1. o.freed = FALSE
      BY <1>1 DEF Deleted
    <3> QED
      BY <1>1, <3>1, FreedBlank
  <2>3. WithoutStorage(o, p) = o
    BY <1>1, <2>1, <2>2 DEF WithoutStorage
  <2> QED
    BY <1>1, <2>3
<1>2. CASE o = Invalid
  <2>1. (o.freed \/ o.mStoragePtr = p) = TRUE
    BY <1>2 DEF Invalid
  <2>2. [o EXCEPT !.freed = TRUE] = o
    <3>1. o.freed = TRUE
      BY <1>2 DEF Invalid
    <3> QED
      BY <1>2, <3>1, FreedBlank
  <2>3. WithoutStorage(o, p) = o
    BY <1>2, <2>1, <2>2 DEF WithoutStorage
  <2> QED
    BY <1>2, <2>3, InvalidNotDeleted
<1>3. CASE o \in Object
  <2> DEFINE b == o.freed \/ o.mStoragePtr = p
  <2>1. b \in BOOLEAN
    OBVIOUS
  <2>2. WithoutStorage(o, p) = [o EXCEPT !.freed = b]
    BY DEF WithoutStorage
  <2>3. ~o.freed /\ o.mStoragePtr # p => b = FALSE
    OBVIOUS
  <2>4. o.freed = FALSE => [o EXCEPT !.freed = FALSE] = o
    BY <1>3 DEF Object
  <2>5. o.freed \in BOOLEAN
    BY <1>3 DEF Object
  <2> HIDE DEF b
  <2> QED
    BY <1>3, <2>1, <2>2, <2>3, <2>4, <2>5, FreedObject, DeletedNoObject
<1> QED
  BY <1>1, <1>2, <1>3

(***************************************************************************)
(* A valid object has not been deleted, and leads to a partition and to an *)
(* index in it.                                                            *)
(***************************************************************************)
LEMMA ValidObject ==
  ASSUME TypeOK, NEW h \in Handle, simple[h].valid
  PROVE  /\ simple[h] \in Object
         /\ simple[h].mStoragePtr \in Partition
         /\ simple[h].mNsIndex \in Index
<1>1. simple[h] # Deleted /\ simple[h] # Invalid
  BY DEF Deleted, Invalid
<1> QED
  BY <1>1 DEF TypeOK, Object

LEMMA OpenedNamespace ==
  ASSUME NEW pn \in Opened
  PROVE  pn[1] \in Partition /\ pn[2] \in Name
  BY OpenedAssumption

LEMMA InitTypeOK == Init => TypeOK
  BY MaxOpensAssumption DEF Init, TypeOK, NoEntries, NoItems, Nothing

\* Flash as it may be.
FlashTypeOK ==
  /\ entry \in [Partition -> [Name -> Index \cup {NONE}]]
  /\ item \in [Partition -> [Index -> [Key -> Value \cup {NoValue}]]]
  /\ cutOff \in SUBSET Partition

(***************************************************************************)
(* What esp_partition_erase_range() leaves: nothing when it is completed,  *)
(* and some of what there was when it is not.                              *)
(***************************************************************************)
LEMMA Erased ==
  ASSUME TypeOK, NEW p \in Partition, EraseRange(p)
  PROVE  /\ FlashTypeOK'
         /\ \A q \in Partition \ {p} :
              entry'[q] = entry[q] /\ item'[q] = item[q] /\ (q \in cutOff' <=> q \in cutOff)
         /\ \A n \in Name : entry'[p][n] \in {entry[p][n], NONE}
         /\ \A i \in Index, k \in Key : item'[p][i][k] \in {item[p][i][k], NoValue}
         /\ \/ p \in cutOff' /\ cutOff' = cutOff \cup {p}
            \/ cutOff' = cutOff \ {p} /\ entry'[p] = NoEntries /\ item'[p] = NoItems
<1>1. CASE EraseAllSectors(p)
  BY <1>1 DEF EraseAllSectors, FlashTypeOK, TypeOK, NoEntries, NoItems, Nothing
<1>2. CASE EraseSomeSectors(p)
  <2>1. PICK names \in SUBSET NamesOn(p), left \in SUBSET ItemsOn(p) :
          /\ entry' = [entry EXCEPT ![p] = [n \in Name |-> IF n \in names THEN @[n] ELSE NONE]]
          /\ item' = [item EXCEPT ![p] =
               [i \in Index |-> [k \in Key |-> IF <<i, k>> \in left THEN @[i][k] ELSE NoValue]]]
    BY <1>2 DEF EraseSomeSectors
  <2>2. /\ entry'[p] = [n \in Name |-> IF n \in names THEN entry[p][n] ELSE NONE]
        /\ entry' \in [Partition -> [Name -> Index \cup {NONE}]]
        /\ \A q \in Partition \ {p} : entry'[q] = entry[q]
    BY <2>1 DEF TypeOK
  <2> DEFINE kept == [i \in Index |-> [k \in Key |-> IF <<i, k>> \in left THEN item[p][i][k] ELSE NoValue]]
  <2>3. /\ \A i \in Index, k \in Key : item'[p][i][k] \in {item[p][i][k], NoValue}
        /\ item' \in [Partition -> [Index -> [Key -> Value \cup {NoValue}]]]
        /\ \A q \in Partition \ {p} : item'[q] = item[q]
    <3>1. item' = [item EXCEPT ![p] = kept]
      BY <2>1
    <3>2. item[p] \in [Index -> [Key -> Value \cup {NoValue}]]
      BY DEF TypeOK
    <3>3. kept \in [Index -> [Key -> Value \cup {NoValue}]]
      BY <3>2
    <3>4. \A i \in Index, k \in Key : kept[i][k] \in {item[p][i][k], NoValue}
      OBVIOUS
    <3>5. item \in [Partition -> [Index -> [Key -> Value \cup {NoValue}]]]
      BY DEF TypeOK
    <3> HIDE DEF kept
    <3> QED
      BY <3>1, <3>3, <3>4, <3>5
  <2>4. cutOff' = cutOff \cup {p}
    BY <1>2 DEF EraseSomeSectors
  <2>5. cutOff' \in SUBSET Partition
    BY <2>4 DEF TypeOK
  <2> QED
    BY <2>2, <2>3, <2>4, <2>5 DEF FlashTypeOK
<1> QED
  BY <1>1, <1>2 DEF EraseRange

LEMMA ForgetTypeOK ==
  ASSUME TypeOK, Forget, FlashTypeOK'
  PROVE  TypeOK'
  BY MaxOpensAssumption DEF Forget, TypeOK, FlashTypeOK, NoEntries

LEMMA CloseTypeOK ==
  ASSUME TypeOK, NEW p \in Partition, CloseHandlesAndDeinit(p), FlashTypeOK'
  PROVE  TypeOK'
<1>1. simple' \in [Handle -> Object \cup {Deleted, Invalid}]
  <2>1. \A h \in Handle : WithoutStorage(simple[h], p) \in Object \cup {Deleted, Invalid}
    BY KeptObject DEF TypeOK
  <2> QED
    BY <2>1 DEF CloseHandlesAndDeinit, WithoutStorage
<1> QED
  BY <1>1 DEF TypeOK, FlashTypeOK, CloseHandlesAndDeinit, NoEntries

LEMMA CreateTypeOK ==
  ASSUME TypeOK, NEW p \in Partition, NEW n \in Name, NEW canCreate \in BOOLEAN,
         CreateOrOpenNamespace(p, n, canCreate)
  PROVE  /\ entry' \in [Partition -> [Name -> Index \cup {NONE}]]
         /\ mNamespaces' \in [Partition -> [Name -> Index \cup {NONE}]]
         /\ mNamespaceUsage' \in [Partition -> SUBSET Index]
         /\ mNamespaces'[p][n] \in Index
<1>1. CASE mNamespaces[p][n] # NONE
  BY <1>1 DEF TypeOK, CreateOrOpenNamespace
<1>2. CASE mNamespaces[p][n] = NONE
  <2>1. PICK i \in Index :
          /\ entry' = [entry EXCEPT ![p][n] = i]
          /\ mNamespaces' = [mNamespaces EXCEPT ![p][n] = i]
          /\ mNamespaceUsage' = [mNamespaceUsage EXCEPT ![p] = @ \cup {i}]
    BY <1>2 DEF CreateOrOpenNamespace, CreateNamespace, FirstFree, Free, WriteEntry
  <2> QED
    BY <2>1 DEF TypeOK
<1> QED
  BY <1>1, <1>2

LEMMA OpenTypeOK ==
  ASSUME TypeOK, NEW p \in Partition, NEW n \in Name, NEW readOnly \in BOOLEAN, NEW h \in Handle,
         OpenHandle(h, p, n, readOnly),
         s_nvs_handles' \in [Number -> Handle \cup {Nobody}], s_nvs_next_handle' \in 0 .. MaxOpens,
         locked' \in SUBSET Handle
  PROVE  TypeOK'
<1>1. /\ entry' \in [Partition -> [Name -> Index \cup {NONE}]]
      /\ mNamespaces' \in [Partition -> [Name -> Index \cup {NONE}]]
      /\ mNamespaceUsage' \in [Partition -> SUBSET Index]
      /\ mNamespaces'[p][n] \in Index
  BY CreateTypeOK DEF OpenHandle
<1>2. [valid |-> TRUE, mReadOnly |-> readOnly, mNsIndex |-> mNamespaces'[p][n],
       mStoragePtr |-> p, freed |-> FALSE] \in Object
  BY <1>1 DEF Object
<1>3. simple' \in [Handle -> Object \cup {Deleted, Invalid}]
  BY <1>2 DEF OpenHandle, TypeOK
<1> QED
  BY <1>1, <1>3 DEF OpenHandle, TypeOK

(***************************************************************************)
(* What the methods of a handle write is values of the keys of a namespace.*)
(***************************************************************************)
LEMMA UsedNamespace ==
  ASSUME TypeOK, NEW h \in Handle, SetItem(h) \/ EraseItem(h) \/ EraseAll(h)
  PROVE  /\ Writable(h)
         /\ \E new \in [Key -> Value \cup {NoValue}] :
              item' = [item EXCEPT ![simple[h].mStoragePtr][simple[h].mNsIndex] = new]
         /\ UNCHANGED <<entry, cutOff, storageVars, handleVars>>
<1> DEFINE old == item[simple[h].mStoragePtr][simple[h].mNsIndex]
<1>1. Writable(h) /\ UNCHANGED <<entry, cutOff, storageVars, handleVars>>
  BY DEF SetItem, EraseItem, EraseAll
<1>2. /\ simple[h].mStoragePtr \in Partition /\ simple[h].mNsIndex \in Index
      /\ old \in [Key -> Value \cup {NoValue}]
  BY <1>1, ValidObject DEF Writable, TypeOK
<1>3. CASE SetItem(h)
  <2>1. PICK k \in Key, v \in Value :
          item' = [item EXCEPT ![simple[h].mStoragePtr][simple[h].mNsIndex][k] = v]
    BY <1>3 DEF SetItem
  <2>2. /\ item' = [item EXCEPT ![simple[h].mStoragePtr][simple[h].mNsIndex] = [old EXCEPT ![k] = v]]
        /\ [old EXCEPT ![k] = v] \in [Key -> Value \cup {NoValue}]
    BY <1>2, <2>1
  <2> QED
    BY <1>1, <2>2
<1>4. CASE EraseItem(h)
  <2>1. PICK k \in Key :
          item' = [item EXCEPT ![simple[h].mStoragePtr][simple[h].mNsIndex][k] = NoValue]
    BY <1>4 DEF EraseItem
  <2>2. /\ item' = [item EXCEPT ![simple[h].mStoragePtr][simple[h].mNsIndex] = [old EXCEPT ![k] = NoValue]]
        /\ [old EXCEPT ![k] = NoValue] \in [Key -> Value \cup {NoValue}]
    BY <1>2, <2>1
  <2> QED
    BY <1>1, <2>2
<1>5. CASE EraseAll(h)
  <2>1. PICK left \in SUBSET Key :
          item' = [item EXCEPT ![simple[h].mStoragePtr][simple[h].mNsIndex] =
                     [k \in Key |-> IF k \in left THEN @[k] ELSE NoValue]]
    BY <1>5 DEF EraseAll
  <2>2. /\ item' = [item EXCEPT ![simple[h].mStoragePtr][simple[h].mNsIndex] =
                      [k \in Key |-> IF k \in left THEN old[k] ELSE NoValue]]
        /\ [k \in Key |-> IF k \in left THEN old[k] ELSE NoValue] \in [Key -> Value \cup {NoValue}]
    BY <1>2, <2>1
  <2> QED
    BY <1>1, <2>2
<1> QED
  BY <1>3, <1>4, <1>5

LEMMA NextTypeOK ==
  ASSUME TypeOK, [Next]_vars
  PROVE  TypeOK'
<1> USE DEF flashVars, storageVars, handleVars
<1>1. ASSUME NEW p \in Partition, Manage(p)
      PROVE  TypeOK'
  <2>1. CASE InitPartition(p)
    BY <2>1 DEF InitPartition, LoadNamespaces, Used, TypeOK
  <2>2. CASE InitPartitionPtr(p)
    BY <2>2 DEF InitPartitionPtr, LoadNamespaces, Used, TypeOK
  <2>3. CASE ReinitFails(p)
    BY <2>3 DEF ReinitFails, LoadNamespaces, Used, NoEntries, TypeOK
  <2>4. CASE Deinit(p)
    BY <2>4, CloseTypeOK DEF Deinit, FlashTypeOK, TypeOK
  <2>5. CASE DeinitNothing(p)
    BY <2>5 DEF DeinitNothing, TypeOK
  <2>6. CASE ErasePartition(p)
    <3>1. FlashTypeOK'
      BY <2>6, Erased DEF ErasePartition
    <3> QED
      BY <2>6, <3>1, CloseTypeOK DEF ErasePartition, FlashTypeOK, TypeOK
  <2> QED
    BY <1>1, <2>1, <2>2, <2>3, <2>4, <2>5, <2>6 DEF Manage
<1>2. ASSUME NEW p \in Partition, NEW n \in Name, NEW readOnly \in BOOLEAN, Open(p, n, readOnly)
      PROVE  TypeOK'
  <2>1. ASSUME NEW h \in Handle, OpenC(h, p, n, readOnly) PROVE TypeOK'
    <3>1. /\ s_nvs_handles' \in [Number -> Handle \cup {Nobody}]
          /\ s_nvs_next_handle' \in 0 .. MaxOpens /\ locked' \in SUBSET Handle
      BY <2>1, MaxOpensAssumption DEF OpenC, TypeOK
    <3> QED
      BY <2>1, <3>1, OpenTypeOK DEF OpenC
  <2>2. ASSUME NEW h \in Handle, OpenCxx(h, p, n, readOnly) PROVE TypeOK'
    <3>1. /\ s_nvs_handles' \in [Number -> Handle \cup {Nobody}]
          /\ s_nvs_next_handle' \in 0 .. MaxOpens /\ locked' \in SUBSET Handle
      BY <2>2 DEF OpenCxx, TypeOK
    <3> QED
      BY <2>2, <3>1, OpenTypeOK DEF OpenCxx
  <2>3. CASE OpenWithoutOwner(p, n, readOnly)
    BY <2>3, CreateTypeOK DEF OpenWithoutOwner, TypeOK
  <2>4. CASE OpenWithoutHandle(p, n)
    <3>1. PICK i \in Index : WriteEntry(p, n, i)
      BY <2>4 DEF OpenWithoutHandle, FirstFree, Free
    <3>2. FlashTypeOK'
      BY <2>4, <3>1 DEF OpenWithoutHandle, WriteEntry, FlashTypeOK, TypeOK
    <3> QED
      BY <2>4, <3>2, ForgetTypeOK DEF OpenWithoutHandle
  <2> QED
    BY <1>2, <2>1, <2>2, <2>3, <2>4 DEF Open
<1>3. ASSUME NEW h \in Handle, Use(h)
      PROVE  TypeOK'
  <2>1. CASE DeleteLocked(h)
    BY <2>1 DEF DeleteLocked, Delete, TypeOK
  <2>2. ASSUME Writable(h), NEW new \in [Key -> Value \cup {NoValue}],
               item' = [item EXCEPT ![simple[h].mStoragePtr][simple[h].mNsIndex] = new],
               UNCHANGED <<entry, cutOff, storageVars, handleVars>>
        PROVE  TypeOK'
    <3>1. item' \in [Partition -> [Index -> [Key -> Value \cup {NoValue}]]]
      BY <2>2, ValidObject DEF Writable, TypeOK
    <3> QED
      BY <2>2, <3>1 DEF TypeOK
  <2> QED
    BY <1>3, <2>1, <2>2, UsedNamespace DEF Use
<1>4. ASSUME NEW c \in Number, Close(c)
      PROVE  TypeOK'
  BY <1>4 DEF Close, Delete, TypeOK
<1>5. CASE Restart
  BY <1>5, ForgetTypeOK DEF Restart, FlashTypeOK, TypeOK
<1>6. CASE UNCHANGED vars
  BY <1>6 DEF vars, TypeOK
<1> QED
  BY <1>1, <1>2, <1>3, <1>4, <1>5, <1>6, OpenedNamespace DEF Next

-----------------------------------------------------------------------------
(* Who owns the objects. *)

\* Numbers not given out yet lead nowhere.
NumbersAhead == \A c \in Number : c > s_nvs_next_handle => s_nvs_handles[c] = Nobody

OwnersInv == TypeOK /\ OwnedOnce /\ NumbersAhead

(***************************************************************************)
(* What close_handles_and_deinit() does to each object.                    *)
(***************************************************************************)
LEMMA ClosedObject ==
  ASSUME TypeOK, NEW p \in Partition, CloseHandlesAndDeinit(p), NEW h \in Handle
  PROVE  /\ h \in OfTheCApi => simple'[h] = Deleted
         /\ h \in Invalidated(p) => simple'[h] = Invalid
         /\ h \notin OfTheCApi /\ h \notin Invalidated(p) =>
              /\ simple'[h] = WithoutStorage(simple[h], p)
              /\ simple'[h] = Deleted <=> simple[h] = Deleted
              /\ simple'[h].valid = simple[h].valid
              /\ simple'[h].mStoragePtr = simple[h].mStoragePtr
              /\ simple'[h].mNsIndex = simple[h].mNsIndex
<1>1. simple[h] \in Object \cup {Deleted, Invalid}
  BY DEF TypeOK
<1>2. /\ h \in OfTheCApi => simple'[h] = Deleted
      /\ h \in Invalidated(p) => simple'[h] = Invalid
      /\ h \notin OfTheCApi /\ h \notin Invalidated(p) => simple'[h] = WithoutStorage(simple[h], p)
  BY DEF CloseHandlesAndDeinit, ClosedWith, Invalidated, WithoutStorage
<1> QED
  BY <1>1, <1>2, KeptObject

LEMMA CloseOwners ==
  ASSUME OwnersInv, NEW p \in Partition, CloseHandlesAndDeinit(p)
  PROVE  OwnedOnce' /\ NumbersAhead'
<1>1. OfTheCApi' = {}
  BY NobodyAssumption DEF CloseHandlesAndDeinit, OfTheCApi
<1>2. \A h \in Handle : h \in Invalidated(p) => simple[h] # Deleted /\ h \notin OfTheCApi
  BY LabelAssumption DEF Invalidated, ClosedWith, Deleted
<1>3. \A h \in Handle : simple'[h] # Deleted <=> h \in locked
  BY <1>2, ClosedObject, InvalidNotDeleted DEF OwnersInv, OwnedOnce
<1> QED
  BY <1>1, <1>3 DEF CloseHandlesAndDeinit, OwnedOnce, NumbersAhead, OwnersInv

LEMMA ForgetOwners ==
  ASSUME Forget
  PROVE  OwnedOnce' /\ NumbersAhead'
  BY NobodyAssumption DEF Forget, OwnedOnce, NumbersAhead, OfTheCApi

\* A deleted object gets an owner: no other object changes hands.
LEMMA OpenOwners ==
  ASSUME OwnersInv, NEW p \in Partition, NEW n \in Name, NEW readOnly \in BOOLEAN, NEW h \in Handle,
         OpenC(h, p, n, readOnly) \/ OpenCxx(h, p, n, readOnly)
  PROVE  OwnedOnce' /\ NumbersAhead'
<1>1. OpenHandle(h, p, n, readOnly)
  BY DEF OpenC, OpenCxx
<1>2. /\ simple[h] = Deleted /\ h \notin OfTheCApi /\ h \notin locked
      /\ \A g \in Handle \ {h} : simple'[g] = simple[g]
  BY <1>1 DEF OpenHandle, OwnersInv, OwnedOnce, TypeOK
<1>3. simple'[h] # Deleted
  <2>1. simple'[h].valid
    BY <1>1 DEF OpenHandle, OwnersInv, TypeOK
  <2> QED
    BY <2>1 DEF Deleted
<1>4. CASE OpenC(h, p, n, readOnly)
  <2>1. OfTheCApi' = OfTheCApi \cup {h}
    BY <1>4, NobodyAssumption, MaxOpensAssumption DEF OpenC, OfTheCApi, OwnersInv, NumbersAhead, TypeOK
  <2>2. \A c, d \in Number :
          s_nvs_handles'[c] = s_nvs_handles'[d] /\ s_nvs_handles'[c] # Nobody => c = d
    BY <1>2, <1>4, MaxOpensAssumption DEF OpenC, OfTheCApi, OwnersInv, OwnedOnce, NumbersAhead, TypeOK
  <2>3. NumbersAhead'
    BY <1>4, MaxOpensAssumption DEF OpenC, OwnersInv, NumbersAhead, TypeOK
  <2> QED
    BY <1>2, <1>3, <1>4, <2>1, <2>2, <2>3 DEF OpenC, OwnersInv, OwnedOnce
<1>5. CASE OpenCxx(h, p, n, readOnly)
  <2>1. OfTheCApi' = OfTheCApi
    BY <1>5 DEF OpenCxx, OfTheCApi
  <2> QED
    BY <1>2, <1>3, <1>5, <2>1 DEF OpenCxx, OwnersInv, OwnedOnce, NumbersAhead
<1> QED
  BY <1>4, <1>5

LEMMA SameOwners ==
  ASSUME OwnersInv, UNCHANGED handleVars
  PROVE  OwnedOnce' /\ NumbersAhead'
  BY DEF handleVars, OwnersInv, OwnedOnce, NumbersAhead, OfTheCApi

LEMMA NextOwners ==
  ASSUME OwnersInv, [Next]_vars
  PROVE  OwnedOnce' /\ NumbersAhead'
<1>1. ASSUME NEW p \in Partition, Manage(p)
      PROVE  OwnedOnce' /\ NumbersAhead'
  <2>1. CASE InitPartition(p) \/ InitPartitionPtr(p) \/ ReinitFails(p)
    BY <2>1, SameOwners DEF InitPartition, InitPartitionPtr, ReinitFails
  <2>2. CASE Deinit(p)
    BY <2>2, CloseOwners DEF Deinit
  <2>3. CASE DeinitNothing(p)
    <3>1. OfTheCApi' = {}
      BY <2>3, NobodyAssumption DEF DeinitNothing, OfTheCApi
    <3> QED
      BY <2>3, <3>1 DEF DeinitNothing, ClosedWith, OwnersInv, OwnedOnce, NumbersAhead
  <2>4. CASE ErasePartition(p)
    BY <2>4, CloseOwners, SameOwners DEF ErasePartition
  <2> QED
    BY <1>1, <2>1, <2>2, <2>3, <2>4 DEF Manage
<1>2. ASSUME NEW p \in Partition, NEW n \in Name, NEW readOnly \in BOOLEAN, Open(p, n, readOnly)
      PROVE  OwnedOnce' /\ NumbersAhead'
  <2>1. CASE OpenWithoutOwner(p, n, readOnly)
    BY <2>1, SameOwners DEF OpenWithoutOwner
  <2>2. CASE OpenWithoutHandle(p, n)
    BY <2>2, ForgetOwners DEF OpenWithoutHandle
  <2> QED
    BY <1>2, <2>1, <2>2, OpenOwners DEF Open
<1>3. ASSUME NEW h \in Handle, Use(h)
      PROVE  OwnedOnce' /\ NumbersAhead'
  <2>1. CASE DeleteLocked(h)
    <3>1. OfTheCApi' = OfTheCApi
      BY <2>1 DEF DeleteLocked, OfTheCApi
    <3> QED
      BY <2>1, <3>1 DEF DeleteLocked, Delete, OwnersInv, OwnedOnce, NumbersAhead, TypeOK
  <2>2. CASE SetItem(h) \/ EraseItem(h) \/ EraseAll(h)
    BY <2>2, SameOwners DEF SetItem, EraseItem, EraseAll
  <2> QED
    BY <1>3, <2>1, <2>2 DEF Use
<1>4. ASSUME NEW c \in Number, Close(c)
      PROVE  OwnedOnce' /\ NumbersAhead'
  <2>1. /\ s_nvs_handles[c] \in Handle
        /\ OfTheCApi' = OfTheCApi \ {s_nvs_handles[c]}
    BY <1>4, NobodyAssumption DEF Close, OfTheCApi, OwnersInv, OwnedOnce, TypeOK
  <2>2. \A g \in Handle \ {s_nvs_handles[c]} : simple'[g] = simple[g]
    BY <1>4 DEF Close, Delete, OwnersInv, TypeOK
  <2>3. simple'[s_nvs_handles[c]] = Deleted /\ s_nvs_handles[c] \notin locked
    BY <1>4, <2>1 DEF Close, Delete, OwnersInv, OwnedOnce, OfTheCApi, TypeOK
  <2>4. \A d, e \in Number :
          s_nvs_handles'[d] = s_nvs_handles'[e] /\ s_nvs_handles'[d] # Nobody => d = e
    BY <1>4 DEF Close, OwnersInv, OwnedOnce, TypeOK
  <2>5. NumbersAhead'
    BY <1>4 DEF Close, OwnersInv, NumbersAhead, TypeOK
  <2> QED
    BY <1>4, <2>1, <2>2, <2>3, <2>4, <2>5 DEF Close, OwnersInv, OwnedOnce
<1>5. CASE Restart
  BY <1>5, ForgetOwners DEF Restart
<1>6. CASE UNCHANGED vars
  BY <1>6, SameOwners DEF vars
<1> QED
  BY <1>1, <1>2, <1>3, <1>4, <1>5, <1>6, OpenedNamespace DEF Next

-----------------------------------------------------------------------------
(* Which objects are valid. *)

AliveInv == TypeOK /\ ValidMeansAlive /\ ListedExactly

LEMMA CloseAlive ==
  ASSUME AliveInv, NEW p \in Partition, CloseHandlesAndDeinit(p)
  PROVE  ValidMeansAlive' /\ ListedExactly'
<1> USE DEF AliveInv
<1>1. \A h \in Handle : simple'[h].valid <=>
        simple[h].valid /\ h \notin OfTheCApi /\ h \notin Invalidated(p)
  <2> TAKE h \in Handle
  <2>1. Deleted.valid = FALSE /\ Invalid.valid = FALSE
    BY DEF Deleted, Invalid
  <2> QED
    BY <2>1, ClosedObject
<1>2. ListedExactly'
  BY <1>1 DEF ListedExactly, CloseHandlesAndDeinit, ClosedWith
<1>3. ASSUME NEW h \in Handle, simple'[h].valid
      PROVE  ~simple'[h].freed /\ storage'[simple'[h].mStoragePtr] # "none"
  <2>1. simple[h].valid /\ h \notin OfTheCApi /\ h \notin Invalidated(p)
    BY <1>1, <1>3
  <2>2. simple[h].mStoragePtr # p /\ ~simple[h].freed
    BY <2>1 DEF Invalidated, ClosedWith, ListedExactly, ValidMeansAlive
  <2>3. simple'[h] = simple[h]
    <3>1. simple'[h] = WithoutStorage(simple[h], p)
      BY <2>1, ClosedObject
    <3>2. simple[h] \in Object \cup {Deleted, Invalid}
      BY DEF TypeOK
    <3> QED
      BY <2>2, <3>1, <3>2, KeptObject
  <2>4. storage'[simple[h].mStoragePtr] = storage[simple[h].mStoragePtr]
    BY <2>1, <2>2, ValidObject DEF CloseHandlesAndDeinit, TypeOK
  <2> QED
    BY <2>1, <2>2, <2>3, <2>4 DEF ValidMeansAlive
<1> QED
  BY <1>2, <1>3 DEF ValidMeansAlive

\* An object that is valid afterwards is one of another partition, as it was.
LEMMA ClosedKept ==
  ASSUME AliveInv, NEW p \in Partition, CloseHandlesAndDeinit(p), NEW h \in Handle, simple'[h].valid
  PROVE  simple'[h] = simple[h] /\ simple[h].mStoragePtr # p
<1> USE DEF AliveInv
<1>1. h \notin OfTheCApi /\ h \notin Invalidated(p)
  BY ClosedObject DEF Deleted, Invalid
<1>2. simple[h].valid /\ simple'[h] = WithoutStorage(simple[h], p)
  BY <1>1, ClosedObject
<1>3. simple[h].mStoragePtr # p /\ ~simple[h].freed
  BY <1>1, <1>2 DEF Invalidated, ClosedWith, ListedExactly, ValidMeansAlive
<1>4. simple[h] \in Object \cup {Deleted, Invalid}
  BY DEF TypeOK
<1> QED
  BY <1>2, <1>3, <1>4, KeptObject

LEMMA ForgetAlive ==
  ASSUME Forget
  PROVE  ValidMeansAlive' /\ ListedExactly'
  BY DEF Forget, ValidMeansAlive, ListedExactly, Deleted

LEMMA OpenAlive ==
  ASSUME AliveInv, NEW p \in Partition, NEW n \in Name, NEW readOnly \in BOOLEAN, NEW h \in Handle,
         OpenHandle(h, p, n, readOnly)
  PROVE  ValidMeansAlive' /\ ListedExactly'
<1>1. /\ simple'[h].valid /\ ~simple'[h].freed /\ simple'[h].mStoragePtr = p
      /\ storage[p] = "ACTIVE" /\ storage' = storage
      /\ nvs_handles' = nvs_handles \cup {h}
  BY DEF OpenHandle, AliveInv, TypeOK
<1>2. \A g \in Handle \ {h} : simple'[g] = simple[g]
  BY DEF OpenHandle, AliveInv, TypeOK
<1> QED
  BY <1>1, <1>2 DEF AliveInv, ValidMeansAlive, ListedExactly

\* Deleting an object concerns no other one, nor a storage.
LEMMA DeleteAlive ==
  ASSUME AliveInv, NEW h \in Handle, Delete(h), UNCHANGED storage
  PROVE  ValidMeansAlive' /\ ListedExactly'
<1>1. ~simple'[h].valid /\ \A g \in Handle \ {h} : simple'[g] = simple[g]
  BY DEF Delete, Deleted, AliveInv, TypeOK
<1> QED
  BY <1>1 DEF Delete, AliveInv, ValidMeansAlive, ListedExactly

LEMMA SameAlive ==
  ASSUME AliveInv, UNCHANGED handleVars, \A p \in Partition : storage'[p] = "none" => storage[p] = "none"
  PROVE  ValidMeansAlive' /\ ListedExactly'
<1>1. \A h \in Handle : simple[h].valid => simple[h].mStoragePtr \in Partition
  BY ValidObject DEF AliveInv
<1> QED
  BY <1>1 DEF handleVars, AliveInv, ValidMeansAlive, ListedExactly

LEMMA NextAlive ==
  ASSUME AliveInv, [Next]_vars
  PROVE  ValidMeansAlive' /\ ListedExactly'
<1> USE DEF storageVars
<1>1. ASSUME NEW p \in Partition, Manage(p)
      PROVE  ValidMeansAlive' /\ ListedExactly'
  <2>1. CASE InitPartition(p) \/ InitPartitionPtr(p) \/ ReinitFails(p)
    <3>1. \A q \in Partition : storage'[q] = "none" => storage[q] = "none"
      BY <2>1 DEF InitPartition, InitPartitionPtr, ReinitFails, AliveInv, TypeOK
    <3> QED
      BY <2>1, <3>1, SameAlive DEF InitPartition, InitPartitionPtr, ReinitFails
  <2>2. CASE Deinit(p)
    BY <2>2, CloseAlive DEF Deinit
  <2>3. CASE DeinitNothing(p)
    <3>1. \A h \in Handle : IF h \in OfTheCApi THEN ~simple'[h].valid ELSE simple'[h] = simple[h]
      BY <2>3 DEF DeinitNothing, ClosedWith, Deleted
    <3> QED
      BY <2>3, <3>1 DEF DeinitNothing, ClosedWith, AliveInv, ValidMeansAlive, ListedExactly
  <2>4. CASE ErasePartition(p)
    BY <2>4, CloseAlive, SameAlive DEF ErasePartition
  <2> QED
    BY <1>1, <2>1, <2>2, <2>3, <2>4 DEF Manage
<1>2. ASSUME NEW p \in Partition, NEW n \in Name, NEW readOnly \in BOOLEAN, Open(p, n, readOnly)
      PROVE  ValidMeansAlive' /\ ListedExactly'
  <2>1. CASE OpenWithoutOwner(p, n, readOnly)
    BY <2>1, SameAlive DEF OpenWithoutOwner
  <2>2. CASE OpenWithoutHandle(p, n)
    BY <2>2, ForgetAlive DEF OpenWithoutHandle
  <2> QED
    BY <1>2, <2>1, <2>2, OpenAlive DEF Open, OpenC, OpenCxx
<1>3. ASSUME NEW h \in Handle, Use(h)
      PROVE  ValidMeansAlive' /\ ListedExactly'
  <2>1. CASE DeleteLocked(h)
    BY <2>1, DeleteAlive DEF DeleteLocked
  <2>2. CASE SetItem(h) \/ EraseItem(h) \/ EraseAll(h)
    BY <2>2, SameAlive DEF SetItem, EraseItem, EraseAll
  <2> QED
    BY <1>3, <2>1, <2>2 DEF Use
<1>4. ASSUME NEW c \in Number, Close(c)
      PROVE  ValidMeansAlive' /\ ListedExactly'
  <2>1. s_nvs_handles[c] \in Handle
    BY <1>4 DEF Close, AliveInv, TypeOK
  <2> QED
    BY <1>4, <2>1, DeleteAlive DEF Close
<1>5. CASE Restart
  BY <1>5, ForgetAlive DEF Restart
<1>6. CASE UNCHANGED vars
  BY <1>6, SameAlive DEF vars
<1> QED
  BY <1>1, <1>2, <1>3, <1>4, <1>5, <1>6, OpenedNamespace DEF Next

-----------------------------------------------------------------------------
(* The indices of namespaces. *)

NamesInv == AliveInv /\ OneIndexPerNamespace /\ NoStrayItems

\* A new namespace gets an index that none has, and that is marked from then on.
LEMMA WrittenEntry ==
  ASSUME NamesInv, NEW p \in Partition, NEW n \in Name, NEW i \in FirstFree(p),
         storage[p] = "ACTIVE", mNamespaces[p][n] = NONE, WriteEntry(p, n, i)
  PROVE  /\ entry[p][n] = NONE /\ i \in Index \ Used(entry[p])
         /\ entry'[p] = [entry[p] EXCEPT ![n] = i]
         /\ Used(entry'[p]) = Used(entry[p]) \cup {i}
         /\ \A q \in Partition \ {p} : entry'[q] = entry[q]
<1>1. mNamespaces[p] = entry[p] /\ mNamespaceUsage[p] = Used(entry[p])
  BY DEF NamesInv, OneIndexPerNamespace, Loaded
<1>2. entry[p][n] = NONE /\ i \in Index \ Used(entry[p])
  BY <1>1 DEF FirstFree, Free
<1>3. /\ entry'[p] = [entry[p] EXCEPT ![n] = i]
      /\ \A q \in Partition \ {p} : entry'[q] = entry[q]
  BY DEF WriteEntry, NamesInv, AliveInv, TypeOK
<1>4. entry[p] \in [Name -> Index \cup {NONE}]
  BY DEF NamesInv, AliveInv, TypeOK
<1> QED
  BY <1>2, <1>3, <1>4 DEF Used

\* What holds of flash: entry, item and cutOff.
FlashInv == IndexOnce /\ NoStrayItems

LEMMA WrittenFlash ==
  ASSUME NamesInv, NEW p \in Partition, NEW n \in Name, NEW i \in FirstFree(p),
         storage[p] = "ACTIVE", mNamespaces[p][n] = NONE, WriteEntry(p, n, i),
         UNCHANGED <<item, cutOff>>
  PROVE  FlashInv'
<1>1. /\ entry[p][n] = NONE /\ i \in Index \ Used(entry[p])
      /\ entry'[p] = [entry[p] EXCEPT ![n] = i]
      /\ Used(entry'[p]) = Used(entry[p]) \cup {i}
      /\ \A q \in Partition \ {p} : entry'[q] = entry[q]
  BY WrittenEntry
<1>2. NoStrayItems'
  BY <1>1 DEF NamesInv, NoStrayItems
<1>3. IndexOnce'
  <2> SUFFICES ASSUME NEW q \in Partition, NEW a \in Name, NEW b \in Name,
                      entry'[q][a] = entry'[q][b], entry'[q][a] # NONE
               PROVE  a = b
    BY DEF IndexOnce
  <2>1. CASE q # p
    BY <1>1, <2>1 DEF NamesInv, OneIndexPerNamespace, IndexOnce
  <2>2. CASE q = p
    <3>1. entry[p] \in [Name -> Index \cup {NONE}]
      BY DEF NamesInv, AliveInv, TypeOK
    <3>2. \A m \in Name : entry[p][m] # i
      BY <1>1 DEF Used
    <3> QED
      BY <1>1, <2>2, <3>1, <3>2 DEF NamesInv, OneIndexPerNamespace, IndexOnce
  <2> QED
    BY <2>1, <2>2
<1> QED
  BY <1>2, <1>3 DEF FlashInv

\* createOrOpenNamespace()
LEMMA CreateNames ==
  ASSUME NamesInv, NEW p \in Partition, NEW n \in Name, NEW canCreate \in BOOLEAN,
         storage[p] = "ACTIVE", CreateOrOpenNamespace(p, n, canCreate), UNCHANGED <<storage, item, cutOff>>
  PROVE  /\ FlashInv' /\ Loaded'
         /\ \A q \in Partition : Used(entry[q]) \subseteq Used(entry'[q])
         /\ mNamespaces'[p][n] \in Used(entry'[p])
<1>1. mNamespaces[p] = entry[p] /\ mNamespaceUsage[p] = Used(entry[p])
  BY DEF NamesInv, OneIndexPerNamespace, Loaded
<1>2. CASE mNamespaces[p][n] # NONE
  <2>1. UNCHANGED <<entry, mNamespaces, mNamespaceUsage>>
    BY <1>2 DEF CreateOrOpenNamespace
  <2> QED
    BY <1>1, <1>2, <2>1
    DEF NamesInv, OneIndexPerNamespace, FlashInv, IndexOnce, NoStrayItems, Loaded, Used
<1>3. CASE mNamespaces[p][n] = NONE
  <2>1. PICK i \in FirstFree(p) :
          /\ WriteEntry(p, n, i)
          /\ mNamespaces' = [mNamespaces EXCEPT ![p][n] = i]
          /\ mNamespaceUsage' = [mNamespaceUsage EXCEPT ![p] = @ \cup {i}]
    BY <1>3 DEF CreateOrOpenNamespace, CreateNamespace
  <2>2. /\ i \in Index
        /\ entry'[p] = [entry[p] EXCEPT ![n] = i]
        /\ Used(entry'[p]) = Used(entry[p]) \cup {i}
        /\ \A q \in Partition \ {p} : entry'[q] = entry[q]
    BY <1>3, <2>1, WrittenEntry
  <2>3. FlashInv'
    BY <1>3, <2>1, WrittenFlash
  <2>4. /\ mNamespaces'[p] = entry'[p] /\ mNamespaceUsage'[p] = Used(entry'[p])
        /\ \A q \in Partition \ {p} :
             mNamespaces'[q] = mNamespaces[q] /\ mNamespaceUsage'[q] = mNamespaceUsage[q]
    BY <1>1, <2>1, <2>2 DEF NamesInv, AliveInv, TypeOK
  <2>5. Loaded'
    <3> SUFFICES ASSUME NEW q \in Partition, storage[q] = "ACTIVE"
                 PROVE  mNamespaces'[q] = entry'[q] /\ mNamespaceUsage'[q] = Used(entry'[q])
      BY DEF Loaded, Used
    <3>1. CASE q = p
      BY <2>4, <3>1
    <3>2. CASE q # p
      BY <2>2, <2>4, <3>2 DEF NamesInv, OneIndexPerNamespace, Loaded
    <3> QED
      BY <3>1, <3>2
  <2>6. \A q \in Partition : Used(entry[q]) \subseteq Used(entry'[q])
    BY <2>2
  <2>7. mNamespaces'[p][n] = i
    BY <2>1 DEF NamesInv, AliveInv, TypeOK
  <2> QED
    BY <2>2, <2>3, <2>5, <2>6, <2>7
<1> QED
  BY <1>2, <1>3

\* Erasing leaves no two namespaces with an index, and no stray items when it is completed.
LEMMA ErasedFlash ==
  ASSUME NamesInv, NEW p \in Partition, UNCHANGED flashVars \/ EraseRange(p)
  PROVE  /\ FlashInv'
         /\ \A q \in Partition \ {p} : entry'[q] = entry[q]
<1>1. CASE UNCHANGED flashVars
  BY <1>1 DEF flashVars, FlashInv, NamesInv, OneIndexPerNamespace, IndexOnce, NoStrayItems, Used
<1>2. CASE EraseRange(p)
  <2>1. /\ \A q \in Partition \ {p} :
             entry'[q] = entry[q] /\ item'[q] = item[q] /\ (q \in cutOff' <=> q \in cutOff)
        /\ \A n \in Name : entry'[p][n] \in {entry[p][n], NONE}
        /\ \/ p \in cutOff' /\ cutOff' = cutOff \cup {p}
           \/ cutOff' = cutOff \ {p} /\ entry'[p] = NoEntries /\ item'[p] = NoItems
    BY <1>2, Erased DEF NamesInv, AliveInv
  <2>2. IndexOnce'
    <3> SUFFICES ASSUME NEW q \in Partition, NEW m \in Name, NEW n \in Name,
                        entry'[q][m] = entry'[q][n], entry'[q][m] # NONE
                 PROVE  m = n
      BY DEF IndexOnce
    <3>1. entry[q][m] = entry[q][n] /\ entry[q][m] # NONE
      BY <2>1
    <3> QED
      BY <3>1 DEF NamesInv, OneIndexPerNamespace, IndexOnce
  <2>3. NoStrayItems'
    <3> SUFFICES ASSUME NEW q \in Partition \ cutOff', NEW i \in Index, i \notin Used(entry'[q])
                 PROVE  item'[q][i] = NoItems[i]
      BY DEF NoStrayItems, Used
    <3>1. CASE q = p
      BY <2>1, <3>1
    <3>2. CASE q # p
      BY <2>1, <3>2 DEF NamesInv, NoStrayItems
    <3> QED
      BY <3>1, <3>2
  <2> QED
    BY <2>1, <2>2, <2>3 DEF FlashInv
<1> QED
  BY <1>1, <1>2

\* close_handles_and_deinit(), when flash is left alone and when it is erased.
LEMMA CloseNames ==
  ASSUME NamesInv, NEW p \in Partition, CloseHandlesAndDeinit(p), UNCHANGED flashVars \/ EraseRange(p)
  PROVE  OneIndexPerNamespace' /\ NoStrayItems'
<1>1. FlashInv' /\ \A q \in Partition \ {p} : entry'[q] = entry[q]
  BY ErasedFlash
<1>4. /\ storage'[p] = "none"
      /\ \A q \in Partition \ {p} : /\ storage'[q] = storage[q]
                                   /\ mNamespaces'[q] = mNamespaces[q]
                                   /\ mNamespaceUsage'[q] = mNamespaceUsage[q]
  BY DEF CloseHandlesAndDeinit, NamesInv, AliveInv, TypeOK
<1>5. Loaded'
  BY <1>1, <1>4 DEF NamesInv, OneIndexPerNamespace, Loaded, Used
<1>6. HandleHasNamespace'
  <2> SUFFICES ASSUME NEW h \in Handle, simple'[h].valid
               PROVE  simple'[h].mNsIndex \in Used(entry'[simple'[h].mStoragePtr])
    BY DEF HandleHasNamespace, Used
  <2>1. storage'[simple'[h].mStoragePtr] # "none"
    BY CloseAlive DEF NamesInv, ValidMeansAlive
  <2>2. simple'[h] = simple[h]
    BY ClosedKept DEF NamesInv
  <2>3. simple[h].mStoragePtr \in Partition \ {p}
    BY <1>4, <2>1, <2>2, ValidObject DEF NamesInv, AliveInv
  <2> QED
    BY <1>1, <2>2, <2>3 DEF NamesInv, OneIndexPerNamespace, HandleHasNamespace, Used
<1> QED
  BY <1>1, <1>5, <1>6 DEF FlashInv, OneIndexPerNamespace

\* Objects and flash stay, or flash gets more namespaces: handles keep theirs.
LEMMA SameHandles ==
  ASSUME NamesInv, UNCHANGED simple, \A q \in Partition : Used(entry[q]) \subseteq Used(entry'[q])
  PROVE  HandleHasNamespace'
<1> SUFFICES ASSUME NEW h \in Handle, simple[h].valid
             PROVE  simple[h].mNsIndex \in Used(entry'[simple[h].mStoragePtr])
  BY DEF HandleHasNamespace, Used
<1>1. simple[h].mStoragePtr \in Partition
  BY ValidObject DEF NamesInv, AliveInv
<1> QED
  BY <1>1 DEF NamesInv, OneIndexPerNamespace, HandleHasNamespace

\* No object becomes valid, and no namespace is created or lost.
LEMMA FewerHandles ==
  ASSUME NamesInv, UNCHANGED <<flashVars, storageVars>>,
         \A h \in Handle : simple'[h] = simple[h] \/ simple'[h] = Deleted
  PROVE  OneIndexPerNamespace' /\ NoStrayItems'
<1>1. \A h \in Handle : simple'[h].valid => simple'[h] = simple[h]
  BY DEF Deleted
<1>2. HandleHasNamespace'
  BY <1>1 DEF NamesInv, OneIndexPerNamespace, HandleHasNamespace, Used, flashVars
<1> QED
  BY <1>2 DEF NamesInv, OneIndexPerNamespace, IndexOnce, Loaded, NoStrayItems, Used, flashVars, storageVars

LEMMA InitNames ==
  ASSUME NamesInv, NEW p \in Partition, InitPartition(p) \/ InitPartitionPtr(p) \/ ReinitFails(p)
  PROVE  OneIndexPerNamespace' /\ NoStrayItems'
<1>1. UNCHANGED <<flashVars, handleVars>>
  BY DEF InitPartition, InitPartitionPtr, ReinitFails
<1>2. FlashInv' /\ HandleHasNamespace'
  BY <1>1 DEF NamesInv, OneIndexPerNamespace, FlashInv, IndexOnce, NoStrayItems, HandleHasNamespace,
              Used, flashVars, handleVars
<1>3. Loaded'
  <2>1. ASSUME NEW q \in Partition, storage'[q] = "ACTIVE"
        PROVE  mNamespaces'[q] = entry[q] /\ mNamespaceUsage'[q] = Used(entry[q])
    <3>1. CASE q = p
      BY <2>1, <3>1 DEF InitPartition, InitPartitionPtr, ReinitFails, LoadNamespaces,
                        NamesInv, AliveInv, TypeOK
    <3>2. CASE q # p
      <4>1. storage[q] = "ACTIVE" /\ mNamespaces'[q] = mNamespaces[q]
            /\ mNamespaceUsage'[q] = mNamespaceUsage[q]
        BY <2>1, <3>2 DEF InitPartition, InitPartitionPtr, ReinitFails, LoadNamespaces,
                          NamesInv, AliveInv, TypeOK
      <4> QED
        BY <4>1 DEF NamesInv, OneIndexPerNamespace, Loaded
    <3> QED
      BY <3>1, <3>2
  <2> QED
    BY <1>1, <2>1 DEF Loaded, Used, flashVars
<1> QED
  BY <1>2, <1>3 DEF FlashInv, OneIndexPerNamespace

\* An object that is opened gets an index in use, the others keep theirs.
LEMMA OpenNames ==
  ASSUME NamesInv, NEW p \in Partition, NEW n \in Name, NEW readOnly \in BOOLEAN, NEW h \in Handle,
         OpenHandle(h, p, n, readOnly)
  PROVE  OneIndexPerNamespace' /\ NoStrayItems'
<1>1. /\ FlashInv' /\ Loaded'
      /\ \A q \in Partition : Used(entry[q]) \subseteq Used(entry'[q])
      /\ mNamespaces'[p][n] \in Used(entry'[p])
  BY CreateNames DEF OpenHandle
<1>2. /\ simple'[h].mNsIndex = mNamespaces'[p][n] /\ simple'[h].mStoragePtr = p
      /\ \A g \in Handle \ {h} : simple'[g] = simple[g]
  BY DEF OpenHandle, NamesInv, AliveInv, TypeOK
<1>3. HandleHasNamespace'
  <2> SUFFICES ASSUME NEW g \in Handle, simple'[g].valid
               PROVE  simple'[g].mNsIndex \in Used(entry'[simple'[g].mStoragePtr])
    BY DEF HandleHasNamespace, Used
  <2>1. CASE g = h
    BY <1>1, <1>2, <2>1
  <2>2. CASE g # h
    <3>1. simple[g].mStoragePtr \in Partition /\ simple'[g] = simple[g]
      BY <1>2, <2>2, ValidObject DEF NamesInv, AliveInv
    <3> QED
      BY <1>1, <3>1 DEF NamesInv, OneIndexPerNamespace, HandleHasNamespace
  <2> QED
    BY <2>1, <2>2
<1> QED
  BY <1>1, <1>3 DEF FlashInv, OneIndexPerNamespace

\* After a restart there is no storage and no object.
LEMMA ForgetNames ==
  ASSUME NamesInv, Forget, FlashInv'
  PROVE  OneIndexPerNamespace' /\ NoStrayItems'
<1>1. Loaded' /\ HandleHasNamespace'
  BY DEF Forget, Loaded, HandleHasNamespace, Deleted
<1> QED
  BY <1>1 DEF FlashInv, OneIndexPerNamespace

\* A handle that may write has an index in use: what it writes is no stray item.
LEMMA UseNames ==
  ASSUME NamesInv, NEW h \in Handle, SetItem(h) \/ EraseItem(h) \/ EraseAll(h)
  PROVE  OneIndexPerNamespace' /\ NoStrayItems'
<1>1. PICK new \in [Key -> Value \cup {NoValue}] :
        item' = [item EXCEPT ![simple[h].mStoragePtr][simple[h].mNsIndex] = new]
  BY UsedNamespace DEF NamesInv, AliveInv
<1>2. simple[h].valid /\ UNCHANGED <<entry, cutOff, storageVars, handleVars>>
  BY UsedNamespace DEF NamesInv, AliveInv, Writable
<1>3. NoStrayItems'
  <2> SUFFICES ASSUME NEW p \in Partition \ cutOff, NEW i \in Index, i \notin Used(entry[p])
               PROVE  item'[p][i] = NoItems[i]
    BY <1>2 DEF NoStrayItems, Used
  <2>1. simple[h].mStoragePtr # p \/ simple[h].mNsIndex # i
    BY <1>2 DEF NamesInv, OneIndexPerNamespace, HandleHasNamespace
  <2>2. item'[p][i] = item[p][i]
    BY <1>1, <2>1 DEF NamesInv, AliveInv, TypeOK
  <2> QED
    BY <2>2 DEF NamesInv, NoStrayItems
<1>4. OneIndexPerNamespace'
  BY <1>2 DEF NamesInv, OneIndexPerNamespace, IndexOnce, Loaded, HandleHasNamespace, Used,
              storageVars, handleVars
<1> QED
  BY <1>3, <1>4

LEMMA NextNames ==
  ASSUME NamesInv, [Next]_vars
  PROVE  OneIndexPerNamespace' /\ NoStrayItems'
<1>1. ASSUME NEW p \in Partition, Manage(p)
      PROVE  OneIndexPerNamespace' /\ NoStrayItems'
  <2>1. CASE InitPartition(p) \/ InitPartitionPtr(p) \/ ReinitFails(p)
    BY <2>1, InitNames
  <2>2. CASE Deinit(p)
    BY <2>2, CloseNames DEF Deinit
  <2>3. CASE DeinitNothing(p)
    <3>1. \A h \in Handle : simple'[h] = simple[h] \/ simple'[h] = Deleted
      BY <2>3 DEF DeinitNothing
    <3> QED
      BY <2>3, <3>1, FewerHandles DEF DeinitNothing
  <2>4. CASE ErasePartition(p) /\ storage[p] # "none"
    BY <2>4, CloseNames DEF ErasePartition
  <2>5. CASE ErasePartition(p) /\ storage[p] = "none"
    <3>1. UNCHANGED <<storageVars, handleVars>> /\ EraseRange(p)
      BY <2>5 DEF ErasePartition
    <3>2. FlashInv' /\ \A q \in Partition \ {p} : entry'[q] = entry[q]
      BY <3>1, ErasedFlash
    <3>5. \A q \in Partition : storage[q] = "ACTIVE" => q # p
      BY <2>5
    <3>6. Loaded'
      BY <3>1, <3>2, <3>5 DEF NamesInv, OneIndexPerNamespace, Loaded, Used, storageVars
    <3>7. HandleHasNamespace'
      <4>1. \A h \in Handle : simple[h].valid => simple[h].mStoragePtr \in Partition \ {p}
        BY <2>5, ValidObject DEF NamesInv, AliveInv, ValidMeansAlive
      <4> QED
        BY <3>1, <3>2, <4>1
        DEF NamesInv, OneIndexPerNamespace, HandleHasNamespace, Used, handleVars
    <3> QED
      BY <3>2, <3>6, <3>7 DEF FlashInv, OneIndexPerNamespace
  <2> QED
    BY <1>1, <2>1, <2>2, <2>3, <2>4, <2>5 DEF Manage
<1>2. ASSUME NEW p \in Partition, NEW n \in Name, NEW readOnly \in BOOLEAN, Open(p, n, readOnly)
      PROVE  OneIndexPerNamespace' /\ NoStrayItems'
  <2>1. CASE OpenWithoutOwner(p, n, readOnly)
    <3>1. /\ FlashInv' /\ Loaded'
          /\ \A q \in Partition : Used(entry[q]) \subseteq Used(entry'[q])
      BY <2>1, CreateNames DEF OpenWithoutOwner
    <3>2. HandleHasNamespace'
      BY <2>1, <3>1, SameHandles DEF OpenWithoutOwner, handleVars
    <3> QED
      BY <3>1, <3>2 DEF FlashInv, OneIndexPerNamespace
  <2>2. CASE OpenWithoutHandle(p, n)
    <3>1. FlashInv'
      BY <2>2, WrittenFlash DEF OpenWithoutHandle
    <3> QED
      BY <2>2, <3>1, ForgetNames DEF OpenWithoutHandle
  <2> QED
    BY <1>2, <2>1, <2>2, OpenNames DEF Open, OpenC, OpenCxx
<1>3. ASSUME NEW h \in Handle, Use(h)
      PROVE  OneIndexPerNamespace' /\ NoStrayItems'
  <2>1. CASE DeleteLocked(h)
    <3>1. \A g \in Handle : simple'[g] = simple[g] \/ simple'[g] = Deleted
      BY <2>1 DEF DeleteLocked, Delete, NamesInv, AliveInv, TypeOK
    <3> QED
      BY <2>1, <3>1, FewerHandles DEF DeleteLocked
  <2> QED
    BY <1>3, <2>1, UseNames DEF Use
<1>4. ASSUME NEW c \in Number, Close(c)
      PROVE  OneIndexPerNamespace' /\ NoStrayItems'
  <2>1. \A g \in Handle : simple'[g] = simple[g] \/ simple'[g] = Deleted
    BY <1>4 DEF Close, Delete, NamesInv, AliveInv, TypeOK
  <2> QED
    BY <1>4, <2>1, FewerHandles DEF Close
<1>5. CASE Restart
  <2>1. FlashInv'
    BY <1>5 DEF Restart, flashVars, NamesInv, OneIndexPerNamespace, FlashInv, IndexOnce, NoStrayItems,
                Used
  <2> QED
    BY <1>5, <2>1, ForgetNames DEF Restart
<1>6. CASE UNCHANGED vars
  <2>1. \A h \in Handle : simple'[h] = simple[h]
    BY <1>6 DEF vars, handleVars
  <2> QED
    BY <1>6, <2>1, FewerHandles DEF vars
<1> QED
  BY <1>1, <1>2, <1>3, <1>4, <1>5, <1>6, OpenedNamespace DEF Next

-----------------------------------------------------------------------------
(* The theorems. *)

HandlesInv == OwnersInv /\ NamesInv

LEMMA InitHandlesInv == Init => HandlesInv
<1> SUFFICES ASSUME Init PROVE HandlesInv
  OBVIOUS
<1>1. TypeOK
  BY InitTypeOK
<1>2. OwnedOnce /\ NumbersAhead
  BY NobodyAssumption DEF Init, OwnedOnce, NumbersAhead, OfTheCApi
<1>3. ValidMeansAlive /\ ListedExactly
  BY DEF Init, ValidMeansAlive, ListedExactly, Deleted
<1>4. OneIndexPerNamespace
  BY DEF Init, OneIndexPerNamespace, IndexOnce, Loaded, HandleHasNamespace, NoEntries, Deleted
<1>5. NoStrayItems
  BY DEF Init, NoStrayItems
<1> QED
  BY <1>1, <1>2, <1>3, <1>4, <1>5 DEF HandlesInv, OwnersInv, NamesInv, AliveInv

LEMMA NextHandlesInv == HandlesInv /\ [Next]_vars => HandlesInv'
  BY NextTypeOK, NextOwners, NextAlive, NextNames DEF HandlesInv, OwnersInv, NamesInv, AliveInv

LEMMA AlwaysHandlesInv == Spec => []HandlesInv
  BY InitHandlesInv, NextHandlesInv, PTL DEF Spec

(***************************************************************************)
(* A valid handle leads to a storage that has not been deleted             *)
(* (nvs_handle_simple.hpp:106), for any number of partitions and handles.  *)
(***************************************************************************)
THEOREM Validity == Spec => []ValidMeansAlive
<1>1. HandlesInv => ValidMeansAlive
  BY DEF HandlesInv, NamesInv, AliveInv
<1> QED
  BY <1>1, AlwaysHandlesInv, PTL

(***************************************************************************)
(* The partition manager lists the valid handles and nothing else          *)
(* (nvs_partition_manager.cpp:88 and 232).                                 *)
(***************************************************************************)
THEOREM Listing == Spec => []ListedExactly
<1>1. HandlesInv => ListedExactly
  BY DEF HandlesInv, NamesInv, AliveInv
<1> QED
  BY <1>1, AlwaysHandlesInv, PTL

(***************************************************************************)
(* No handle object is leaked, shared or deleted twice (nvs_api.cpp:76,    *)
(* nvs_handle_locked.cpp:22).                                              *)
(***************************************************************************)
THEOREM Ownership == Spec => []OwnedOnce
<1>1. HandlesInv => OwnedOnce
  BY DEF HandlesInv, OwnersInv
<1> QED
  BY <1>1, AlwaysHandlesInv, PTL

(***************************************************************************)
(* No two namespaces share an index, and a valid handle has the index of a *)
(* namespace (nvs_storage.cpp:392), for any bound on the indices.          *)
(***************************************************************************)
THEOREM Naming == Spec => []OneIndexPerNamespace
<1>1. HandlesInv => OneIndexPerNamespace
  BY DEF HandlesInv, NamesInv
<1> QED
  BY <1>1, AlwaysHandlesInv, PTL

(***************************************************************************)
(* No item is left behind for a namespace created later, but by an erasure *)
(* of the partition that was cut off and not made up for by a completed    *)
(* one (nvs_storage.cpp:392, nvs_api.cpp:169): through creations without   *)
(* an owner, re-initialisations and uses of handles opened before them,    *)
(* for any number of indices, names and keys.                              *)
(***************************************************************************)
THEOREM Separation == Spec => []NoStrayItems
<1>1. HandlesInv => NoStrayItems
  BY DEF HandlesInv, NamesInv
<1> QED
  BY <1>1, AlwaysHandlesInv, PTL

\* The storage of p ends, and others stay: p is deinitialised.
LEMMA EndsByDeinit ==
  ASSUME HandlesInv, [Next]_vars, NEW p \in Partition, Ends(p)
  PROVE  CloseHandlesAndDeinit(p)
<1> USE DEF Ends, HandlesInv, OwnersInv, storageVars
<1>1. ~Forget
  BY DEF Forget
<1>2. storage' # storage
  OBVIOUS
<1>3. ASSUME NEW q \in Partition, Manage(q) PROVE CloseHandlesAndDeinit(p)
  <2>1. CloseHandlesAndDeinit(q)
    BY <1>2, <1>3 DEF Manage, InitPartition, InitPartitionPtr, ReinitFails, Deinit, DeinitNothing,
                      ErasePartition, TypeOK
  <2>2. q = p
    BY <2>1 DEF CloseHandlesAndDeinit, TypeOK
  <2> QED
    BY <2>1, <2>2
<1>4. ASSUME NEW q \in Partition, NEW n \in Name, NEW readOnly \in BOOLEAN, Open(q, n, readOnly)
      PROVE  FALSE
  BY <1>1, <1>2, <1>4
  DEF Open, OpenC, OpenCxx, OpenHandle, OpenWithoutOwner, OpenWithoutHandle
<1>5. ASSUME NEW h \in Handle, Use(h) PROVE FALSE
  BY <1>2, <1>5 DEF Use, DeleteLocked, SetItem, EraseItem, EraseAll
<1>6. ASSUME NEW c \in Number, Close(c) PROVE FALSE
  BY <1>2, <1>6 DEF Close
<1> QED
  BY <1>1, <1>2, <1>3, <1>4, <1>5, <1>6, OpenedNamespace DEF Next, Restart, vars

(***************************************************************************)
(* deinit_partition() leaves the handles of the C++ API on the other       *)
(* partitions as they are (nvs_partition_manager.cpp:88).                  *)
(***************************************************************************)
THEOREM OthersUntouched == Spec => OthersKeepLockedHandles
<1>1. HandlesInv /\ [Next]_vars =>
        [\A p \in Partition, h \in locked : Ends(p) /\ Stays(h) => simple'[h] = simple[h]]_vars
  <2> SUFFICES ASSUME HandlesInv, [Next]_vars, NEW p \in Partition, NEW h \in locked,
                      Ends(p), Stays(h)
               PROVE  simple'[h] = simple[h]
    OBVIOUS
  <2> USE DEF HandlesInv, OwnersInv, NamesInv, AliveInv
  <2>1. CloseHandlesAndDeinit(p)
    BY EndsByDeinit
  <2>2. h \in Handle /\ h \notin OfTheCApi /\ simple[h].valid /\ ~simple[h].freed
    BY DEF OwnedOnce, Stays, ValidMeansAlive, TypeOK
  <2>3. simple[h] \in Object /\ simple[h] # Deleted
    BY <2>2, ValidObject, DeletedNoObject
  <2>4. simple[h].mStoragePtr # p
    BY <2>1 DEF CloseHandlesAndDeinit, Stays, TypeOK
  <2>5. simple'[h] = [simple[h] EXCEPT !.valid = TRUE, !.freed = FALSE]
    BY <2>1, <2>2, <2>3, <2>4 DEF CloseHandlesAndDeinit, ClosedWith, Invalidated
  <2> QED
    BY <2>2, <2>3, <2>5 DEF Object
<1> QED
  BY <1>1, AlwaysHandlesInv, PTL DEF Spec, OthersKeepLockedHandles

-----------------------------------------------------------------------------
(* The refinement of NamespaceStore. *)

Stored == [p \in Partition |-> [n \in Name |-> StoreOf(p, n)]]
Scopes == [h \in Handle |-> ScopeOf(h)]

LEMMA DeletedScope ==
  ASSUME NEW h \in Handle, simple'[h] = Deleted
  PROVE  ScopeOf(h)' = Promised!NoScope
  BY DEF ScopeOf, Promised!NoScope, Deleted

\* What is closed for the application had no scope, or loses the one it had.
LEMMA ClosedScope ==
  ASSUME HandlesInv, UNCHANGED entry, NEW h \in Handle,
         \/ simple'[h] = simple[h]
         \/ ~simple'[h].valid
  PROVE  ScopeOf(h)' \in {ScopeOf(h), Promised!NoScope}
  BY DEF ScopeOf, NameOf, Promised!NoScope

LEMMA OpenScope ==
  ASSUME HandlesInv, NEW h \in Handle, simple[h].valid
  PROVE  /\ ScopeOf(h) \in Promised!Scope
         /\ ScopeOf(h).part = simple[h].mStoragePtr
         /\ entry[simple[h].mStoragePtr][ScopeOf(h).name] = simple[h].mNsIndex
         /\ ~simple[h].mReadOnly => ScopeOf(h).mode = "readwrite"
<1> USE DEF HandlesInv, OwnersInv, NamesInv, AliveInv
<1>1. simple[h].mNsIndex \in Used(entry[simple[h].mStoragePtr]) /\ simple[h].mStoragePtr \in Partition
  BY ValidObject DEF OneIndexPerNamespace, HandleHasNamespace
<1>2. NameOf(h) # {}
  BY <1>1 DEF Used, NameOf
<1> DEFINE m == CHOOSE n \in Name : n \in NameOf(h)
<1>3. m \in Name /\ m \in NameOf(h)
  BY <1>2 DEF NameOf
<1>4. ScopeOf(h) = [mode |-> IF simple[h].mReadOnly THEN "readonly" ELSE "readwrite",
                    part |-> simple[h].mStoragePtr, name |-> m]
  BY <1>2 DEF ScopeOf
<1> QED
  BY <1>1, <1>3, <1>4 DEF Promised!Scope, NameOf

OpenHaveScopes ==
  \A h \in Handle : simple[h].valid =>
    /\ ScopeOf(h) \in Promised!Scope
    /\ ScopeOf(h).part = simple[h].mStoragePtr
    /\ entry[simple[h].mStoragePtr][ScopeOf(h).name] = simple[h].mNsIndex

LEMMA OpenScopes == HandlesInv => OpenHaveScopes
  BY OpenScope DEF OpenHaveScopes

LEMMA OpenScopesAfter == HandlesInv' => OpenHaveScopes'
  BY OpenScopes, PTL

\* A new namespace is empty, or holds what an erasure left, and no handle there is is on it.
LEMMA WrittenStore ==
  ASSUME HandlesInv, NEW p \in Partition, NEW n \in Name, NEW i \in FirstFree(p),
         storage[p] = "ACTIVE", mNamespaces[p][n] = NONE, WriteEntry(p, n, i), UNCHANGED item
  PROVE  /\ Stored' = Stored \/ Promised!Leftovers(p, n)
         /\ \A h \in Handle : simple'[h] = simple[h] /\ simple[h].valid => NameOf(h)' = NameOf(h)
<1> USE DEF HandlesInv, OwnersInv
<1>1. /\ entry[p][n] = NONE /\ i \in Index \ Used(entry[p])
      /\ entry'[p] = [entry[p] EXCEPT ![n] = i]
      /\ \A q \in Partition \ {p} : entry'[q] = entry[q]
  BY WrittenEntry
<1>2. entry[p] \in [Name -> Index \cup {NONE}]
  BY DEF TypeOK
<1>3. Stored' = Stored \/ Promised!Leftovers(p, n)
  <2>1. /\ StoreOf(p, n) = Nothing /\ StoreOf(p, n)' = item[p][i]
        /\ item[p][i] \in [Key -> Value \cup {NoValue}]
    <3>1. i # NONE /\ entry'[p][n] = i /\ item' = item
      BY <1>1, <1>2
    <3>2. StoreOf(p, n) = Nothing
      BY <1>1 DEF StoreOf
    <3>3. StoreOf(p, n)' = item[p][i]
      BY <3>1 DEF StoreOf
    <3>4. item[p][i] \in [Key -> Value \cup {NoValue}]
      <4>1. i \in Index /\ item \in [Partition -> [Index -> [Key -> Value \cup {NoValue}]]]
        BY <1>1 DEF TypeOK
      <4> HIDE DEF HandlesInv, OwnersInv
      <4> QED
        BY <4>1
    <3> QED
      BY <3>2, <3>3, <3>4
  <2>2. ASSUME NEW q \in Partition, NEW m \in Name, q # p \/ m # n
        PROVE  StoreOf(q, m)' = StoreOf(q, m)
    <3>1. entry'[q][m] = entry[q][m]
      BY <1>1, <1>2, <2>2
    <3> QED
      BY <3>1 DEF StoreOf
  <2>3. Stored' = [Stored EXCEPT ![p][n] = item[p][i]]
    BY <2>1, <2>2 DEF Stored
  <2>4. CASE p \notin cutOff
    <3>1. item[p][i] = Nothing
      BY <1>1, <2>4 DEF NamesInv, NoStrayItems, NoItems
    <3> QED
      <4>1. Stored[p][n] = item[p][i]
        BY <2>1, <3>1 DEF Stored
      <4>2. [Stored EXCEPT ![p][n] = Stored[p][n]] = Stored
        BY DEF Stored
      <4> QED
        BY <2>3, <4>1, <4>2
  <2>5. CASE p \in cutOff
    <3>1. ASSUME NEW h \in Handle, ScopeOf(h) # Promised!NoScope
          PROVE  ScopeOf(h).part # p \/ ScopeOf(h).name # n
      <4>1. simple[h].valid
        BY <3>1 DEF ScopeOf, Promised!NoScope
      <4>2. simple[h].mNsIndex # NONE
        BY <4>1, ValidObject
      <4> QED
        BY <1>1, <4>1, <4>2, OpenScope
    <3>2. Stored[p][n] = Promised!Empty
      BY <2>1 DEF Stored, Promised!Empty, Nothing
    <3> QED
      BY <2>1, <2>3, <2>5, <3>1, <3>2 DEF Promised!Leftovers, Promised!Content, Stored
  <2> QED
    BY <2>4, <2>5
<1>4. ASSUME NEW h \in Handle, simple'[h] = simple[h], simple[h].valid
      PROVE  NameOf(h)' = NameOf(h)
  <2> DEFINE q == simple[h].mStoragePtr
  <2>1. simple[h].mNsIndex \in Used(entry[q]) /\ q \in Partition
    BY <1>4, ValidObject DEF NamesInv, OneIndexPerNamespace, HandleHasNamespace
  <2>2. CASE q # p
    BY <1>1, <1>4, <2>1, <2>2 DEF NameOf
  <2>3. CASE q = p
    <3>1. simple[h].mNsIndex # i /\ simple[h].mNsIndex # NONE
      BY <1>1, <2>1, <2>3 DEF Used
    <3>2. \A m \in Name : entry'[p][m] = simple[h].mNsIndex <=> entry[p][m] = simple[h].mNsIndex
      BY <1>1, <1>2, <3>1
    <3> QED
      BY <1>4, <2>3, <3>2 DEF NameOf
  <2> QED
    BY <2>2, <2>3
<1> QED
  BY <1>3, <1>4

LEMMA CreatedStore ==
  ASSUME HandlesInv, NEW p \in Partition, NEW n \in Name, NEW canCreate \in BOOLEAN,
         storage[p] = "ACTIVE", CreateOrOpenNamespace(p, n, canCreate), UNCHANGED item
  PROVE  /\ Stored' = Stored \/ (mNamespaces[p][n] = NONE /\ Promised!Leftovers(p, n))
         /\ \A h \in Handle : simple'[h] = simple[h] => ScopeOf(h)' = ScopeOf(h)
<1>1. CASE mNamespaces[p][n] # NONE
  <2>1. entry' = entry
    BY <1>1 DEF CreateOrOpenNamespace
  <2> QED
    BY <2>1 DEF Stored, StoreOf, ScopeOf, NameOf
<1>2. CASE mNamespaces[p][n] = NONE
  <2>1. PICK i \in FirstFree(p) : WriteEntry(p, n, i)
    BY <1>2 DEF CreateOrOpenNamespace, CreateNamespace
  <2>2. /\ Stored' = Stored \/ Promised!Leftovers(p, n)
        /\ \A h \in Handle : simple'[h] = simple[h] /\ simple[h].valid => NameOf(h)' = NameOf(h)
    BY <1>2, <2>1, WrittenStore
  <2> QED
    BY <1>2, <2>2 DEF ScopeOf
<1> QED
  BY <1>1, <1>2

\* A step that closes handles, and no other step, is a step Close of the promise.
LEMMA ClosePromised ==
  ASSUME UNCHANGED cutOff, Stored' = Stored,
         \A h \in Handle : ScopeOf(h)' \in {ScopeOf(h), Promised!NoScope}
  PROVE  Promised!Next
  BY DEF Stored, Promised!Next, Promised!Close

\* So is one that creates a namespace besides, unless that holds something.
LEMMA CreatePromised ==
  ASSUME UNCHANGED cutOff, NEW p \in Partition, NEW n \in Name,
         Stored' = Stored \/ Promised!Leftovers(p, n),
         \A h \in Handle : ScopeOf(h)' \in {ScopeOf(h), Promised!NoScope}
  PROVE  Promised!Next
<1>1. CASE Stored' = Stored
  BY <1>1, ClosePromised
<1>2. CASE Promised!Leftovers(p, n)
  <2>1. Promised!Create(p, n)
    BY <1>2 DEF Promised!Create
  <2> QED
    BY <2>1 DEF Promised!Next
<1> QED
  BY <1>1, <1>2

LEMMA SamePromised ==
  ASSUME UNCHANGED cutOff, Stored' = Stored, \A h \in Handle : ScopeOf(h)' = ScopeOf(h)
  PROVE  UNCHANGED Promised!vars
  BY DEF Stored, Promised!vars

LEMMA OpenPromised ==
  ASSUME HandlesInv, HandlesInv', NEW p \in Partition, NEW n \in Name, NEW readOnly \in BOOLEAN,
         NEW h \in Handle, OpenHandle(h, p, n, readOnly)
  PROVE  Promised!Next
<1>1. Stored' = Stored \/ (mNamespaces[p][n] = NONE /\ Promised!Leftovers(p, n))
  BY CreatedStore DEF OpenHandle
<1>2. \A g \in Handle \ {h} : ScopeOf(g)' = ScopeOf(g)
  <2> TAKE g \in Handle \ {h}
  <2>1. simple'[g] = simple[g]
    BY DEF OpenHandle, HandlesInv, OwnersInv, TypeOK
  <2> QED
    BY <2>1, CreatedStore DEF OpenHandle
<1>3. ScopeOf(h) = Promised!NoScope
  BY DEF OpenHandle, ScopeOf, Promised!NoScope, Deleted
<1>4. /\ ScopeOf(h)' \in Promised!Scope /\ ScopeOf(h)'.part = p
      /\ entry'[p][ScopeOf(h)'.name] = mNamespaces'[p][n]
  <2>1. /\ simple'[h].valid /\ simple'[h].mStoragePtr = p
        /\ simple'[h].mNsIndex = mNamespaces'[p][n]
    BY DEF OpenHandle, HandlesInv, OwnersInv, TypeOK
  <2> QED
    BY <2>1, OpenScopesAfter DEF OpenHaveScopes
<1>5. ScopeOf(h)'.name = n
  <2>1. mNamespaces'[p] = entry'[p]
    BY DEF OpenHandle, HandlesInv, NamesInv, OneIndexPerNamespace, Loaded
  <2>2. mNamespaces'[p][n] \in Index
    BY CreateTypeOK DEF OpenHandle, HandlesInv, OwnersInv
  <2>3. ScopeOf(h)'.name \in Name
    BY <1>4 DEF Promised!Scope
  <2> QED
    BY <1>4, <2>1, <2>2, <2>3 DEF HandlesInv, NamesInv, OneIndexPerNamespace, IndexOnce
<1>6. Promised!Open(h)
  <2>1. PICK new \in Promised!Scope : new = ScopeOf(h)'
    BY <1>4
  <2>2. Scopes' = [Scopes EXCEPT ![h] = new]
    BY <1>2, <2>1 DEF Scopes
  <2>3. Stored' = Stored \/ Promised!Leftovers(new.part, new.name)
    BY <1>1, <1>4, <1>5, <2>1
  <2>4. UNCHANGED cutOff
    BY DEF OpenHandle
  <2> QED
    BY <1>3, <2>2, <2>3, <2>4 DEF Stored, Scopes, Promised!Open
<1> QED
  BY <1>6 DEF Promised!Next

\* A method of a handle that may write alters the namespace in its scope.
LEMMA UsePromised ==
  ASSUME HandlesInv, NEW h \in Handle, SetItem(h) \/ EraseItem(h) \/ EraseAll(h)
  PROVE  Promised!Next
<1> USE DEF HandlesInv, OwnersInv
<1>1. simple[h].valid /\ ~simple[h].mReadOnly /\ UNCHANGED <<entry, cutOff, storageVars, handleVars>>
  BY UsedNamespace DEF Writable
<1>2. PICK p \in Partition, i \in Index, m \in Name :
        /\ p = simple[h].mStoragePtr /\ i = simple[h].mNsIndex /\ m = ScopeOf(h).name
        /\ entry[p][m] = i
  BY <1>1, ValidObject, OpenScope DEF Promised!Scope
<1>3. ScopeOf(h).part = p /\ ScopeOf(h).name = m /\ ScopeOf(h).mode = "readwrite"
  BY <1>1, <1>2, OpenScope
<1>4. PICK new \in [Key -> Value \cup {NoValue}] : item' = [item EXCEPT ![p][i] = new]
  BY <1>2, UsedNamespace
<1>5. \A q \in Partition, n \in Name : entry[q][n] # NONE => entry[q][n] \in Index
  BY DEF TypeOK
<1>6. /\ item'[p][i] = new
      /\ \A q \in Partition, j \in Index : q # p \/ j # i => item'[q][j] = item[q][j]
  BY <1>4, <1>2 DEF TypeOK
<1>7. StoreOf(p, m)' = new
  BY <1>1, <1>2, <1>6 DEF StoreOf
<1>8. ASSUME NEW q \in Partition, NEW n \in Name, q # p \/ n # m
      PROVE  StoreOf(q, n)' = StoreOf(q, n)
  <2>1. entry[q][n] # NONE => q # p \/ entry[q][n] # i
    BY <1>2, <1>8 DEF NamesInv, OneIndexPerNamespace, IndexOnce
  <2> QED
    BY <1>1, <1>5, <1>6, <2>1 DEF StoreOf
<1>9. Stored' = [Stored EXCEPT ![p][m] = new]
  BY <1>7, <1>8 DEF Stored
<1>10. Scopes' = Scopes
  BY <1>1 DEF Scopes, ScopeOf, NameOf, handleVars
<1>11. Promised!Alter(h)
  BY <1>1, <1>3, <1>4, <1>9, <1>10 DEF Promised!Alter, Promised!Content, Stored, Scopes
<1> QED
  BY <1>11 DEF Promised!Next

\* Erasing a partition leaves nothing in it, and no handle on it.
LEMMA ErasePromised ==
  ASSUME HandlesInv, HandlesInv', NEW p \in Partition, ErasePartition(p)
  PROVE  Promised!Next
<1> USE DEF HandlesInv, OwnersInv
<1>1. /\ \A q \in Partition \ {p} :
           entry'[q] = entry[q] /\ item'[q] = item[q] /\ (q \in cutOff' <=> q \in cutOff)
      /\ \A n \in Name : entry'[p][n] \in {entry[p][n], NONE}
      /\ \A i \in Index, k \in Key : item'[p][i][k] \in {item[p][i][k], NoValue}
      /\ \/ p \in cutOff' /\ cutOff' = cutOff \cup {p}
         \/ cutOff' = cutOff \ {p} /\ entry'[p] = NoEntries /\ item'[p] = NoItems
  BY Erased DEF ErasePartition
<1>2. /\ \A n \in Name, k \in Key : Stored'[p][n][k] \in {Stored[p][n][k], NoValue}
      /\ entry'[p] = NoEntries => \A n \in Name : Stored'[p][n] = Promised!Empty
  <2> SUFFICES ASSUME NEW n \in Name
               PROVE  /\ \A k \in Key : StoreOf(p, n)'[k] \in {StoreOf(p, n)[k], NoValue}
                      /\ entry'[p] = NoEntries => StoreOf(p, n)' = Promised!Empty
    BY DEF Stored
  <2>1. CASE entry'[p][n] = NONE
    BY <2>1 DEF StoreOf, Nothing, Promised!Empty
  <2>2. CASE entry'[p][n] # NONE
    <3>1. entry'[p][n] = entry[p][n] /\ entry[p][n] \in Index /\ entry'[p] # NoEntries
      BY <1>1, <2>2 DEF TypeOK, NoEntries
    <3> QED
      BY <1>1, <3>1 DEF StoreOf
  <2> QED
    BY <2>1, <2>2
<1>3. \A q \in Partition \ {p}, n \in Name : StoreOf(q, n)' = StoreOf(q, n)
  BY <1>1 DEF StoreOf
<1>4. Stored' = [Stored EXCEPT ![p] = Stored'[p]]
  <2>1. \A q \in Partition \ {p} : Stored'[q] = Stored[q]
    BY <1>3 DEF Stored
  <2>2. /\ Stored = [q \in Partition |-> Stored[q]]
        /\ Stored' = [q \in Partition |-> Stored'[q]]
    BY DEF Stored
  <2> QED
    BY <2>1, <2>2
<1>5. storage'[p] = "none"
  BY DEF ErasePartition, CloseHandlesAndDeinit, storageVars, TypeOK
<1>6. ASSUME NEW h \in Handle
      PROVE  /\ ScopeOf(h)' \in {ScopeOf(h), Promised!NoScope}
             /\ ScopeOf(h)' # Promised!NoScope => ScopeOf(h)'.part # p
  <2>1. CASE ~simple'[h].valid
    BY <2>1 DEF ScopeOf, Promised!NoScope
  <2>2. CASE simple'[h].valid
    <3>1. simple'[h].mStoragePtr # p
      BY <1>5, <2>2 DEF NamesInv, AliveInv, ValidMeansAlive
    <3>2. /\ simple[h].valid /\ simple'[h].mStoragePtr = simple[h].mStoragePtr
          /\ simple'[h].mNsIndex = simple[h].mNsIndex /\ simple'[h].mReadOnly = simple[h].mReadOnly
      <4>1. CASE storage[p] = "none"
        BY <2>2, <4>1 DEF ErasePartition, handleVars
      <4>2. CASE CloseHandlesAndDeinit(p)
        BY <2>2, <4>2, ClosedKept DEF NamesInv
      <4> QED
        BY <4>1, <4>2 DEF ErasePartition
    <3>3. simple[h].mStoragePtr \in Partition \ {p}
      BY <3>1, <3>2, ValidObject
    <3>4. NameOf(h)' = NameOf(h)
      BY <1>1, <3>2, <3>3 DEF NameOf
    <3>5. ScopeOf(h)' = ScopeOf(h)
      BY <2>2, <3>2, <3>4 DEF ScopeOf
    <3>6. ScopeOf(h).part = simple[h].mStoragePtr
      BY <3>2, OpenScope
    <3> QED
      BY <3>3, <3>5, <3>6
  <2> QED
    BY <2>1, <2>2
<1>7. Promised!Erase(p)
  BY <1>1, <1>2, <1>4, <1>6 DEF Stored, Promised!Erase
<1> QED
  BY <1>7 DEF Promised!Next

\* Flash stays, and objects are deleted, invalidated or as before.
LEMMA EndPromised ==
  ASSUME HandlesInv, UNCHANGED flashVars,
         \A h \in Handle : simple'[h] = simple[h] \/ ~simple'[h].valid
  PROVE  Promised!Next
<1>1. Stored' = Stored
  BY DEF flashVars, Stored, StoreOf
<1> QED
  BY <1>1, ClosedScope, ClosePromised DEF flashVars

LEMMA NextPromised ==
  ASSUME HandlesInv, HandlesInv', [Next]_vars
  PROVE  [Promised!Next]_(Promised!vars)
<1> USE DEF HandlesInv, OwnersInv
<1>1. ASSUME UNCHANGED <<flashVars, handleVars>>
      PROVE  UNCHANGED Promised!vars
  BY <1>1, SamePromised DEF flashVars, handleVars, Stored, StoreOf, ScopeOf, NameOf
<1>2. ASSUME NEW p \in Partition, Manage(p)
      PROVE  [Promised!Next]_(Promised!vars)
  <2>1. CASE InitPartition(p) \/ InitPartitionPtr(p) \/ ReinitFails(p)
    BY <1>1, <2>1 DEF InitPartition, InitPartitionPtr, ReinitFails
  <2>2. CASE Deinit(p)
    <3>1. \A h \in Handle : simple'[h] = simple[h] \/ ~simple'[h].valid
      BY <2>2, ClosedKept DEF Deinit, NamesInv
    <3> QED
      BY <2>2, <3>1, EndPromised DEF Deinit
  <2>3. CASE DeinitNothing(p)
    <3>1. \A h \in Handle : simple'[h] = simple[h] \/ ~simple'[h].valid
      BY <2>3 DEF DeinitNothing, Deleted
    <3> QED
      BY <2>3, <3>1, EndPromised DEF DeinitNothing
  <2>4. CASE ErasePartition(p)
    BY <2>4, ErasePromised
  <2> QED
    BY <1>2, <2>1, <2>2, <2>3, <2>4 DEF Manage
<1>3. ASSUME NEW p \in Partition, NEW n \in Name, NEW readOnly \in BOOLEAN, Open(p, n, readOnly)
      PROVE  [Promised!Next]_(Promised!vars)
  <2>1. CASE OpenWithoutOwner(p, n, readOnly)
    <3>1. /\ Stored' = Stored \/ Promised!Leftovers(p, n)
          /\ \A h \in Handle : ScopeOf(h)' = ScopeOf(h)
      BY <2>1, CreatedStore DEF OpenWithoutOwner, handleVars
    <3> QED
      BY <2>1, <3>1, CreatePromised DEF OpenWithoutOwner
  <2>2. CASE OpenWithoutHandle(p, n)
    <3>1. Stored' = Stored \/ Promised!Leftovers(p, n)
      BY <2>2, WrittenStore DEF OpenWithoutHandle
    <3>2. \A h \in Handle : ScopeOf(h)' = Promised!NoScope
      BY <2>2, DeletedScope DEF OpenWithoutHandle, Forget
    <3> QED
      BY <2>2, <3>1, <3>2, CreatePromised DEF OpenWithoutHandle
  <2>3. ASSUME NEW h \in Handle, OpenHandle(h, p, n, readOnly)
        PROVE  Promised!Next
    BY <2>3, OpenPromised
  <2> QED
    BY <1>3, <2>1, <2>2, <2>3 DEF Open, OpenC, OpenCxx
<1>4. ASSUME NEW h \in Handle, Use(h)
      PROVE  [Promised!Next]_(Promised!vars)
  <2>1. CASE DeleteLocked(h)
    <3>1. \A g \in Handle : simple'[g] = simple[g] \/ ~simple'[g].valid
      BY <2>1 DEF DeleteLocked, Delete, Deleted, TypeOK
    <3> QED
      BY <2>1, <3>1, EndPromised DEF DeleteLocked, flashVars
  <2> QED
    BY <1>4, <2>1, UsePromised DEF Use
<1>5. ASSUME NEW c \in Number, Close(c)
      PROVE  [Promised!Next]_(Promised!vars)
  <2>1. \A g \in Handle : simple'[g] = simple[g] \/ ~simple'[g].valid
    BY <1>5 DEF Close, Delete, Deleted, TypeOK
  <2> QED
    BY <1>5, <2>1, EndPromised DEF Close, flashVars
<1>6. CASE Restart
  <2>1. \A g \in Handle : ~simple'[g].valid
    BY <1>6 DEF Restart, Forget, Deleted
  <2> QED
    BY <1>6, <2>1, EndPromised DEF Restart
<1>7. CASE UNCHANGED vars
  BY <1>1, <1>7 DEF vars
<1> QED
  BY <1>2, <1>3, <1>4, <1>5, <1>6, <1>7, OpenedNamespace DEF Next

LEMMA InitPromised == Init => Promised!Init
<1> SUFFICES ASSUME Init PROVE Promised!Init
  OBVIOUS
<1>1. \A p \in Partition, n \in Name : StoreOf(p, n) \in Promised!Content
  BY DEF Init, StoreOf, NoEntries, Nothing, Promised!Content
<1>2. \A h \in Handle : ScopeOf(h) = Promised!NoScope
  BY DEF Init, ScopeOf, Deleted, Promised!NoScope
<1> QED
  BY <1>1, <1>2 DEF Init, Promised!Init

(***************************************************************************)
(* README, "Namespaces": what a handle reads and writes is one namespace   *)
(* of one partition, and what this holds only handles on it change, and    *)
(* the erasing of the partition: the steps of NvsHandles are steps of      *)
(* NamespaceStore, or change nothing.  As NamespaceStore says, a namespace *)
(* created after an erasure that was cut off may hold what this left.      *)
(***************************************************************************)
THEOREM Scoping == Spec => NamespacesImplemented
<1>1. Init => Promised!Init
  BY InitPromised
<1>2. HandlesInv /\ HandlesInv' /\ [Next]_vars => [Promised!Next]_(Promised!vars)
  BY NextPromised
<1> QED
  BY <1>1, <1>2, AlwaysHandlesInv, PTL DEF Spec, NamespacesImplemented, Promised!Spec
=============================================================================
