------------------------------ MODULE NvsHandles ------------------------------
(***************************************************************************)
(* The partition manager (src/src/nvs_partition_manager.cpp), the          *)
(* namespaces of a storage (nvs_storage.cpp), the handles of the C API     *)
(* (nvs_api.cpp) and of the C++ API (nvs_cxx_api.cpp), and who owns what:  *)
(* storages and handles are objects on the heap that point to one another. *)
(* Every API function takes the lock for its whole body (NvsLock), so each *)
(* is one action.  A call that only answers an error, or reads, changes    *)
(* nothing and is not an action.                                           *)
(***************************************************************************)
EXTENDS Integers, FiniteSets

CONSTANTS
  Partition,   \* partitions, by label
  Name,        \* namespaces, by name
  Opened,      \* the namespaces the application opens: of which partition, and by what name
  Key, Value, NoValue,
  MaxNs,       \* the largest index of a namespace (254 in the code)
  Handle,      \* NVSHandleSimple objects
  MaxOpens,    \* bound on handle numbers given out
  AllocMayFail \* may the allocation of a handle fail?

ASSUME MaxNsAssumption    == MaxNs \in Nat \ {0}
ASSUME MaxOpensAssumption == MaxOpens \in Nat
ASSUME OpenedAssumption   == Opened \subseteq Partition \X Name
ASSUME SwitchAssumption   == AllocMayFail \in BOOLEAN

Index == 1 .. MaxNs
NONE  == 0           \* no index: the name is not that of a namespace

VARIABLES
  \* flash
  entry,             \* entry[p][n]: index in the item that describes namespace n
  item,              \* item[p][i][k]: value of the item of key k and index i
  cutOff,            \* a history variable: partitions whose last erasure was not completed
  \* Storage objects, at most one for a partition: it is looked up by its name
  storage,           \* mState of the storage of p, "none" when it is not on the list
  mNamespaces,       \* mNamespaces[p][n]: index of a namespace, or NONE
  mNamespaceUsage,   \* mNamespaceUsage[p]: the indices in use
  nvs_partition_list,
  \* handles
  simple,            \* simple[h]: members of an NVSHandleSimple object, Invalid or Deleted
  nvs_handles,       \* the objects the partition manager knows of
  s_nvs_handles,     \* s_nvs_handles[c]: the object number c of the C API leads to
  s_nvs_next_handle,
  locked             \* the objects owned by the application's NVSHandleLocked objects

flashVars   == <<entry, item, cutOff>>
storageVars == <<storage, mNamespaces, mNamespaceUsage, nvs_partition_list>>
handleVars  == <<simple, nvs_handles, s_nvs_handles, s_nvs_next_handle, locked>>
vars        == <<flashVars, storageVars, handleVars>>

Number  == 1 .. MaxOpens
Nobody  == "nobody"   \* s_nvs_handles[c] when c is not open
Deleted == [valid |-> FALSE, mReadOnly |-> FALSE, mNsIndex |-> NONE, mStoragePtr |-> "none",
            freed |-> FALSE]
\* What is left of an object made invalid: each method looks at valid before the rest.
Invalid == [valid |-> FALSE, mReadOnly |-> FALSE, mNsIndex |-> NONE, mStoragePtr |-> "none",
            freed |-> TRUE]

ASSUME NobodyAssumption == Nobody \notin Handle
ASSUME LabelAssumption  == "none" \notin Partition

\* mStoragePtr: the partition whose storage it points to; freed: that was deleted.
Object == [valid : BOOLEAN, mReadOnly : BOOLEAN, mNsIndex : Index, mStoragePtr : Partition,
           freed : BOOLEAN]

TypeOK ==
  /\ entry \in [Partition -> [Name -> Index \cup {NONE}]]
  /\ item \in [Partition -> [Index -> [Key -> Value \cup {NoValue}]]]
  /\ cutOff \in SUBSET Partition
  /\ storage \in [Partition -> {"none", "INVALID", "ACTIVE"}]
  /\ mNamespaces \in [Partition -> [Name -> Index \cup {NONE}]]
  /\ mNamespaceUsage \in [Partition -> SUBSET Index]
  /\ nvs_partition_list \in SUBSET Partition
  /\ simple \in [Handle -> Object \cup {Deleted, Invalid}]
  /\ nvs_handles \in SUBSET Handle
  /\ s_nvs_handles \in [Number -> Handle \cup {Nobody}]
  /\ s_nvs_next_handle \in 0 .. MaxOpens
  /\ locked \in SUBSET Handle

NoEntries == [n \in Name |-> NONE]
Nothing   == [k \in Key |-> NoValue]
NoItems   == [i \in Index |-> Nothing]

\* All partitions erased, the program started.
Init ==
  /\ entry = [p \in Partition |-> NoEntries]
  /\ item = [p \in Partition |-> NoItems]
  /\ cutOff = {}
  /\ storage = [p \in Partition |-> "none"]
  /\ mNamespaces = [p \in Partition |-> NoEntries]
  /\ mNamespaceUsage = [p \in Partition |-> {}]
  /\ nvs_partition_list = {}
  /\ simple = [h \in Handle |-> Deleted]
  /\ nvs_handles = {}
  /\ s_nvs_handles = [c \in Number |-> Nobody]
  /\ s_nvs_next_handle = 0
  /\ locked = {}

\* The program starts again.
Forget ==
  /\ storage' = [p \in Partition |-> "none"]
  /\ mNamespaces' = [p \in Partition |-> NoEntries]
  /\ mNamespaceUsage' = [p \in Partition |-> {}]
  /\ nvs_partition_list' = {}
  /\ simple' = [h \in Handle |-> Deleted]
  /\ nvs_handles' = {}
  /\ s_nvs_handles' = [c \in Number |-> Nobody]
  /\ s_nvs_next_handle' = 0
  /\ locked' = {}

-----------------------------------------------------------------------------
(* Initialising a partition. *)

Used(names) == {names[n] : n \in Name} \ {NONE}

\* Storage::init: the namespaces are read from flash.
LoadNamespaces(p, names) ==
  /\ mNamespaces' = [mNamespaces EXCEPT ![p] = names]
  /\ mNamespaceUsage' = [mNamespaceUsage EXCEPT ![p] = Used(names)]

\* init_partition() answers ESP_OK at once when there is a storage already.
InitPartition(p) ==
  /\ storage[p] = "none"
  /\ LoadNamespaces(p, entry[p])
  /\ storage' = [storage EXCEPT ![p] = "ACTIVE"]
  /\ nvs_partition_list' = nvs_partition_list \cup {p}
  /\ UNCHANGED <<flashVars, handleVars>>

\* nvs_flash_init_partition_ptr() initialises a storage there is already again.
InitPartitionPtr(p) ==
  /\ LoadNamespaces(p, entry[p])
  /\ storage' = [storage EXCEPT ![p] = "ACTIVE"]
  /\ UNCHANGED <<nvs_partition_list, flashVars, handleVars>>

\* load() fails, or there is no memory for all the namespaces.  Those the storage
\* still knows of are not looked at before it is initialised again.
ReinitFails(p) ==
  /\ storage[p] # "none"
  /\ storage' = [storage EXCEPT ![p] = "INVALID"]
  /\ LoadNamespaces(p, NoEntries)
  /\ UNCHANGED <<nvs_partition_list, flashVars, handleVars>>

-----------------------------------------------------------------------------
(* Deinitialising and erasing a partition. *)

OfTheCApi == {h \in Handle : \E c \in Number : s_nvs_handles[c] = h}

\* Mutants of ClosedWith and of Invalidated.
NoneClosed(p) == {}

AllListed(p) == nvs_handles

\* clearAndFreeNodes() deletes every handle of the C API, whatever partition it is of.
ClosedWith(p) == OfTheCApi

\* deinit_partition() invalidates what is left of the storage's handles.
Invalidated(p) == {h \in nvs_handles \ ClosedWith(p) : simple[h].mStoragePtr = p}

\* close_handles_and_deinit() of a partition that has a storage.
CloseHandlesAndDeinit(p) ==
  /\ simple' = [h \in Handle |->
       IF h \in ClosedWith(p) THEN Deleted
       ELSE IF h \in Invalidated(p) THEN Invalid
       ELSE [simple[h] EXCEPT !.freed = @ \/ simple[h].mStoragePtr = p]]
  /\ nvs_handles' = (nvs_handles \ ClosedWith(p)) \ Invalidated(p)
  /\ s_nvs_handles' = [c \in Number |-> Nobody]
  /\ storage' = [storage EXCEPT ![p] = "none"]
  /\ mNamespaces' = [mNamespaces EXCEPT ![p] = NoEntries]
  /\ mNamespaceUsage' = [mNamespaceUsage EXCEPT ![p] = {}]
  /\ nvs_partition_list' = nvs_partition_list \ {p}
  /\ UNCHANGED <<s_nvs_next_handle, locked>>

Deinit(p) ==
  /\ storage[p] # "none"
  /\ CloseHandlesAndDeinit(p)
  /\ UNCHANGED <<flashVars>>

\* It answers NOT_INITIALIZED, after the handles of the C API have been deleted.
DeinitNothing(p) ==
  /\ storage[p] = "none"
  /\ simple' = [h \in Handle |-> IF h \in ClosedWith(p) THEN Deleted ELSE simple[h]]
  /\ nvs_handles' = nvs_handles \ ClosedWith(p)
  /\ s_nvs_handles' = [c \in Number |-> Nobody]
  /\ UNCHANGED <<s_nvs_next_handle, locked, flashVars, storageVars>>

EraseAllSectors(p) ==
  /\ entry' = [entry EXCEPT ![p] = NoEntries]
  /\ item' = [item EXCEPT ![p] = NoItems]
  /\ cutOff' = cutOff \ {p}

NamesOn(p) == {n \in Name : entry[p][n] # NONE}
ItemsOn(p) == {ik \in Index \X Key : item[p][ik[1]][ik[2]] # NoValue}

\* One sector after the other is erased, until the flash fails or the power does: what
\* is on the others is left, items without their namespace and namespaces without theirs.
EraseSomeSectors(p) ==
  /\ \E names \in SUBSET NamesOn(p), left \in SUBSET ItemsOn(p) :
       /\ entry' = [entry EXCEPT ![p] = [n \in Name |-> IF n \in names THEN @[n] ELSE NONE]]
       /\ item' = [item EXCEPT ![p] =
            [i \in Index |-> [k \in Key |-> IF <<i, k>> \in left THEN @[i][k] ELSE NoValue]]]
  /\ cutOff' = cutOff \cup {p}

\* esp_partition_erase_range()
EraseRange(p) == EraseAllSectors(p) \/ EraseSomeSectors(p)

ErasePartition(p) ==
  /\ IF storage[p] # "none"
     THEN CloseHandlesAndDeinit(p)
     ELSE UNCHANGED <<storageVars, handleVars>>
  /\ EraseRange(p)

-----------------------------------------------------------------------------
(* Opening and closing handles. *)

Free(p) == Index \ mNamespaceUsage[p]
FirstFree(p) == {i \in Free(p) : \A j \in Free(p) : i <= j}

\* Mutant: an error of writeItem() is not looked at.
WriteEntryUnchecked(p, n, i) == entry' = [entry EXCEPT ![p][n] = i] \/ UNCHANGED entry

\* writeItem() of the item that gives n its index.  When it fails nothing is created.
WriteEntry(p, n, i) == entry' = [entry EXCEPT ![p][n] = i]

\* Mutant: the index of a namespace is not marked as used.
CreateNamespaceUnmarked(p, n) ==
  \E i \in FirstFree(p) :
    /\ WriteEntry(p, n, i)
    /\ mNamespaces' = [mNamespaces EXCEPT ![p][n] = i]
    /\ UNCHANGED mNamespaceUsage

\* createOrOpenNamespace() of a new name: the first index that is free, if any is.
CreateNamespace(p, n) ==
  \E i \in FirstFree(p) :
    /\ WriteEntry(p, n, i)
    /\ mNamespaces' = [mNamespaces EXCEPT ![p][n] = i]
    /\ mNamespaceUsage' = [mNamespaceUsage EXCEPT ![p] = @ \cup {i}]

CreateOrOpenNamespace(p, n, canCreate) ==
  IF mNamespaces[p][n] # NONE THEN UNCHANGED <<entry, mNamespaces, mNamespaceUsage>>
  ELSE canCreate /\ CreateNamespace(p, n)

\* open_handle() allocates an object and puts it on the list of handles.
OpenHandle(h, p, n, readOnly) ==
  /\ storage[p] = "ACTIVE"
  /\ CreateOrOpenNamespace(p, n, ~readOnly)
  /\ simple[h] = Deleted
  /\ simple' = [simple EXCEPT ![h] =
       [valid |-> TRUE, mReadOnly |-> readOnly, mNsIndex |-> mNamespaces'[p][n],
        mStoragePtr |-> p, freed |-> FALSE]]
  /\ nvs_handles' = nvs_handles \cup {h}
  /\ UNCHANGED <<item, cutOff, storage, nvs_partition_list>>

\* nvs_open_from_partition()
OpenC(h, p, n, readOnly) ==
  /\ s_nvs_next_handle < MaxOpens
  /\ OpenHandle(h, p, n, readOnly)
  /\ s_nvs_next_handle' = s_nvs_next_handle + 1
  /\ s_nvs_handles' = [s_nvs_handles EXCEPT ![s_nvs_next_handle + 1] = h]
  /\ UNCHANGED <<locked>>

\* open_nvs_handle_from_partition()
OpenCxx(h, p, n, readOnly) ==
  /\ OpenHandle(h, p, n, readOnly)
  /\ locked' = locked \cup {h}
  /\ UNCHANGED <<s_nvs_handles, s_nvs_next_handle>>

\* No memory for the NVSHandleEntry or NVSHandleLocked: the handle is deleted again,
\* and a namespace created for it stays.
OpenWithoutOwner(p, n, readOnly) ==
  /\ AllocMayFail
  /\ storage[p] = "ACTIVE" /\ mNamespaces[p][n] = NONE
  /\ CreateOrOpenNamespace(p, n, ~readOnly)
  /\ UNCHANGED <<item, cutOff, storage, nvs_partition_list, handleVars>>

\* No memory for the handle: a null pointer is put on the list, for the check that
\* follows looks at the address of the result.  The exception restarts the program
\* (as Restart does), and a namespace created for the handle stays.
OpenWithoutHandle(p, n) ==
  /\ AllocMayFail
  /\ storage[p] = "ACTIVE" /\ mNamespaces[p][n] = NONE
  /\ \E i \in FirstFree(p) : WriteEntry(p, n, i)
  /\ Forget
  /\ UNCHANGED <<item, cutOff>>

\* Mutant: the object stays on the partition manager's list.
DeleteUnlisted(h) ==
  /\ simple' = [simple EXCEPT ![h] = Deleted]
  /\ UNCHANGED nvs_handles

\* ~NVSHandleSimple() takes itself off the list, where it may not be any more.
Delete(h) ==
  /\ simple' = [simple EXCEPT ![h] = Deleted]
  /\ nvs_handles' = nvs_handles \ {h}

Close(c) ==
  /\ s_nvs_handles[c] # Nobody
  /\ Delete(s_nvs_handles[c])
  /\ s_nvs_handles' = [s_nvs_handles EXCEPT ![c] = Nobody]
  /\ UNCHANGED <<s_nvs_next_handle, locked, flashVars, storageVars>>

\* ~NVSHandleLocked()
DeleteLocked(h) ==
  /\ h \in locked
  /\ Delete(h)
  /\ locked' = locked \ {h}
  /\ UNCHANGED <<s_nvs_handles, s_nvs_next_handle, flashVars, storageVars>>

-----------------------------------------------------------------------------
(* Using handles: nvs_set_*, nvs_erase_key, nvs_erase_all and the methods of *)
(* NVSHandleLocked go through the same methods of NVSHandleSimple.           *)

\* Mutant: a handle opened read-only is as good as any other.
WritableAnyway(h) ==
  /\ h \in OfTheCApi \cup locked
  /\ simple[h].valid
  /\ storage[simple[h].mStoragePtr] = "ACTIVE"

\* What the method and the storage check before anything is written.
Writable(h) ==
  /\ h \in OfTheCApi \cup locked
  /\ simple[h].valid /\ ~simple[h].mReadOnly
  /\ storage[simple[h].mStoragePtr] = "ACTIVE"

SetItem(h) ==
  /\ Writable(h)
  /\ \E k \in Key, v \in Value :
       item' = [item EXCEPT ![simple[h].mStoragePtr][simple[h].mNsIndex][k] = v]
  /\ UNCHANGED <<entry, cutOff, storageVars, handleVars>>

EraseItem(h) ==
  /\ Writable(h)
  /\ \E k \in Key :
       item' = [item EXCEPT ![simple[h].mStoragePtr][simple[h].mNsIndex][k] = NoValue]
  /\ UNCHANGED <<entry, cutOff, storageVars, handleVars>>

\* eraseNamespace(), which an error may end before all is erased.
EraseAll(h) ==
  /\ Writable(h)
  /\ \E left \in SUBSET Key :
       item' = [item EXCEPT ![simple[h].mStoragePtr][simple[h].mNsIndex] =
                  [k \in Key |-> IF k \in left THEN @[k] ELSE NoValue]]
  /\ UNCHANGED <<entry, cutOff, storageVars, handleVars>>

\* The power fails, and the program starts again.
Restart == Forget /\ UNCHANGED flashVars

-----------------------------------------------------------------------------
Manage(p) ==
  \/ InitPartition(p) \/ InitPartitionPtr(p) \/ ReinitFails(p)
  \/ Deinit(p) \/ DeinitNothing(p) \/ ErasePartition(p)

Open(p, n, readOnly) ==
  \/ \E h \in Handle : OpenC(h, p, n, readOnly) \/ OpenCxx(h, p, n, readOnly)
  \/ OpenWithoutOwner(p, n, readOnly) \/ (~readOnly /\ OpenWithoutHandle(p, n))

Use(h) == DeleteLocked(h) \/ SetItem(h) \/ EraseItem(h) \/ EraseAll(h)

Next ==
  \/ \E p \in Partition : Manage(p)
  \/ \E pn \in Opened, readOnly \in BOOLEAN : Open(pn[1], pn[2], readOnly)
  \/ \E h \in Handle : Use(h)
  \/ \E c \in Number : Close(c)
  \/ Restart

Spec == Init /\ [][Next]_vars
=============================================================================
