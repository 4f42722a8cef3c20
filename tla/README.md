# NVS: a TLA+ model of the non-volatile storage library

NVS keeps key-value pairs in raw flash. It has to get by with a medium on which
bits can only be cleared one at a time and set a sector at a time, with power
that may fail at any moment, and with flash operations that may return errors.
Most of its code is about what is left behind then: half-written entries, two
versions of an item, a page that is being moved. These modules model that code,
the TLC runs check it on small partitions, and the proofs show for every
partition that the structures it works on stay intact. Around that core are models
of what the API adds: namespaces, handles and who owns them, iterators, and the
lock.

Paths below are relative to `src/src/` unless they begin with `src/`.

## 1. The system

| component | state | operations | correct when |
|---|---|---|---|
| **Page** (`nvs_page.*`, `compressed_enum_table.hpp`, `nvs_item_hash_list.*`) | flash: header (state word, sequence number, CRC), a bitmap of entry states, entries of 32 bytes; RAM: `mState`, `mSeqNumber`, `mNextFreeEntry`, `mFirstUsedEntry`, `mUsedEntryCount`, copy of the bitmap, hash list | `load`, `writeItem`, `findItem`, `eraseItem`, `copyItems`, `initialize`, `markFull`, `markFreeing`, `erase` | flash is only written where it is blank; the members agree with the bitmap; what a power failure left is repaired without losing an item |
| **Page manager** (`nvs_pagemanager.*`, `intrusive_list.h`) | `mPageList` in the order of sequence numbers, `mFreePageList`, `mSeqNumber` | `load` with its recoveries, `requestNewPage`, `activatePage` | each sector is in one list, once; the last page is the newest and the only ACTIVE one; a free page is kept; moving a page loses nothing, whenever it is interrupted |
| **Storage** (`nvs_storage.*`) | the page manager, `mState`; the list of namespaces | `init`, `writeItem`, `readItem`, `eraseItem`, `eraseNamespace` | a partition is a map from items to values; a request takes effect as a whole, also when interrupted; what was acknowledged stays |
| **Multi-page blobs** (`nvs_storage.cpp`) | chunks and an index entry per blob, in one of two version ranges of chunk numbers | `writeMultiPageBlob`, `readMultiPageBlob`, `eraseMultiPageBlob`, `eraseOrphanDataBlobs` | one complete version is read at any time; parts of another are removed by the next load |
| **Namespaces** (`nvs_storage.cpp`) | `mNamespaces`, `mNamespaceUsage`, an item for each on flash | `createOrOpenNamespace`, `init` | an index belongs to one namespace, and an index that is free has no items (unless an erasure of the partition was cut off) |
| **Iterators** (`nvs_storage.cpp`, `nvs_api.cpp`) | a pointer to a page and an entry index | `nvs_entry_find`, `nvs_entry_next`, `nvs_release_iterator` | what stays is reported, once, whatever else is set or erased meanwhile |
| **Partition manager, handles** (`nvs_partition_manager.*`, `nvs_api.cpp`, `nvs_cxx_api.cpp`, `nvs_handle_*`) | lists of storages, of partitions and of valid handles; the C API's numbers; handles owned by the application | `nvs_flash_init`, `nvs_flash_deinit`, `nvs_flash_erase`, `nvs_open`, `nvs_close`, `open_nvs_handle` | a valid handle leads to a live storage and to its own namespace; each object has one owner |
| **Lock** (`nvs_platform.hpp`) | one mutex, created on first use | `init`, constructor and destructor | one function at a time; each call returns |
| Partition access, lookup, encryption (`nvs_partition*.cpp`, `nvs_encrypted_partition.cpp`) | none, or a key | forward reads, writes and erases, transform data | -- |
| Partition generator (`src/nvs_partition_generator`) | none | offline tool that writes an image | -- |

How they interact. An API function takes the lock, finds the handle, and calls
the storage; the storage calls the page manager for its list of pages and for a
new page, and the pages themselves for items; pages write to the partition. All
calls are synchronous and nothing calls back. The lock admits one request at a
time, so concurrency between requests is the lock's problem and not the
storage's. What runs *against* a request is the power supply and the flash
driver: between any two flash operations, or within one, the program may stop
for good, and any flash operation may return an error.

What is hard to test in it, and is listed with its line in `PROJECT.json`
under `hazards`:

* power failures at each point of writing, updating, erasing, moving and
  *recovering*, and any sequence of them;
* pointers and counters that become stale while a request moves pages about
  (`findPage` in `writeItem`, `mFirstUsedEntry`);
* the partition being full, where only the one page kept free lets anything move,
  and a blob that runs out of space after some of its chunks were written;
* an error in the middle, after which the application goes on;
* handles that point to a storage that is initialised again, deinitialised or
  erased, through one API or the other;
* an iterator whose page changes, or is freed, between two calls;
* long legal sequences: a page passes from free to ACTIVE to FULL to FREEING to
  free again, through two lists and a sequence number.

## 2. Modules

    NvsPages                sectors, Page objects, page-level operations
      NvsPageManager        load() and requestNewPage(), one action per flash operation
        NvsStorage          requests, power failures, flash errors; Init, Next, Spec
          NvsStorageProperties   invariants, action properties, liveness, refinement
            MCNvsStorage         instances for TLC
            NvsStorageProofs, NvsEntryProofs,
            NvsStoreProofs       proofs, each on top of the one before
          NvsIterator       iterators over the pages of NvsStorage
            MCNvsIterator   instances for TLC (with those of MCNvsStorage); proofs are in NvsStoreProofs
    NvsBlobPages            items of several entries, finding them, a page manager in large steps
      NvsBlob               multi-page blobs: requests, power failures, load(); Init, Next, Spec
        NvsBlobProperties   invariants, action properties, liveness, refinement
          MCNvsBlob         instances for TLC
          NvsBlobProofs     proofs
    NvsStrings              items of several entries on one page, word by word; Init, Next, Spec
      NvsStringProperties   invariants, refinement
        MCNvsStrings        instances for TLC
        NvsStringProofs     proofs
    NvsHandles              partition manager, namespaces, handles; Init, Next, Spec
      NvsHandlesProperties  invariants, an action property, refinement
        MCNvsHandles        instances for TLC
          MCNvsErasure      with a history variable, for one run
        NvsHandlesProofs    proofs
    NvsLock                 the lock, tasks; Init, Next, Spec, FairSpec, properties
      MCNvsLock, NvsLockProofs
    NamespaceStore          what handles promise; instantiated by NvsHandlesProperties
    KVStore                 what a partition promises; instantiated by the properties of the core, of blobs and of strings
    NvsSequenceProofs       lemmas on sequences, used by NvsStorageProofs, NvsBlobProofs and NvsStringProofs

**NvsPages** models `nvs_page.cpp`. The flash part of a page are four functions of
the sector, `header`, `headerSeq`, `entryTable`, `entryData`; the members of the
Page object have the names of the code (`mPageSeq` is `Page::mSeqNumber`). A
*state-changing operator* (`Initialize`, `WriteEntryData`, `WriteEntryState`,
`EraseEntry`, `AlterPageState`, `ErasePage`, `LoadPage`, ...) is what one flash
operation of the code does together with the assignments that follow it. Reading
(`FindOnPage`, `Superseding`, `HalfWritten`) is by expressions. The hash list is
part of `FindOnPage`: an entry is found by its hash and its key is compared.
`OlderEntries`, the duplicate check of `mLoadEntryTable`, compares the hash only,
as the code does.

**NvsPageManager** models `nvs_pagemanager.cpp`. The two intrusive lists are sequences of
sectors. `pc` says before which flash operation the program is; local variables
that live across flash operations are variables of the model (`loadIndex` the
index of the loop of `load()`, `erasedPage`, `readEntryIndex`). `load()` is
`LoadSector`, `RepairHalfWritten`, `RepairDuplicate`, `InsertPage`, `Settle` (from
the end of the loop to the first flash operation after it), `EraseOldVersion`,
`RecoverFreeing` and `CheckFreePages`; `requestNewPage()` is `RequestNewPage`,
`ActivatePage`, `MarkFreeing`, `CopyInit`, `CopyData`, `CopyState`, `FreePage`.

**NvsStorage** models the primitive-item part of `nvs_storage.cpp` and closes the system:
`Begin` (a request of the application), `FindForSet`, `TryWrite`, `WriteData`,
`WriteState`, `MarkFull`, `EraseFound`, `EraseOfNamespace`, `Return`. `Crash` is a power
failure before the next flash operation or part-way through it (`HalfDone`),
after which everything but the flash is lost and `load()` runs. `FlashError` is an
operation that returns an error, after which the page object is INVALID and the
error travels to the caller as the code has it: `REMOVE_FAILED` for the old version
in `writeItem()`, ignored in `mLoadEntryTable`, passed on elsewhere. `Reinitialize` is
the storage being initialised again, by a restart, by `nvs_flash_deinit()` and `nvs_flash_init()`, or by `nvs_flash_init_partition_ptr()`.
(`nvs_flash_init()` alone does not load again: `init_partition()` answers OK when there is a storage, `nvs_partition_manager.cpp:45-48`.)

**NvsBlobPages** and **NvsBlob** model the other half of `nvs_storage.cpp`, blobs that are
written as chunks over several pages with an index entry at the end. The first
module has pages of items that span several entries, `findItem()` with its
chunk numbers and versions, and `requestNewPage()` as one step: that it can be cut
off anywhere is what `NvsStorage` checks, and here a power failure falls before or
after it. In the second each write or erase of an item is an action:
`writeMultiPageBlob()` is `SkipPage`, `SkipToNewPage`, `NoTailroom`, `WriteChunk`, `MarkFull`, `NextPage`,
`WriteIndex` and, when it fails, `Cleanup`; `eraseMultiPageBlob()` is `EraseIndex`, `EraseChunk`,
`ChunksErased`; `Find` and `EraseOldFormat` are what `writeItem()` does before and after, for
blobs of the format without an index too. `Crash` is a power failure, after which
`RepairDuplicate`, `EraseOldVersion` and `EraseOrphan` are the parts of `load()` and `init()` that look at
items. `pc = "aborted"` is an assertion that failed.

**NvsStrings** looks at one page more closely: an item is a header entry and entries of data, and an entry has a first word
that may or may not read ffffffff (`FirstWordBlank`; strings may well begin so, `BlankFirst`), which is all by which
`mLoadEntryTable` tells what was half-written. `AlterWord` is `alterEntryState()`, or one word of
`alterEntryRangeState()`, which goes through the bitmap from the end of a range. `writeItem()` is `TryWrite`, then `WriteData`,
`AlterWord` and `Entered` for the header, for the entries that the data fills, all of them at once, and for the one it does not;
`eraseEntryAndSpan()` is `EraseEntryAndSpan`, `AlterWord` and `Erased`, with the
members changed where the code changes them. `load()` is `LoadTable`, `ClearHalfWritten`, `ScanSkip`, `ScanIncomplete`, `ScanComplete`. The hash
list is the set of indices in it. `PowerFailure` falls between any two words, also within the data of an entry. `FlashError`
makes the page INVALID where the code does, and leaves it as it is where the code does. The page starts with its header, and when it is full
the answer is `NOT_ENOUGH_SPACE`: that there are other pages is the core's matter.

**NvsHandles** models everything above a storage that has state. On flash a partition has,
for each name, the index of the namespace (`entry`) and, for each index, values of keys
(`item`); that these survive power failures and page moves is the core's matter, and here
writing them is one step. In RAM there are at most one `Storage` object for a partition (`storage`,
`mNamespaces`, `mNamespaceUsage`), `NVSHandleSimple` objects (`simple`), and three kinds of
references to them: the partition manager's `nvs_handles`, the C API's `s_nvs_handles`, by number,
and `locked`, the C++ objects of the application. A call of the API is one action, since it holds the
lock: `InitPartition`, `InitPartitionPtr` (which initialises a storage that is there already
again), `ReinitFails`, `Deinit`, `DeinitNothing`, `ErasePartition`, `OpenC`, `OpenCxx`, `OpenWithoutOwner`
and `OpenWithoutHandle` (allocations that fail), `Close`, `DeleteLocked`, `SetItem`, `EraseItem`, `EraseAll`,
and `Restart`. A handle keeps the pointer to a storage that was deleted; `freed` tells that from
a pointer to a storage that was made for the partition afterwards. `Invalid` stands for what is left of an object that
was made invalid: the methods look at `valid` before any other member. The exception of `OpenWithoutHandle` is a restart, so that action
is about the namespace that was created before it. `Opened` are the namespaces that the application opens.

The erasure of a partition (`EraseRange`) goes from sector to sector: it is `EraseAllSectors`, or, cut off by an error or a
power failure, `EraseSomeSectors`, after which any of the namespaces and items may be left, for they may lie on any sector.
The history variable `cutOff` has the partitions whose last erasure ended so.

**NamespaceStore** is what handles promise: a map from partition, namespace and key to values, and a
`scope` for each open handle, outside which it alters nothing. The refinement mapping goes through the
index: the scope of a handle is the namespace that has its index, the store of a namespace
is the items of its index. Creating a namespace in a partition of `cutOff` may give it any content (`Leftovers`),
and that is all the abstract specification grants: a namespace that holds something, or on which a handle is open, never
comes to hold anything but by a handle of its own.

**NvsIterator** adds to `NvsStorage` one iterator, `[page, entryIndex, sought]`, and its three API functions
between requests. `NextEntry` follows `nextEntry()`: from the entry index in the page it points to, and
from 0 in the pages that follow it in whichever list it is on. Two more variables are what an
application could write down: `steady`, the keys whose only item has not moved since the iterator
was opened, and `reported`.

**NvsLock** models `nvs::Lock` as the steps at which tasks interleave: the test and the creation in
`init()`, reading `mSemaphore` in the constructor, taking the mutex, the body, giving it in the destructor,
which reads `mSemaphore` again. Functions are of three kinds: those that call `init()` first, those that do not,
and those that make an `NVSHandleLocked`, whose constructor calls `init()` in the body.

**KVStore** is the abstract specification: a map `store` that a set or an erase
changes in one step, a clear item by item, and a restart not at all.
`NvsStorageProperties` gives the refinement mapping: the value of an item is that of
its newest version on flash, by page sequence number and entry index.
`NvsBlobProperties` maps blobs to the same specification: the value of a key is what
the chunks hold that its newest index counts, failing that the blob of the old
format. `WriteIndex` and `EraseIndex` are the steps that change it.

## 3. What the runs check

The instances of the core are in `MCNvsStorage`. Two page layouts occur. With three sectors (the least
with which a page can be moved while another stays) and two or three entries,
what is decided between pages happens: which is freed, where the old version is,
in which order they are loaded. With two sectors and three entries (the least with
which a page that is freed can hold two items and an unused entry; with two
keys on three sectors the page chosen never holds more than one) copying takes
several steps and can be cut off between them, and sets are refused. Two keys
(three in `exhaustion`) and two values. More sectors or entries add room, not a
new case: each decision in the code depends on whether a page is empty, has room,
has unused entries, and whether it is the last of its list. The runs that end in
a counterexample have three sectors of two entries.

| run | what may go wrong in it | properties |
|---|---|---|
| `recovery` | two power failures, anywhere (so also one while `load()` recovers from another), and one operation that fails, after which the storage is initialised again; weak fairness of the program | `StoreImplemented`, `Consistent`, `OrderInv` (which includes `ListSorted`), `LoadSucceeds`, `EveryCallEnds`, `FreeingEnds` |
| `exhaustion` | three keys and two sectors, so that all the entries of a page come to be used, sets are refused and pages with two items are moved; one power failure, one operation that fails | `TypeOK`, `FreePageKept`, `RefusedOnlyWhenFull`, `CopyComplete`, `FirstUsedExact`, `OnlyCopiesWhileFreeing`, `EraseDiscardsNothing`, `StoreImplemented` |
| `flash_errors_ignored` | one operation fails and the application goes on; one power failure; an iterator is open while keys are set and erased | `ControlInv`, `PagesListed`, `OneActivePage`, `WritesOnlyBlank`, `IterationComplete` |

The instances of blobs are in `MCNvsBlob`; a value is a sequence of as many entries as it
takes. Pages have five entries, so that a chunk may fill its page, leave room for
an index, or leave room for less than `TailroomMin`, the tenth of a page below which
no blob is begun (two entries here, for the case to occur). A blob of four entries takes
two chunks unless it begins on an empty page.

| run | what may go wrong in it | properties |
|---|---|---|
| `blob_update` | two blobs of one key, one perhaps in the old format, replace each other; four pages; two power failures | `BlobsImplemented`, `OneIndex`, `NeverAborts`, `BlobTypeOK` |
| `blob_full` | blobs of two keys, room for one, so that space runs out before the first chunk, between two chunks and after the last; one power failure, weak fairness | `BlobsImplemented`, `NoChunkLeft`, `RefusedForSpace`, `CleanupFinds`, `BlobRequestEnds` |

In `blob_full` pages have six entries and the blobs five, for all these cases to occur.
In `blob_update` there is always room for both versions, and in `blob_full` only the first version
of a blob is refused: where a *second* version is refused the code damages the
first (`blob_refused` below), and where a chunk is moved before the set is refused it is left (`blob_moved.cfg`);
then `BlobsImplemented`, `NoChunkLeft` and even `NeverAborts` need not hold. `CleanupFinds` is the condition that neither
happens: each step of the cleanup finds the chunk it is to erase. It is what the proofs about blobs assume (section 4), and
`blob_full` shows that refusals, with chunks written and after power failures, meet it.

| run | what may go wrong in it | properties |
|---|---|---|
| `strings` | two keys, strings of three and four entries, a page of nine with three entry states to a word of the bitmap; two power failures, the second perhaps while `load()` repairs what the first left, and one operation that fails | `PageExact`, `StringsImplemented` |

With nine entries a page holds two items, and a third only if it was made of the shorter ones; with three states to a word an item may lie
within one word or in two, with its header alone in the first of them or together with data. One of the strings begins with ffffffff and fills two entries, the other
fills two and has ffffffff at the beginning of the third. So `load()` meets entries that it takes for blank and are not, entries
WRITTEN after one that is EMPTY, and incomplete items on an ACTIVE and on a FULL page. After an error the application initialises again.

| run | what may go wrong in it | properties |
|---|---|---|
| `handles` | two partitions, three names for two indices, two handles of either API; initialisation again, deinitialisation, erasure that is completed or cut off, failed allocations and restarts at any time | `ValidMeansAlive`, `ListedExactly`, `OwnedOnce`, `OneIndexPerNamespace`, `NoStrayItems`, `NamespacesImplemented`, `OthersKeepLockedHandles` |
| `locking` | three tasks, any of the three kinds of functions; the mutex may not be made, and so be made later or twice | `MutualExclusion`, `EveryCallReturns` |

In `handles`, two indices are the least for which there is one to confuse, and a third name finds
none left: three names are opened in one partition, and one of them in the other, too (`MCOpened`). Two handles suffice for one of each API, or two on one namespace. The C API
gives out one number between two restarts (`MaxOpens`), because numbers count up for ever: a handle that is deleted and a
new one in its place occur with the C++ API, which has no numbers. With one number the part
of `OwnedOnce` that is about two numbers of the C API is trivially true in the run; the theorem `Ownership` has it for any. The handles are symmetric, and so are the names
that are opened in the first partition only.

In the run an iterator is opened before the first power failure or flash error (`MaxFailures`; the proof has no such bound);
sets, erases, a flash error and moves of pages happen under it. It asks for all types in all namespaces
(`Criteria`): other criteria only make it pass over more. A key is no longer `steady` once its
item has moved or been replaced, nor is any once a page has been freed or has become INVALID.

`locking` and its proof have a *premise*, `OneByOne`: as long as there is no mutex, calls come one
after the other. The code needs it. Two first calls of `nvs_flash_init()` at once may each create a
mutex and hold different ones, and a function that entered without one gives, at its end, a
mutex that it has not taken. The premise is what an application does that initialises before
it starts its tasks. `MutualExclusion` also excludes that no mutex could be made: the result of `init()` is
not looked at. The premise takes from both properties the race of two first calls, so neither says anything of it. And since a `Lock` is
given by its destructor, each way out of a body leads to `Leave`: a way out that does not give, or a second taking in the body, has no
place in the model; what `EveryCallReturns` is about is a mutex that is made late, or not at all, and starvation.
(`MaxMutexes`, the number made between two restarts, is two in the run: the second is made when the
first attempt failed and, without the premise, whenever tasks raced.)

Bounds, all named constants: `MaxSeq` (no set is begun once this many pages were
activated; a request may take the number two further), `MaxCrashes`, `MaxFaults`.
`FaultsWhileLoading` lets an operation of `load()` fail: it is FALSE in the runs, and free in the
proofs.
With `MaxSeq = 3` in `recovery` four pages or more are activated on three sectors, so a sector is freed and
activated again. Erases and clears are never bounded. There is no bound on the number
of requests.

*Deadlock* is checked in every run: the program can always go on.

*Fairness* (`FairSpec`): weak fairness of `Manage \/ Serve \/ Reinitialize`, that is, of the
program as a whole. The code is one thread that holds the lock; it continues as
long as it is scheduled and has no choice between steps. No fairness is assumed
of requests, of power failures or of flash errors. `Reinitialize` is included because, in `recovery`, an operation may
fail, and the application is then assumed to initialise again: it is the one step of the application that is
relied on, and without it a page that an error left FREEING would stay so for ever. For blobs it is the same: weak fairness of `Return \/ Read \/ Write
\/ Erase \/ Load`, none of `Begin` and `Crash`. For the lock each task gets to run (`WF_vars(Run(t))`) and a
task that waits for the mutex is not passed over for ever (`SF_vars(Take(t))`): FreeRTOS hands a
mutex to the waiting task of highest priority that has waited longest, and the tasks are taken to be of
one priority. No fairness of `Call`: a task need not call anything.

### Where the code and its documentation disagree

The first four are runs that end in a counterexample, quoted under `findings`; the other three are further configurations to the same
effect (`tlc -config blob_moved.cfg MCNvsBlob.tla`, `tlc -config retyped_key.cfg MCNvsStorage.tla`, `tlc -config string_error_ignored.cfg MCNvsStrings.tla`), for the record.

* `hash_collision`: two keys of the ACTIVE page with the same 24-bit hash; `load()` takes
  the earlier for an older version of the later and erases it
  (`nvs_page.cpp:628`), although README says that collisions are dealt with.
* `writes_after_error`: the erase at the end of `requestNewPage()` fails and the application
  goes on; what it then writes is erased by the next `load()`.
* `blob_refused`: a blob that does not fit is written over another; the cleanup of
  `writeMultiPageBlob()` counts chunks from 0 whatever the version (`nvs_storage.cpp:259`), so it
  leaves the chunks it should erase and erases one of the value it should leave.
* `erase_cut_off`: the erasure of a partition is cut off when the sector with a namespace's name is erased and one with its
  items is not (`nvs_api.cpp:169`, `191`). The next new namespace gets the first free index (`nvs_storage.cpp:406`), and with it the items that were
  left with it: a value is read in a namespace in which none was ever set, which README.rst:50 excludes (`NoForeignValues`). `NoStrayItems` and
  `NamespacesImplemented` say how far this goes: only in partitions whose last erasure was not completed, and only to namespaces created in it.
* `blob_moved.cfg`: `writeMultiPageBlob()` remembers the page of each chunk (`nvs_storage.cpp:225`), but the next
  `requestNewPage()` may free that page and move the chunk (`nvs_storage.cpp:234`), for it has the most unused entries when
  something was erased on it before. The cleanup then does not find the chunk, which stays until the next `init()`. In the run a page has six entries,
  of which the first four were erased, and `TailroomMin` is 1, so that a blob is begun in a rest of two. The chunk is one of a *new* blob, counted from 0: this
  is not the counting of `blob_refused`. The property is `ChunksWhereWritten`: the comment at `nvs_storage.cpp:256` says "we should erase all the written chunks".
* `retyped_key.cfg`: `Storage::findItem` turns TYPE_MISMATCH into NOT_FOUND (`nvs_storage.cpp:155`), so a key set
  with another type is stored twice and `KeysUnique` does not hold; README.rst:42 says that an error is returned.
* `string_error_ignored.cfg`: writing the states of a string's data fails; `alterEntryRangeState()` does not make the page INVALID
  (`nvs_page.cpp:772`), so the application that goes on writes the next item over that data. Before that, `EmptyIsBlank` no longer
  holds: README.rst:149 says of an empty entry that nothing is written into it yet.

Noticed in the code while modelling, and not the subject of a run:

* After `ESP_ERR_NVS_REMOVE_FAILED` the update is finished by a re-initialization only if
  no other item was written meanwhile: `load()` looks for the old version of the
  last item of the last page only (`nvs_pagemanager.cpp:62-83`).
* `Page::load()` ignores the result of `mLoadEntryTable()` (`nvs_page.cpp:94`): after a flash error
  there `nvs_flash_init()` answers OK, and the items of the page are gone until the
  next one.
* A blob of length 0 is refused for lack of space on a page with at most one entry
  left, although other pages are free: a tailroom of 0 is not less than its length
  (`nvs_storage.cpp:186`, `203`). `RefusedForSpace` holds of blobs that are not empty.
* `nvs_flash_deinit_partition()` of one partition closes the handles of the C API on *all* partitions
  (`nvs_api.cpp:88`), also when that partition is not initialised and the answer is
  `ESP_ERR_NVS_NOT_INITIALIZED`. `OthersKeepLockedHandles` holds of the handles of the C++ API only.
* `open_handle()` checks the address of its result instead of the result (`nvs_partition_manager.cpp:207`), so without
  memory it puts a null pointer on the list of handles.
* `createOrOpenNamespace()` leaks its list node when the item cannot be written (`nvs_storage.cpp:421-424`), and
  compares the first 15 characters of names only: a longer name opens the namespace of its prefix if there is one.
* `nvs_flash_init_partition_ptr()` does not put its partition object on the list: it is never deleted
  (`nvs_api.cpp:103`), and `init_custom()` looks for it there in vain (`nvs_partition_manager.cpp:90-96`). A failed second
  initialisation deletes only the new one. It also passes the sector of the partition's address on the chip as the first sector, which
  `NVSPartition` takes relative to the partition.
* `init_partition()` answers OK when there is a storage, also one that an earlier call has left INVALID
  (`nvs_partition_manager.cpp:45-48`); requests then answer NOT_INITIALIZED.
* `NVSHandleSimple::fillStats`, `debugDump`, `findEntry`, `nextEntry` and `calcEntriesInNamespace` do not look at `valid`
  (`nvs_handle_simple.cpp:113-131`); no function of the API calls them on a handle that could be invalid.
* An iterator ends early when the page it points to is freed: `++page` then goes through the
  free pages. After a deinitialisation it points to a deleted storage and must not be used.

## 4. What is proved

The proofs hold for every number of sectors and entries, every set of keys,
types and values, any number of power failures and flash errors, and (with the
exceptions marked in the table) whether or
not the application goes on after an error and whether or not an operation of `load()` fails; for every set of partitions, names, keys and handles;
and for every set of tasks. They assume what the `ASSUME`s of
the modules say: at least two sectors, at least one entry, that a
blank or partly written entry is not mistaken for an item (in `NvsStrings` nor is an entry of the data of a string: it does not have the CRC of
a header), that a string takes two entries at least and fits on a page and that `NoValue` is none, at least one index and one mutex, that `Nobody` is not
a handle or a task, that `"none"` is not a partition, and that what the application opens are names in partitions.

| theorem | says |
|---|---|
| `TypeCorrect` (NvsStorageProofs) | `Spec => []TypeOK` |
| `ControlCorrect` (NvsStorageProofs) | `Spec => []ControlInv`: what the program is about to use is there |
| `ListsCorrect` (NvsStorageProofs) | `Spec => []PagesListed`: every sector that was loaded is in exactly one list, once |
| `OrderHolds`, `ListStaysSorted`, `OneActive` (NvsStorageProofs) | `~FaultsWhileLoading`: `Spec => []OrderInv`, `[]ListSorted`, `[]OneActivePage` |
| `FreePageStays` (NvsStorageProofs) | `~ContinueAfterFailure`: `Spec => []FreePageKept` |
| `FirstUsedHolds` (NvsEntryProofs) | `~FaultsWhileLoading`: `Spec => []FirstUsedExact` |
| `OnlyBlankWritten` (NvsEntryProofs) | `~FaultsWhileLoading`: `Spec => WritesOnlyBlank`, an action property |
| `CopyCompletes` (NvsEntryProofs) | neither: `Spec => []CopyComplete`; with it `FreeingHolds`, `CopyHolds` |
| `CopiesOnly` (NvsEntryProofs) | neither: `Spec => []OnlyCopiesWhileFreeing` |
| `NothingDiscarded` (NvsEntryProofs) | neither: `Spec => EraseDiscardsNothing`, an action property |
| `LoadAlwaysSucceeds` (NvsEntryProofs) | neither: `Spec => []LoadSucceeds`; with it `SpaceHolds` |
| `OldVersionStays` (NvsEntryProofs) | neither: the old version that `writeItem()` found stays on a page in use until it is erased |
| `RefusedWhenFull` (NvsEntryProofs) | neither: `Spec => []RefusedOnlyWhenFull` |
| `ItemsOnce` (NvsStoreProofs) | neither, `OneTypePerKey`: `Spec => []Consistent`; with it `StoreHolds` |
| `StoreRefined` (NvsStoreProofs) | neither, `OneTypePerKey`, `DistinctHashes`: `Spec => StoreImplemented`: `NvsStorage` implements `KVStore` |
| `IterationIsComplete` (NvsStoreProofs) | `IteratorSpec => IterationComplete`, an action property |
| `BlobTypeCorrect` (NvsBlobProofs) | `Spec => []BlobTypeOK`; with it `TypeHolds` |
| `RoomHolds` (NvsBlobProofs) | `Spec =>` always a free page, and room for the index of a blob when its chunks are written: two of the three assertions behind `NeverAborts` |
| `BlobRefusedForSpace` (NvsBlobProofs) | `TailroomMin > 0`, no empty blob: `Spec => []RefusedForSpace` |
| `OneIndexHolds` (NvsBlobProofs) | `PageCount < 128`: `Spec => []OneIndex`; the invariants are `CountInv`, `NumberInv` and `HeadInv` |
| `NoChunkLeftHolds`, `NeverAbortsHolds` (NvsBlobProofs) | `PageCount < 128`: `Spec /\ []CleanupFinds => []NoChunkLeft`, `[]NeverAborts`; with them `DataHolds` |
| `BlobsRefined` (NvsBlobProofs) | `PageCount < 128`: `Spec /\ []CleanupFinds => BlobsImplemented`: `NvsBlob` implements `KVStore` |
| `RefusedKeepsValueHolds` (NvsBlobProofs) | `PageCount < 128`: `Spec /\ []CleanupFinds => RefusedKeepsValue`, an action property |
| `PageIsExact` (NvsStringProofs) | `~ContinueAfterFailure`: `Spec => []PageExact`; with it `StringsHold` |
| `StringsRefined` (NvsStringProofs) | `~ContinueAfterFailure`: `Spec => StringsImplemented`: `NvsStrings` implements `KVStore` |
| `Validity`, `Listing`, `Ownership` (NvsHandlesProofs) | `Spec => []ValidMeansAlive`, `[]ListedExactly`, `[]OwnedOnce` |
| `Naming` (NvsHandlesProofs) | `Spec => []OneIndexPerNamespace` |
| `Separation` (NvsHandlesProofs) | `Spec => []NoStrayItems`: a free index has no items, except in a partition whose last erasure was cut off |
| `OthersUntouched` (NvsHandlesProofs) | `Spec => OthersKeepLockedHandles`, an action property |
| `Scoping` (NvsHandlesProofs) | `Spec => NamespacesImplemented`: `NvsHandles` implements `NamespaceStore`, in which a namespace created after an erasure that was cut off may begin with what it left |
| `Exclusion` (NvsLockProofs) | `Spec => []MutualExclusion`, under the premise `OneByOne`: calls come one after the other until there is a mutex |

*The argument.* `TypeOK` is not inductive: `WriteEntryData` indexes `entryData` with
`mNextFreeEntry`, which the types allow to be past the end; the operators on
`mPageList` take its last element, which need not exist; `requestNewPage()` activates
the head of `mFreePageList`. So `TypeOK` is proved together with `ControlInv`, which says of each
place in the program what was established before it: `RoomInv`, that there is
room wherever an entry is about to be written; `MoveInv`, that the list has a last
page, that a page being freed is in it and is not the only one; `PhaseInv` and
`RequestInv`, which request and which loop variable belong to which place. Their
conjunction `Inv` is inductive. `NvsStorageProofs` first shows for each page operation that it
keeps the page variables in their types, from what its caller guarantees; it also
has the facts about sequences (the last element, removal, insertion at a
position); then it has one step per action. `FlashError` is the case that needs
most: it may leave any page INVALID at any point.

`PagesListed` then is inductive given `Inv`. The steps that move a page between the lists
are `InsertPage` (`Position` lies within the list), `Settle`, `ActivatePage` (the head of
the one list becomes the last of the other), `FreePage` and `RecoverFreeing` (`Without` removes
exactly one page, because each occurs once).

*The order of the pages.* That the list is sorted and that one page is ACTIVE hold each other up, through what is
on flash. `OrderInv` says: the numbers in the headers are distinct and the ACTIVE page has the largest
(`Numbers`); a Page object knows the state its header has, or is INVALID (`Agree`); what `load()` has read it knows the
number of (`Loaded`); a free page has no number (`FreeUnused`); and after loading, the ACTIVE page is the last of the list, none is
ACTIVE when a new one is asked for (`ActiveLast`), and the next number is larger than all on flash, also than those of pages
that failed (`NextNumber`). `Settle`, where the last page of the sorted list becomes the newest, is where the facts about flash
become facts about the list, and `ActivatePage` and `CopyInit` are where they go back. It is assumed that no operation of
`load()` fails: a page on which one does goes to the list of free pages with its header and its items, which contradicts
`FreeUnused`, and a second ACTIVE page is then possible.

*The free page.* `FreePageKept` needs to know of the two ways through `ActivatePage`: with no page to be freed it is taken only
from a list of two (`Reserve`); with one, the page that is erased takes its place. It is assumed that the application initialises
again after a failure: between the activation and the erase the list may be empty, and an error
there leaves it so.

*The entries of a page.* `FirstUsedExact` compares a member with the bitmap, and every operation changes both. What makes
`NextUsedEntry` right after an erase is that no entry in use lies at or after `mNextFreeEntry` (`Tracked`); what makes
`WriteEntryState` right is that the entry it takes comes after all in use, for which the entries must be used without
a gap (`Prefix`): otherwise the first empty entry that `Page::load()` finds would not be the end. A page
that gets its header must be blank (`BlankUnused`) and its object must have nothing of an earlier life (`Untracked`). And an entry
is written only on a page that belongs in the list (`Writable`). `EntryInv` is their conjunction, inductive given the invariants above.

*The data of a page.* `WritesOnlyBlank` compares what is written with what the flash holds, which the bitmap only suggests: a write
that was cut off leaves data in an entry that still reads as empty. `DataInv` says that nothing lies beyond the first empty entry, that
that entry is blank unless it is being written or `load()` is about to repair it, and that `mUsedEntryCount` is the number of entries written.

*Moving a page.* `FreeingInv` says who may be FREEING: one sector, which after loading is `erasedPage`, and what the new page is meanwhile.
`CopyInv` says how far the copy has come: the new page holds, in their order and without gaps, the items that the old one holds before
`readEntryIndex`, each at the place that is its rank among them. With `readEntryIndex` past the last it is all of them, which
is `CopyComplete`. `OnlyCopiesWhileFreeing` follows for as long as the program runs, and stays over a power failure because a
page that is FREEING is written to no more. So the page that `load()` erases holds nothing of its own, and the page that `FreePage`
erases nothing that is not copied: `NothingDiscarded`. These theorems, and those of the next paragraph, assume both that no operation of `load()` fails and that the application
initialises again after a failure: "neither" in the table stands for `~FaultsWhileLoading` and `~ContinueAfterFailure`.

*Room.* `load()` fails when it finds no free page. `SpaceInv` says that there always is a sector without a number, unless a page is
being moved, in which case the ACTIVE one can be erased: `LoadSucceeds`. A request is refused when all pages but one are in use and
none has an unused entry; that none is being moved or without a header at that moment follows from `FreeingInv`. `OldKept` follows `findPage`
through `requestNewPage()`: the page may be moved, and be the one that is freed, but then its items are on the new one, where `writeItem()` looks for them.

*The store.* A *version* is an entry that is WRITTEN on a sector with a number (`Live`). `Unique` says when an item may have two: they are an
item and its copy (`Copy`: one on the FREEING page, one on the ACTIVE page), or one is `Fresh`, the last item of the ACTIVE page while none is
FREEING, and the other is about to be erased, by the last step of `writeItem()`, by the scan of the page or by the step of `load()` that follows the
scans (`Unsettled`). That `load()` only looks for an old version of the *last* item is enough because of this. Nothing of it is inductive
without what `writeItem()` found at its beginning: if it found no version there is still none when it writes (`NoneFound`), and if it found one, that version, or its copy,
is still on flash, on `findPage` or where the items of that page went when it was freed (`FoundKept`); of the two then on flash `findItem()` meets the older first, by the
order of the list of pages, or of the entries. `ItemsHeld` and `Pending` say that only items of the application are written. `StoreInv` is the conjunction,
inductive given all the invariants above, for keys that are set with one type (`OneTypePerKey`; with several, `findItem()` gives up at the wrong one:
`retyped_key.cfg`). `ItemsOnce` is the case that no request is in progress.

The refinement rests on a rule for its mapping (`StoredValue`): the newest version of an item, by number and index, is one that has no `Fresh` version
next to it (`Top`), and two such are copies, hence equal. So a step changes no value if every `Top` version stays one, or leaves an equal one
(`SameValues`): all steps of `load()`, here with `DistinctHashes` (see `hash_collision`), all of `requestNewPage()`, every
interrupted operation, and the erasure of the old version at the end of `writeItem()`. What is left is `WriteState`, which is the step `Set`,
`EraseFound` for `eraseItem()`, which is `Erase`, and `EraseOfNamespace`, which is `ClearOne` and in the end `Cleared`; the answers are `Refuse`, `Done`, `NotFound`, and `Return`, `Crash`
and `Reinitialize` are `Restart`. (`Finish` of `KVStore` is the same step as `Restart` there.) The two assumptions about keys are properties of what is stored; the runs `recovery` and `exhaustion` make them too.

*Iterators.* `IterationInv` says of each item that has stayed where it was that it is in one place and is either ahead of the iterator
in the list of pages or has been reported (`Split`). `nextEntry()` moves exactly one item from the one side to the other (`NextEntryProperty`, `NextSplit`).
A step of the storage keeps both sides: after `load()` the list of pages only grows at its end, or a page is freed that had items to be read, which ends
the promise (`OrderKept`); what is found in an entry does not change until the entry is erased (`EntriesKept`); and all pages with items to be read are on the list (`ReadInv`).
No hypothesis about failures is needed, and none about when the iterator is opened: `MaxFailures` is any number.

*Blobs.* An item of a blob spans several entries, and every other property of blobs rests on the items staying whole: `PageInv` says of a page that an item has
all its entries, that an entry of data belongs to an item before it, that nothing follows the first empty entry, and that a page without a header is blank. That is kept by erasing (`WithoutProperty`:
the entries of one item and no others), by writing at the first empty entry (`WrittenProperty`) and, the one that is hard to see, by `copyItems()`: it leaves no gaps, so the entry at `j` is the one of rank `j + 1`
among those in use, and the entries of one item have consecutive ranks (`CompactProperty`). `PagesInv` adds what `PagesListed` says in the core, and where a page may be ACTIVE or have room. Together with the types of
what the program remembers of the chunks it writes, and what `findItem()` returns (`FindPageProperty`, `IndexProperty`: an item, with the key, kind and version asked for, that is on a page), it is `TypeInv`, which is inductive.

A blob is refused in five places. That the free page is the only one in each, and that room for the index is left in `RoomHolds`, depends on how the page came to be the last: a page that `RequestNewPage` gave is either blank, or was moved because it had
unused entries, so it has a tailroom (`TailroomNew`), at least that of the page that was skipped for it or of the pages filled before. The premise that a blob is not empty is needed: one that is gets refused on a page with one entry left (above), whatever is free; and with `TailroomMin = 0` no page would be skipped.

*One index.* A key has two indices, or an index and a blob of the old format, from the writing of the new one to the erasure of the old, and a power failure may come between. What
makes `load()` erase the right one is that the new index is the newest item on flash: nothing is written before the old one is gone. `HeadInv` says so. Of two heads (indices and
blobs of the old format) of one key, one is the last item of the ACTIVE page, and an index, and this only while a request or `load()` is about to erase the other; what a request is about to replace is the
other version that it found (`FindHeads`), or a blob of the old format, and no other head of that key exists when it writes its index. From there on there are three ways. The request itself erases
what it replaces and finds that, not the new index (`ReplacedGone`: on one page the older comes first, and `findItem()` with a version passes over the other). Or `load()` finds both on the ACTIVE page, as
duplicates in its hash list (`RepairDuplicateHeads`), or on two pages, by the last item of the last page (`EraseOldVersionHeads`). All other steps
only move, keep or erase heads (`StepHeads`, with the injection `NothingNew` from the places after a step to those before).

An item is a head by its kind, but the hash of the list has the chunk number, and the number that an index has in its place, `CHUNK_ANY` = 255, means "any" to `findItem()`. A chunk of the second version, whose numbers begin at 128, must not get it:
`NumberInv`. Of the chunks that another one follows all but the first use their page up, so the chunks written and the pages that are not full are together at most one more than the pages (`CountInv`). With fewer
than 128 pages that leaves the numbers below 255, which is the premise of the theorem. It is needed: the bound that `writeMultiPageBlob()` has of its own (`src/src/nvs_storage.cpp:174`) allows the data of 127 full pages, and such a blob, when its first chunk goes to
the rest of a page, takes 128 chunks, of which the last would be number 128 + 127 in the second version. No run has a partition of that size.

*The chunks of a blob.* `DataInv` is about what is on flash, wherever it is: `Content`, the set of the items, which page moves do not change. No two chunks of a key have the same number
(`OneChunk`); every index on flash counts a whole blob (`Complete`: its chunks are there and hold, one after the other, a blob of the size the index gives); and a chunk that no index counts is one that the
request in progress has written or is about to erase, unless `load()` has still to erase it (`Owned`). `VersionInv` says how far a request is: what a set has written so far is the beginning of its blob
(`Holds`), the version it writes has no index yet, the one it replaces has. Two facts carry it. The numbers of the two versions do not meet, 127 chunks from 0 and from 128 on, so writing or erasing the one is nothing to the other. And
a search for a chunk finds the one there is (`OneChunk`), so that reading gives the blob (`HoldsProperty`) and `readMultiPageBlob()` and `cmpMultiPageBlob()` neither miss a chunk nor come to their assertions. The step that does not keep
`DataInv` by itself is `Cleanup`: a chunk that it does not find stays, owned by nobody, and one that it should not find is missed by its index.

That is why these theorems assume `[]CleanupFinds`, that is, they are about the behaviours in which each set that is refused finds the chunks it has written, under the numbers it counts and on the pages it remembers. The code does not
ensure that; `blob_refused` and `blob_moved.cfg` are the two ways in which it fails, one for each half of the definition. What the proofs say about the code is that nothing else
goes wrong: in every partition of fewer than 128 pages blobs are right until a set is refused in one of these two ways. All else about refusals is in the behaviours that remain, and `blob_full` has them.
`BlobInv` is the conjunction of `TypeInv`, `RoomForIndex`, `CountInv`, `NumberInv`, `HeadInv` and `DataInv`; each rests on some of those before it, `DataInv` on all.

*Blobs as a store.* `BlobsRefined` follows `KVStore` step by step. The value of a key is decided by one head, the one that stands (`Standing`): it has no rival, or is the newest. `StoredIs` shows that this is what the mapping `Stored` reads, which goes by page and index. Then
a step changes no value if it leaves the standing head and its chunks: page moves (`SameHeadStored`), the writing and the erasing of chunks that no index on flash counts (`RequestStored`, `ChunkStored`), and the erasing of a head that has
a newer rival, by the request or by `load()` (`RivalErased`). The two steps that do change one are `WriteIndex`, where the new index begins to stand, with a rival or without, and the chunks that `Holds` speaks of are by `VersionInv` those of the whole value (`SetStored`), and the erasing of the one
head that there is, by `EraseIndex` or, for the old format, by `EraseAny` (`EraseStored`, `EraseAnyStored`). They are the steps `Set` and `Erase`; `Find` may be `Set`, too, when it finds the value there already. `RefusedKeepsValue` falls out of the same lemma, `StepStored`:
a set that is refused never came to `WriteIndex`.

What a blob reads as is `FlattenSeq` of its chunks, a function by recursion. The facts about it (`FlattenAppend` and those before it in `NvsSequenceProofs`) need induction on the number of chunks, which the library states for an operator that the provers cannot instantiate.
`SetInduction` states it for a set instead, proved from the least number that is not in it.

*Strings.* `PageExact` speaks of a page at rest; the invariant has to say what a word of flash more or less makes of it. `FlashInv` is about the flash
alone, and so holds over a power failure: items lie one behind the other, and entries in use belong to one (`HeadsApart`, `EntriesOwned`); an item may have lost some of its
entries, but if it has all, it has its data (`DataRight`); an entry is empty because a write was cut off there, in the last item or behind it, and then nothing lies further on (`EmptyLast`);
and there are two whole versions of a key only if the newer is the last item of an ACTIVE page (`TwoVersions`). What makes an erase safe is that its states are written from the end of the item
to its header: the header goes last, so no entry of data is left in use without it (`ItemStatesErased`). And the states of what is written follow its data, header first, the rest from the end (`StatesWritten`).

`RamInv` says what the Page object knows meanwhile: the members do not count the entries that are being altered (`MembersRight`), the hash list has the items that
`load()` has come by, but for the one being erased, and the one being written (`Kept`, `Fresh`). `mNextFreeEntry` is where the page begins to be blank (`CleanEnd`), except in `load()` while
an item that was cut off is still ahead (`CutItem`): its first empty entry is where `mNextFreeEntry` stops, and entries in use may lie behind that. That these are all of that one item, which the loop erases whole, with the entries it
never wrote, and that `mNextFreeEntry` then goes to its end (the correction in `eraseEntryAndSpan()`), is what leaves nothing behind it. The invariant is inductive, one step per action; a step of `alterEntryRangeState()` falls apart by whose entries they are (`AlterErasingStep`,
`AlterEnteringStep`, `AlterClearingStep`). An error in the middle leaves a `Failed` request, of which only `FlashInv` is kept; that the application then initialises again is assumed (`string_error_ignored.cfg` shows why).

That strings are set and erased in one step (`StringsRefined`) rests on both. The whole items of a page are `Held`, of which the newest of a key counts (`StoredRule`), so a step that leaves `Held` as it is, or takes an item of which there is a newer version,
changes nothing that is stored (`StoredKeep`). `ValueInv` says why each step is of that kind: the older item that is erased has a newer version (`NewerThere`: `EraseOld` and `load()` have found it whole), what `load()` clears or takes for cut off is no part of a whole item (`NoneCleared`).
The two exceptions are steps of `AlterWord`: a set takes effect with the last word that makes its item whole, which for the entries of one range is the one with the lowest states (`AlterEnteringValue`), and an erase with the first word, which takes the item's end (`AlterErasingValue`); before the one, no whole item has the new value, or `writeItem()` would have found it `Unmodified` (`OldOther`), and after the other none with the key is left
(`OneErased`). An error maps to `Refuse` or, when the effect is there, to `Done`: what tells the two apart in the code is the operation that failed, in the proof `NotEffected` and `NewThere`.

*Handles.* No property of `NvsHandles` is inductive alone. That valid handles lead to live storages needs
that the list of `deinit_partition()` holds all of them (`ListedExactly`), and both need the types: `AliveInv`. That an object has one
owner needs that the numbers given out are not above the counter (`NumbersAhead`): `OwnersInv`. That indices are distinct needs what the
storage knows of them to be what flash holds (`Loaded`), which the handles rely on to have an index of
a namespace, and what flash holds to be left only of an erasure that was cut off: `NamesInv`, which includes `AliveInv`. `HandlesInv` is the
conjunction, proved one action at a time. The refinement then maps each action: opening to `Open`, a failed
opening to a stutter. A new namespace alters nothing if its index had no items, which is so by `NoStrayItems` except in a
partition of `cutOff`; there it is `Leftovers`, as part of `Open`, or of `Create` when no handle comes of it. `Deinit`, `Close` and a
restart to `Close`, sets and erases to `Alter` (the index of the handle is that of no other
namespace), the erasure of a partition to `Erase`, completed or cut off.

*The lock.* `MutualExclusion` needs that whoever is in a body holds the mutex that `mSemaphore` points to (`Taken`),
that who waits, waits for this one (`Waiting`), and that as long as there is none there is one caller at
most (`OneCaller`), which makes it before an `NVSHandleLocked` can (`NullBefore`). All of it under `~failed`.

*Only model-checked*: liveness, which needs `ENABLED` and fairness and is out of the prover's reach (`EveryCallEnds`, `FreeingEnds`, `BlobRequestEnds`, `EveryCallReturns`).
That sets that are refused meet `CleanupFinds` is no theorem, because it is not so; `blob_full` shows it of its instance.

## 5. What is abstracted, and what is not modelled

* In the core, items take one entry (the integer types, the namespace entries being
  of this kind too). Strings, which take several, are in `NvsStrings`, on a page of their own: moving them to another
  page is not modelled at this granularity, nor are two keys of one hash or several types.
* In `NvsBlob` data is counted in entries and not in bytes; writing or erasing an item,
  and `requestNewPage()`, are not cut off; there are no flash errors, and memory does
  not run out. The check of a set against the stored value, `cmpMultiPageBlob()`, is
  an expression. Page lists keep their order over a power failure, which is that of
  the sequence numbers the core has. `eraseNamespace()` of blobs is not modelled.
  A key stands for namespace index and name; the namespace of a key is `NsOf`.
* An entry written in part is `Garbage`. The code tells it from a blank one by
  its first word only, as `NvsStrings` does. There a word of flash, four bytes, is written or not (so the flash emulation of the
  tests has it, `src/test_nvs_host/spi_flash_emulation.h`), and no operation of `load()` fails.
* `findItem()` and `readItem()` erase an item whose CRC they find to be wrong: flash does not decay in the model, and
  `PageExact` says that load() leaves none such.
* An erase or a header write that was cut off reads as CORRUPT. (An erase cut off so
  late that the sector reads blank is the state after it, and one cut off before
  it did anything the state before it; both are included.)
* After an error a flash operation has done nothing or half of what it should.
  An operation that took effect and still reports an error is not modelled.
* The repair loop of `mLoadEntryTable` goes over the entries once; a failed operation ends
  it in the model, while the code tries the remaining entries of the INVALID page.
* Read errors of the flash are not modelled: reading is an expression. Nor is that memory runs out while a page is loaded or its hash list
  grows (`nvs_page.cpp:59`, `227-231`, `494-497`, `621-625`), or that flash has pages of a newer format (`nvs_page.cpp:80-82`).
* The core does not have the `--mUsedEntryCount` of `nvs_page.cpp:579-581`: with items of one entry, nothing is WRITTEN at `mNextFreeEntry`.
  `NvsStrings`, where it may be, has it.
* In `NvsBlobPages` a search for an index with a version compares it with indices only. The code compares it with the same bytes of a blob
  of the old format, too (`nvs_page.cpp:881-884`), but such a search is made only for a key of which an index was found.
* Flash starts blank. The 32-bit sequence number does not wrap.
* In `NvsHandles` a set and an erase are single steps because the core shows that they are. The lock is not a variable there: a call is
  one step. In `NvsLock` bodies always give the mutex (see `locking`). Handle numbers do not wrap. `Partition` objects are not modelled as allocations. The use of an iterator
  or of a handle number after its end is the application's error and not modelled.
* Iterators go over items of the core; the parts of multi-page blobs that they pass over are not modelled.
* `Lock::uninit()` has no caller. The initialisation with keys (`nvs_sec_cfg_t`) differs from the other in the partition
  object only.
* Reading functions, statistics, encryption, CRCs and the layout of structures:
  the model knows whether a CRC is right, not how it is computed.
* The image generator and the tests.

## 6. State of the plan

1. *Core*: `NvsPages`, `NvsPageManager`, `NvsStorage`, `KVStore`. Done; runs `recovery` (safety and liveness), `exhaustion`, `flash_errors_ignored`
   and two counterexamples (and `retyped_key.cfg`).
2. *Proofs of the core*: `TypeOK`, `ControlInv`, `PagesListed`, `OrderInv` with `ListSorted` and `OneActivePage`, `FreePageKept`,
   `FirstUsedExact`, `WritesOnlyBlank`, `CopyComplete`, `OnlyCopiesWhileFreeing`, `EraseDiscardsNothing`, `LoadSucceeds`, `RefusedOnlyWhenFull`,
   `Consistent`, `StoreImplemented`. Done.
3. *Multi-page blobs*: `NvsBlobPages`, `NvsBlob`. Done; runs `blob_update`, `blob_full` and a
   counterexample (and `blob_moved.cfg`). Proved: `BlobTypeOK`, `RefusedForSpace`, `OneIndex`, and, where a refused set finds its chunks, `NoChunkLeft`, `NeverAborts`, `RefusedKeepsValue` and `BlobsImplemented`. Left: flash errors (`REMOVE_FAILED` for the old version), `eraseNamespace()`.
4. *Handles, namespaces, iterators, lock*: `NvsHandles`, `NvsIterator`, `NvsLock` with proofs. Done; runs `handles`,
   `flash_errors_ignored`, `locking`, and the counterexample `erase_cut_off`. Left: the race of two first calls, which `OneByOne` excludes.
5. *One page at the granularity of words*: `NvsStrings`. Done; run `strings` (and `string_error_ignored.cfg`), proofs of `PageExact` and `StringsImplemented`. Left: errors while loading, for which
   `load()` in part ignores the result of `eraseEntryAndSpan()`; copying to another page.
