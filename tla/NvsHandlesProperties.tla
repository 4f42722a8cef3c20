-------------------------- MODULE NvsHandlesProperties --------------------------
(***************************************************************************)
(* Properties of NvsHandles.                                               *)
(***************************************************************************)
EXTENDS NvsHandles

(***************************************************************************)
(* "Upon opening, a handle is valid.  It becomes invalid if the underlying *)
(* storage is de-initialized." (nvs_handle_simple.hpp:98): a handle that  *)
(* is valid leads to a storage that has not been deleted.                  *)
(***************************************************************************)
ValidMeansAlive ==
  \A h \in Handle : simple[h].valid =>
    ~simple[h].freed /\ storage[simple[h].mStoragePtr] # "none"

(***************************************************************************)
(* The partition manager lists the valid handles, and no deleted object:   *)
(* deinit_partition() follows the list, ~NVSHandleSimple() takes itself    *)
(* off it.                                                                 *)
(***************************************************************************)
ListedExactly == nvs_handles = {h \in Handle : simple[h].valid}

(***************************************************************************)
(* A handle object has one owner, a number of the C API or a C++ object of *)
(* the application: it is not leaked, and not deleted twice.               *)
(***************************************************************************)
OwnedOnce ==
  /\ \A h \in Handle : simple[h] # Deleted <=> h \in OfTheCApi \cup locked
  /\ OfTheCApi \cap locked = {}
  /\ \A c, d \in Number : s_nvs_handles[c] = s_nvs_handles[d] /\ s_nvs_handles[c] # Nobody => c = d

(***************************************************************************)
(* No two namespaces share an index, what a storage knows of them is what  *)
(* flash holds, and the index of a valid handle is still that of a         *)
(* namespace: also after the storage was initialised again under it.       *)
(***************************************************************************)
IndexOnce ==
  \A p \in Partition : \A m, n \in Name :
    entry[p][m] = entry[p][n] /\ entry[p][m] # NONE => m = n

Loaded ==
  \A p \in Partition : storage[p] = "ACTIVE" =>
    mNamespaces[p] = entry[p] /\ mNamespaceUsage[p] = Used(entry[p])

HandleHasNamespace ==
  \A h \in Handle : simple[h].valid => simple[h].mNsIndex \in Used(entry[simple[h].mStoragePtr])

OneIndexPerNamespace == IndexOnce /\ Loaded /\ HandleHasNamespace

(***************************************************************************)
(* No item is left with an index that no namespace has: createOrOpen-      *)
(* Namespace() would give it to the next new namespace, with the items.    *)
(* Only an erasure that was cut off leaves such items, and nothing but an  *)
(* erasure that is completed is sure to remove them.                       *)
(***************************************************************************)
NoStrayItems ==
  \A p \in Partition \ cutOff, i \in Index : i \notin Used(entry[p]) => item[p][i] = NoItems[i]

(***************************************************************************)
(* The refinement: what a handle gives access to is the namespace whose    *)
(* index it has, and what that namespace holds is the items of the index.  *)
(***************************************************************************)
NameOf(h) == {n \in Name : entry[simple[h].mStoragePtr][n] = simple[h].mNsIndex}

ScopeOf(h) ==
  IF simple[h].valid /\ NameOf(h) # {}
  THEN [mode |-> IF simple[h].mReadOnly THEN "readonly" ELSE "readwrite",
        part |-> simple[h].mStoragePtr, name |-> CHOOSE n \in Name : n \in NameOf(h)]
  ELSE [mode |-> "closed"]

StoreOf(p, n) ==
  IF entry[p][n] = NONE THEN Nothing ELSE item[p][entry[p][n]]

Promised == INSTANCE NamespaceStore WITH
  store <- [p \in Partition |-> [n \in Name |-> StoreOf(p, n)]],
  scope <- [h \in Handle |-> ScopeOf(h)]   \* cutOff is cutOff

(***************************************************************************)
(* README, "Namespaces": "a handle is associated with a namespace, and key *)
(* names will not collide with same names in other namespaces"; the same   *)
(* name in another partition is another namespace.  Only a handle on a     *)
(* namespace, opened for writing, changes what the namespace holds, and it *)
(* stays through all restarts and re-initialisations.  The limit, which    *)
(* NamespaceStore states: after an erasure of its partition that was cut   *)
(* off a namespace may be created with values of another one.              *)
(***************************************************************************)
NamespacesImplemented == Promised!Spec

(***************************************************************************)
(* Deinitialising one partition leaves the handles of the C++ API on other *)
(* partitions as they are.                                                 *)
(***************************************************************************)
Ends(p) == storage[p] # "none" /\ storage'[p] = "none" /\ \E q \in Partition : storage'[q] # "none"

Stays(h) == simple[h].valid /\ storage'[simple[h].mStoragePtr] # "none"

OthersKeepLockedHandles ==
  [][\A p \in Partition, h \in locked : Ends(p) /\ Stays(h) => simple'[h] = simple[h]]_vars

=============================================================================
