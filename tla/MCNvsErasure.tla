----------------------------- MODULE MCNvsErasure -----------------------------
(***************************************************************************)
(* NvsHandles with a history variable, for what an erasure that is cut off *)
(* does to the namespaces created after it.                                *)
(***************************************************************************)
EXTENDS MCNvsHandles

VARIABLE valued   \* the namespaces in which a value has been set

ErasureInit == Init /\ valued = {}

ErasureNext ==
  /\ Next
  /\ valued' = valued \cup
       {pn \in Partition \X Name : \E h \in Handle : SetItem(h) /\ pn = <<simple[h].mStoragePtr, ScopeOf(h).name>>}

ErasureSpec == ErasureInit /\ [][ErasureNext]_<<vars, valued>>

(***************************************************************************)
(* README, "Namespaces": "NVS assigns each key-value pair to one of        *)
(* namespaces", and "key names will not collide with same names in other   *)
(* namespaces": a namespace holds a value only if one was set in it.       *)
(***************************************************************************)
NoForeignValues ==
  \A p \in Partition, n \in Name : StoreOf(p, n) # Nothing => <<p, n>> \in valued
=============================================================================
