---------------------------- MODULE NamespaceStore ----------------------------
(***************************************************************************)
(* What the handles of the API promise: "the scope of this handle [...]    *)
(* would be the namespace of a particular partition.  Outside that scope,  *)
(* nvs entries can't be accessed/altered" (include/nvs_handle.hpp:35).  A  *)
(* partition is a map from namespaces and keys to values, a handle gives   *)
(* access to one namespace of one partition until it is closed or invalid. *)
(* The erasure of a partition is no step of a handle, and not atomic: of   *)
(* one that is cut off anything may be left, and a namespace created later *)
(* may come to hold some of it.                                            *)
(***************************************************************************)
CONSTANTS Partition, Name, Key, Value, NoValue, Handle

VARIABLES
  store,   \* store[p][n][k]: the value of a key of a namespace
  scope,   \* scope[h]: what an open handle gives access to, or NoScope
  cutOff   \* the partitions whose last erasure was not completed

vars == <<store, scope, cutOff>>

NoScope == [mode |-> "closed"]
Scope   == [mode : {"readonly", "readwrite"}, part : Partition, name : Name]
Content == [Key -> Value \cup {NoValue}]
Empty   == [k \in Key |-> NoValue]

Init ==
  /\ store \in [Partition -> [Name -> Content]]
  /\ cutOff = {}
  /\ scope = [h \in Handle |-> NoScope]

\* An empty namespace that no handle is open on comes to hold what such an erasure left.
Leftovers(p, n) ==
  /\ p \in cutOff /\ store[p][n] = Empty
  /\ \A h \in Handle : scope[h] # NoScope => scope[h].part # p \/ scope[h].name # n
  /\ \E left \in Content : store' = [store EXCEPT ![p][n] = left]

\* A namespace is opened, and created when there is none of that name.
Open(h) ==
  /\ UNCHANGED cutOff
  /\ scope[h] = NoScope
  /\ \E new \in Scope :
       /\ scope' = [scope EXCEPT ![h] = new]
       /\ UNCHANGED store \/ Leftovers(new.part, new.name)

\* Handles are closed by the application, or with their storage.
Close ==
  /\ UNCHANGED <<cutOff, store>>
  /\ \A h \in Handle : scope'[h] \in {scope[h], NoScope}

\* A namespace is created, and no handle on it.
Create(p, n) ==
  /\ UNCHANGED cutOff
  /\ Leftovers(p, n)
  /\ \A h \in Handle : scope'[h] \in {scope[h], NoScope}

\* A handle alters keys of its namespace, if it may write.
Alter(h) ==
  /\ UNCHANGED <<cutOff, scope>>
  /\ scope[h].mode = "readwrite"
  /\ \E new \in Content : store' = [store EXCEPT ![scope[h].part][scope[h].name] = new]

\* The erasing of a partition closes its handles and leaves nothing, or is cut off.
Erase(p) ==
  /\ \/ cutOff' = cutOff \ {p} /\ \A n \in Name : store'[p][n] = Empty
     \/ /\ cutOff' = cutOff \cup {p}
        /\ \A n \in Name, k \in Key : store'[p][n][k] \in {store[p][n][k], NoValue}
  /\ store' = [store EXCEPT ![p] = store'[p]]
  /\ \A h \in Handle : scope'[h] \in {scope[h], NoScope}
  /\ \A h \in Handle : scope'[h] # NoScope => scope'[h].part # p

Next ==
  \/ Close
  \/ \E p \in Partition : Erase(p)
  \/ \E h \in Handle : Alter(h) \/ Open(h)
  \/ \E p \in Partition, n \in Name : Create(p, n)

Spec == Init /\ [][Next]_vars
=============================================================================
