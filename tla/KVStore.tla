-------------------------------- MODULE KVStore --------------------------------
(***************************************************************************)
(* What an NVS partition promises: a map from items to values that changes *)
(* only by the request in progress, all at once for a set or an erase, and *)
(* that a restart, wherever it falls, leaves with the old or the new value *)
(* of that one item and with everything else as it was.                    *)
(***************************************************************************)
CONSTANTS ItemName, Value, NoValue, KeyOf, NsOf

VARIABLES
  store,    \* value of each item
  request,  \* the request in progress
  phase     \* how far it is: "idle", "pending", "applied", or its answer

vars == <<store, request, phase>>

NoRequest == [name |-> "none"]

Request ==
  [name : {"set"}, item : ItemName, val : Value]
  \cup {[name |-> "erase", key |-> KeyOf[n]] : n \in ItemName}
  \cup {[name |-> "clear", ns |-> NsOf[n]] : n \in ItemName}

Refusal == {"NOT_ENOUGH_SPACE", "VALUE_TOO_LONG", "INVALID_STATE", "FLASH_OP_FAIL"}

Init ==
  /\ store \in [ItemName -> Value \cup {NoValue}]
  /\ request = NoRequest
  /\ phase = "idle"

Begin ==
  /\ phase = "idle"
  /\ request' \in Request
  /\ phase' = "pending"
  /\ UNCHANGED store

\* A set takes effect in one step.
Set ==
  /\ phase = "pending" /\ request.name = "set"
  /\ store' = [store EXCEPT ![request.item] = request.val]
  /\ phase' \in {"applied", "OK"}
  /\ UNCHANGED request

\* So does an erase, which is of one item with the key.
Erase ==
  /\ phase = "pending" /\ request.name = "erase"
  /\ \E n \in ItemName :
       KeyOf[n] = request.key /\ store[n] # NoValue /\ store' = [store EXCEPT ![n] = NoValue]
  /\ phase' \in {"applied", "OK"}
  /\ UNCHANGED request

NotFound ==
  /\ phase = "pending" /\ request.name = "erase"
  /\ \A n \in ItemName : KeyOf[n] = request.key => store[n] = NoValue
  /\ phase' = "NOT_FOUND"
  /\ UNCHANGED <<store, request>>

\* A clear takes effect item by item.
ClearOne ==
  /\ phase = "pending" /\ request.name = "clear"
  /\ \E n \in ItemName : NsOf[n] = request.ns /\ store' = [store EXCEPT ![n] = NoValue]
  /\ UNCHANGED <<request, phase>>

Cleared ==
  /\ phase = "pending" /\ request.name = "clear"
  /\ \A n \in ItemName : NsOf[n] = request.ns => store[n] = NoValue
  /\ phase' = "OK"
  /\ UNCHANGED <<store, request>>

\* REMOVE_FAILED: the new value is there, the old version was not removed.  An erase
\* that has begun to have an effect may also end with an error.
Done ==
  /\ phase = "applied"
  /\ phase' \in {"OK", IF request.name = "set" THEN "REMOVE_FAILED" ELSE "FLASH_OP_FAIL"}
  /\ UNCHANGED <<store, request>>

\* An error that is answered instead of taking effect.
Refuse ==
  /\ phase = "pending"
  /\ phase' \in Refusal
  /\ UNCHANGED <<store, request>>

Finish ==
  /\ phase \notin {"idle", "pending", "applied"}
  /\ request' = NoRequest /\ phase' = "idle"
  /\ UNCHANGED store

\* The request is lost, with whatever effect it already had.
Restart ==
  /\ request' = NoRequest /\ phase' = "idle"
  /\ UNCHANGED store

Next ==
  \/ Begin \/ Set \/ Erase \/ NotFound \/ ClearOne \/ Cleared \/ Done \/ Refuse \/ Finish \/ Restart

Spec == Init /\ [][Next]_vars
=============================================================================
