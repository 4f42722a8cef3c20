-------------------------- MODULE NvsStringProperties --------------------------
(***************************************************************************)
(* What the entries of a page have to satisfy, stated of NvsStrings.       *)
(***************************************************************************)
EXTENDS NvsStrings

(***************************************************************************)
(* README, "Entry and entry state bitmap": an Empty entry is one into      *)
(* which nothing is written yet, all its bytes are 0xff.  It is there that *)
(* the next item is written, and flash bits can only be cleared.           *)
(***************************************************************************)
EmptyIsBlank ==
  pc = "idle" /\ mState = "ACTIVE" =>
    \A i \in Index : mEntryTable[i] = "EMPTY" => entryData[i] = Blank

\* Every entry in use belongs to one item, of which there is one for each key.
ItemsComplete ==
  LET items == {i \in WrittenEntries : entryData[i] \in Headers}
      Entries(i) == i .. i + Len(entryData[i].val)
  IN  /\ WrittenEntries = UNION {Entries(i) : i \in items}
      /\ \A i \in items : \A n \in DOMAIN entryData[i].val : entryData[i + n] = entryData[i].val[n]
      /\ \A i, j \in items : i # j =>
           Entries(i) \cap Entries(j) = {} /\ entryData[i].key # entryData[j].key
      /\ mHashList = items

\* The members of the Page object say of the page what its bitmap does.
MembersExact ==
  /\ mEntryTable = entryTable
  /\ mUsedEntryCount = Cardinality(WrittenEntries)
  /\ mFirstUsedEntry = LeastOr(WrittenEntries, INVALID_ENTRY)
  /\ mState = "ACTIVE" =>
       {i \in Index : mEntryTable[i] = "EMPTY"} = {i \in Index : mNextFreeEntry <= i}

(***************************************************************************)
(* Between requests, and so after every load(): the page has complete      *)
(* items only, whatever was cut off before; nothing lies where the next    *)
(* item will be written; and the members, with which debugCheck() and the  *)
(* assertion of requestNewPage() reckon, are right.                        *)
(***************************************************************************)
PageExact ==
  pc = "idle" => EmptyIsBlank /\ (mState # "INVALID" => ItemsComplete /\ MembersExact)

-----------------------------------------------------------------------------
(* The refinement mapping: the last complete item of a key counts. *)

InUse(i) == entryTable[i] = "WRITTEN"

Versions(k) ==
  {i \in Index :
     /\ InUse(i) /\ entryData[i] \in Headers /\ entryData[i].key = k
     /\ \A n \in DOMAIN entryData[i].val :
          InUse(i + n) /\ entryData[i + n] = entryData[i].val[n]}

Stored(k) == IF Versions(k) = {} THEN NoValue ELSE entryData[Max(Versions(k))].val

Phase ==
  IF op = NoOp THEN "idle"
  ELSE IF pc = "return" THEN ret
  ELSE IF pc # "find" /\ Stored(op.key) = (IF op.name = "set" THEN op.val ELSE NoValue)
       THEN "applied" ELSE "pending"

KV == INSTANCE KVStore WITH
        ItemName <- Key,
        Value    <- String,
        KeyOf    <- [k \in Key |-> k],
        NsOf     <- [k \in Key |-> "ns"],
        store    <- [k \in Key |-> Stored(k)],
        request  <- IF op.name = "set"
                    THEN [name |-> "set", item |-> op.key, val |-> op.val] ELSE op,
        phase    <- Phase

(***************************************************************************)
(* A string is set and erased in one step, although its entries and their  *)
(* states take many: a power failure or an error leaves the old or the new *)
(* one, whole, and no other string is touched.                             *)
(***************************************************************************)
StringsImplemented == KV!Spec
=============================================================================
