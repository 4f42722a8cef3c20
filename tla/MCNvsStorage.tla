----------------------------- MODULE MCNvsStorage -----------------------------
(***************************************************************************)
(* Small instances of NvsStorage for TLC.                                  *)
(***************************************************************************)
EXTENDS NvsStorageProperties

CONSTANTS k1, k2, k3, u8, u16

MCOneNamespace  == [k \in Key |-> "ns"]
MCTwoNamespaces == [k \in Key |-> IF k = k1 THEN "ns1" ELSE "ns2"]
MCInjectiveHash == [k \in Key |-> k]
MCCollidingHash == [k \in Key |-> "h"]    \* every two keys collide
MCOneType       == {<<k, u8>> : k \in Key}
MCTwoTypes      == {<<k1, u8>>, <<k1, u16>>}
=============================================================================
