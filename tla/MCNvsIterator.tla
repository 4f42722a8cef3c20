----------------------------- MODULE MCNvsIterator -----------------------------
(***************************************************************************)
(* Small instances of NvsIterator for TLC.                                 *)
(***************************************************************************)
EXTENDS NvsIterator, MCNvsStorage

\* Every item, or those of one namespace and type.
MCCriteria == {[ns |-> NS_ANY, type |-> u8]}
=============================================================================
