------------------------------- MODULE MCNvsBlob -------------------------------
(***************************************************************************)
(* Small instances of NvsBlob for TLC.  A value is a sequence of entries'  *)
(* worth of data: an entry of value "a" is <<"a", n>>.                     *)
(***************************************************************************)
EXTENDS NvsBlobProperties

CONSTANTS k1, k2

Data(a, size) == [n \in 1 .. size |-> <<a, n>>]

MCNoOldBlob  == {}
MCOldBlob    == {<<k1, Data("a", 2)>>}
MCOneValue   == {Data("a", 5)}
MCTwoValues  == {Data("a", 2), Data("b", 4)}
MCSmallLarge == {Data("a", 2), Data("b", 4), Data("c", 6)}
=============================================================================
