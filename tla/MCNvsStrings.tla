----------------------------- MODULE MCNvsStrings -----------------------------
(***************************************************************************)
(* Small instances of NvsStrings for TLC.  x is an entry of data, f one    *)
(* that begins with ffffffff.                                              *)
(***************************************************************************)
EXTENDS NvsStringProperties

CONSTANTS k1, k2, x, f

MCShort  == <<f, x>>     \* fills two entries
MCLong   == <<x, x, f>>  \* fills two and begins a third
MCString == {MCShort, MCLong}
MCRagged == {MCLong}
=============================================================================
