------------------------------- MODULE MCNvsLock -------------------------------
(***************************************************************************)
(* Small instances of NvsLock for TLC.                                     *)
(***************************************************************************)
EXTENDS NvsLock

CONSTANTS t1, t2, t3
=============================================================================
