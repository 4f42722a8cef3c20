----------------------------- MODULE MCNvsHandles -----------------------------
(***************************************************************************)
(* Small instances of NvsHandles for TLC.                                  *)
(***************************************************************************)
EXTENDS NvsHandlesProperties, TLC

CONSTANTS p1, p2, n1, n2, n3, h1, h2, k1

\* A name is that of a namespace in each partition.
MCOpened == {<<p1, n1>>, <<p1, n2>>, <<p1, n3>>, <<p2, n1>>}

\* No definition tells two handles apart, nor the names of p1 only.
MCSymmetry == Permutations(Handle) \cup Permutations(Name \ {n1})
=============================================================================
