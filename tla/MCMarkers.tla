----------------------------- MODULE MCMarkers -----------------------------
(***************************************************************************)
(* Instance of Markers for TLC.                                            *)
(***************************************************************************)
EXTENDS Markers, TLC

CONSTANTS c1, c2, s1, s2

MCConn == {c1, c2}
MCSub == {s1, s2}

\* addresses are only compared for equality, and so are submission ids
MCSymmetry == Permutations(MCConn) \cup Permutations(MCSub)
=============================================================================
