--------------------------- MODULE MCRemoteCopies ---------------------------
(***************************************************************************)
(* One item with its sync, one erasure, and drains that overlap.           *)
(***************************************************************************)
EXTENDS RemoteCopies

CONSTANTS i1, s1, e1, d1, d2

OneItem    == {i1}
OneSync    == {s1}
OneErasure == {e1}
OneDrain   == {d1}
TwoDrains  == {d1, d2}
=============================================================================
