---------------------------- MODULE MCVenvCache ----------------------------
(***************************************************************************)
(* VenvCache with two slots and two versions, for TLC.                     *)
(***************************************************************************)
EXTENDS VenvCache

CONSTANTS s1, s2, v1, v2

TwoSlots == {s1, s2}
TwoVersions == {v1, v2}

=============================================================================
