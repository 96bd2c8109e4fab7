--------------------------- MODULE MCFirmwareStore ---------------------------
(* A small instance of FirmwareStore for TLC. *)
EXTENDS FirmwareStore, TLC

CONSTANTS j1, j2

\* The factory image is the larger one.
MCSize == [v \in Variants |-> IF v = "factory" THEN 2 ELSE 1]
Symmetry == Permutations(Jobs)

=============================================================================
