------------------------- MODULE MCWorkerLifecycle -------------------------
(***************************************************************************)
(* WorkerLifecycle with two slots, for TLC.                                *)
(***************************************************************************)
EXTENDS WorkerLifecycle, TLC

CONSTANTS s1, s2

MCSlots == {s1, s2}

=============================================================================
