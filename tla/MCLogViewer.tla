---------------------------- MODULE MCLogViewer ----------------------------
(* A small instance of LogViewer for TLC. *)
EXTENDS LogViewer, TLC

CONSTANTS j1, j2

=============================================================================
