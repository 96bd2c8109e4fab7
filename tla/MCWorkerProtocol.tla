-------------------------- MODULE MCWorkerProtocol --------------------------
(* A small instance of WorkerProtocol for TLC. *)
EXTENDS WorkerProtocol, TLC

CONSTANTS t1, w1, w2

Asked(dl, srv, addr) ==
  [target |-> t1, pin |-> None, downloadOnly |-> dl, serverOta |-> srv, address |-> addr]

\* A plain upgrade, a download, and a device only the server reaches.
Plain == Asked(FALSE, FALSE, TRUE)
Download == Asked(TRUE, FALSE, TRUE)
Thread == Asked(FALSE, TRUE, TRUE)
AllAsked == {Plain, Download, Thread}

=============================================================================
