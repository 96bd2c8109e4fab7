----------------------------- MODULE MCJobQueue -----------------------------
(* A small instance of JobQueue for TLC. *)
EXTENDS JobQueue, TLC

CONSTANTS t1, w1, w2

\* One device, asked for plainly, pinned to a worker, and through the server.
MCTargets == {t1}
MCWorkers == {w1, w2}
Ask(pin, dl, srv, addr) ==
  [target |-> t1, pin |-> pin, downloadOnly |-> dl, serverOta |-> srv, address |-> addr]
MCRequests == {Ask(None, FALSE, FALSE, TRUE), Ask(w1, FALSE, TRUE, TRUE)}
MostResults == {r \in Result : r.ota # "success"}

\* Two jobs do all they can; a third is followed while all three are
\* unfinished, pinned and without a binary: what coalescing is about.
Queued(i) ==
  jobs[i] # NoJob => /\ jobs[i].pin = w1 /\ jobs[i].state \in Unfinished
                     /\ ~jobs[i].hasFirmware /\ ~jobs[i].otaOnly
ThirdOnlyQueues == nextId > 3 => jobs[3] # NoJob /\ \A i \in JobIds : Queued(i)

=============================================================================
