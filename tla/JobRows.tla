------------------------------ MODULE JobRows ------------------------------
(* What the web UI makes of a row of the queue: the predicates of             *)
(* utils/jobState.ts, which decide what a row is called, which buttons it     *)
(* gets and when its log is handed over.                                      *)

\* The fields the predicates read. An absent ota_result is "none".
States == {"pending", "working", "blocked", "success", "failed", "timed_out", "cancelled"}
OtaResults == {"none", "success", "failed"}
JobStatusLike == [state : States, ota : OtaResults, download_only : BOOLEAN]

isJobSuccessful(row) ==
  row.state = "success" /\ (row.download_only \/ row.ota = "success")

\* BLOCKED is a Pending with a reason; a build that still has to be flashed
\* is in progress as well.
isJobInProgress(row) ==
  \/ row.state \in {"pending", "working", "blocked"}
  \/ row.state = "success" /\ ~row.download_only /\ row.ota \notin {"success", "failed"}

isJobFailed(row) ==
  row.state # "cancelled" /\ ~isJobInProgress(row) /\ ~isJobSuccessful(row)

isJobCancelled(row) == row.state = "cancelled"

isJobFinished(row) == ~isJobInProgress(row)

isJobRetryable(row) == isJobFinished(row)

----------------------------------------------------------------------------
(* The badge of a row reads more of the job than the predicates do. *)

Job == [state : States, ota : OtaResults, download_only : BOOLEAN,
        server_ota : BOOLEAN, ota_only : BOOLEAN, validate_only : BOOLEAN]

\* What the Queue tab lists: a validation has a window of its own, and
\* start_compile never makes a download a server-side flash.
Listed(job) == ~job.validate_only /\ (job.server_ota => ~job.download_only)

\* The colours of the badge, without its words.
getJobBadge(job) ==
  IF job.state = "pending"
  THEN IF job.ota_only /\ ~job.validate_only /\ ~job.download_only /\ ~job.server_ota
       THEN "timed_out" ELSE "pending"
  ELSE IF job.state = "success"
  THEN IF job.validate_only \/ (job.download_only /\ ~job.server_ota) THEN "success"
       ELSE IF job.ota = "success" THEN "success"
       ELSE IF job.ota = "failed" THEN "timed_out"
       ELSE "working"
  ELSE job.state

=============================================================================
