------------------------------ MODULE JobQueue ------------------------------
(***************************************************************************)
(* The compile queue of the fleet server: ha-addon/server/job_queue.py,   *)
(* with the firmware files and the history rows its methods touch.        *)
(*                                                                         *)
(* Every method of JobQueue runs under one asyncio lock and never awaits   *)
(* while it holds it, so a method is one atomic step.  What is not atomic  *)
(* is its effect on the disk: queue.json, the SQLite history and the       *)
(* firmware directory are written one after the other, and the process may *)
(* be killed between two writes.  Finish gives every method these          *)
(* outcomes; Restarted is the state load() rebuilds after such a kill.     *)
(*                                                                         *)
(* A job id is the number of its creation, so the numeric order is the     *)
(* insertion order of the OrderedDict that holds the jobs.                 *)
(***************************************************************************)
EXTENDS Integers, FiniteSets

CONSTANTS
  Targets,     \* device configurations, one YAML file each
  Workers,     \* ids of registered build workers
  Requests,    \* what callers of enqueue ask for, a subset of Request
  Results,     \* what workers report, a subset of Result
  Uploads,     \* bound: the jobs whose firmware is ever uploaded
  MaxJobs,     \* bound: number of jobs ever created
  MaxRetries,  \* MAX_RETRIES
  Kills,       \* whether the process may be killed in the middle of a method
  None         \* Python's None

ASSUME QueueAssumption ==
  /\ MaxJobs \in Nat
  /\ MaxRetries \in Nat \ {0}
  /\ Kills \in BOOLEAN
  /\ None \notin Targets \cup Workers \cup {"success", "failed"}

JobIds == 1..MaxJobs

\* The states a row can be in; "none" stands for an id with no row.
\* TIMED_OUT is declared in the code and no longer assigned anywhere.
Finished == {"success", "failed", "cancelled"}
Waiting  == {"pending", "blocked"}
Unfinished == Waiting \cup {"working"}
OtaResults == {None, "success", "failed"}

\* The arguments of enqueue that outlive the call.  A compile request may not
\* ask for download_only and a server-side OTA at once (start_compile).
Request ==
  {r \in [target : Targets, pin : Workers \cup {None}, downloadOnly : BOOLEAN,
          serverOta : BOOLEAN, address : BOOLEAN] :
     ~(r.downloadOnly /\ r.serverOta)}

ASSUME RequestsAssumption == Requests \subseteq Request

\* What run_job reports of an attempt: the compile status, the OTA result and
\* whether the server must push the binary.
Result ==
  {r \in [status : {"success", "failed"}, ota : OtaResults, viaServer : BOOLEAN] :
     /\ r.status = "failed" => r.ota = None
     /\ r.viaServer => r.status = "success" /\ r.ota = None}

ASSUME ResultsAssumption == Results \subseteq Result

\* The fields of class Job that the queue reads.  address says whether
\* ota_address is known.
Job ==
  [state : Finished \cup Unfinished \cup {"none"}, target : Targets \cup {None},
   pin : Workers \cup {None}, assigned : Workers \cup {None}, retries : Nat,
   followup : BOOLEAN, ota : OtaResults, otaOnly : BOOLEAN,
   serverOta : BOOLEAN, downloadOnly : BOOLEAN, address : BOOLEAN,
   hasFirmware : BOOLEAN]

NoJob ==
  [state |-> "none", target |-> None, pin |-> None, assigned |-> None,
   retries |-> 0, followup |-> FALSE, ota |-> None, otaOnly |-> FALSE,
   serverOta |-> FALSE, downloadOnly |-> FALSE, address |-> FALSE,
   hasFirmware |-> FALSE]

\* A row of the history table: what record_terminal keeps of a finished job.
HistoryRow ==
  [state : Finished \cup {"none"}, ota : OtaResults, hasFirmware : BOOLEAN]

NoRow == [state |-> "none", ota |-> None, hasFirmware |-> FALSE]

VARIABLES
  jobs,     \* _jobs, the rows in memory
  nextId,   \* the id the next job gets
  disk,     \* queue.json
  history,  \* the SQLite history, keyed by job id
  files     \* job ids with a firmware binary on disk

vars == <<jobs, nextId, disk, history, files>>

Init ==
  /\ jobs = [i \in JobIds |-> NoJob]
  /\ nextId = 1
  /\ disk = jobs
  /\ history = [i \in JobIds |-> NoRow]
  /\ files = {}

-----------------------------------------------------------------------------
(* Persistence, history and restart *)

\* Fault: the state of the row is not looked at.
RecordedInAnyState(h, J, ids) ==
  [i \in JobIds |->
     IF i \in ids THEN [state |-> J[i].state, ota |-> J[i].ota, hasFirmware |-> J[i].hasFirmware]
     ELSE h[i]]

\* record_terminal: upsert the row of every finished job in ids; any other
\* state is ignored.
Recorded(h, J, ids) ==
  [i \in JobIds |->
     IF i \in ids /\ J[i].state \in Finished
       THEN [state |-> J[i].state, ota |-> J[i].ota,
             hasFirmware |-> J[i].hasFirmware]
       ELSE h[i]]

\* A server-side OTA push that the stopped process took with it.
Stranded(j) == j.state = "success" /\ j.serverOta /\ j.ota = None

\* Fault: the lost push is not noticed.
RecoverWithoutPush(j) ==
  IF j.state = "working" THEN [j EXCEPT !.state = "pending", !.assigned = None] ELSE j

\* What load() makes of one row of queue.json.
Recover(j) ==
  IF j.state = "working"
    THEN [j EXCEPT !.state = "pending", !.assigned = None]
    ELSE IF Stranded(j) THEN [j EXCEPT !.ota = "failed"] ELSE j

\* reconcile_orphans keeps the binary of a job in the queue, or of a
\* successful history row that says it has one (the scan of the history is
\* FirmwareStore; here all rows fit its first page).
Reconciled(F, J, h) ==
  {i \in F : \/ J[i].state # "none"
             \/ h[i].state = "success" /\ h[i].hasFirmware}

\* load(): the process was killed with D in queue.json, h in the history and
\* F in the firmware directory, and came back.  queue.json is not rewritten.
Restarted(D, h, F) ==
  LET J == [i \in JobIds |-> Recover(D[i])]
      H == Recorded(h, J, {i \in JobIds : Stranded(D[i])})
  IN  /\ jobs' = J
      /\ disk' = D
      /\ history' = H
      /\ files' = Reconciled(F, J, H)

\* How a method that leaves the rows J ends: before _persist the history was h,
\* after it the rows in rec are recorded, and the firmware directory becomes F.
\* It completes, or it is killed before or after the write of queue.json.
Finish(J, h, rec, F) ==
  \/ /\ jobs' = J
     /\ disk' = J
     /\ history' = Recorded(h, J, rec)
     /\ files' = F
  \/ Kills /\ \E f \in {files, F} : Restarted(disk, h, f)
  \/ Kills /\ \E f \in {files, F}, done \in SUBSET rec :
                Restarted(J, Recorded(h, J, done), f)

\* _purge_firmware: the binaries of removed jobs go, unless has_firmware.
Purged(removed) == files \ {i \in removed : ~jobs[i].hasFirmware}

\* A kill while no method runs, and the restart.
Restart == Restarted(disk, history, files) /\ UNCHANGED nextId

-----------------------------------------------------------------------------
(* enqueue *)

OfTarget(t) == {i \in JobIds : jobs[i].target = t}

Followups(t) == {i \in OfTarget(t) : jobs[i].state = "pending" /\ jobs[i].followup}

\* The rows enqueue takes for active: WORKING, or PENDING and no follow-up.
Actives(t) ==
  {i \in OfTarget(t) : \/ jobs[i].state = "working"
                       \/ jobs[i].state = "pending" /\ ~jobs[i].followup}

\* The loop overwrites its candidate, so the newest one counts.
IsLast(i, S) == i \in S /\ \A k \in S : k <= i

NewJob(r, followup) ==
  [NoJob EXCEPT !.state = "pending", !.target = r.target, !.pin = r.pin,
                !.followup = followup, !.serverOta = r.serverOta,
                !.downloadOnly = r.downloadOnly, !.address = r.address]

\* A follow-up waits already: it takes over the new request, except for
\* download_only.
UpdateFollowup(r) ==
  \E f \in Followups(r.target) :
    /\ IsLast(f, Followups(r.target))
    /\ Finish([jobs EXCEPT ![f].pin = r.pin, ![f].address = r.address,
                           ![f].serverOta = r.serverOta],
              history, {}, files)
    /\ UNCHANGED nextId

\* Fault: a follow-up that waits already is overlooked.
CreateAnyway(r) ==
  LET active == Actives(r.target)
  IN  /\ nextId <= MaxJobs
      /\ \A a \in active : IsLast(a, active) => jobs[a].state = "working"
      /\ Finish([jobs EXCEPT ![nextId] = NewJob(r, active # {})], history, {}, files)
      /\ nextId' = nextId + 1

\* Fault: the rows that make room are not recorded.
CreateUnrecorded(r) ==
  LET active == Actives(r.target)
      stale  == {i \in OfTarget(r.target) : jobs[i].state \in Finished \cup {"blocked"}}
      J == [i \in JobIds |-> IF i = nextId THEN NewJob(r, active # {})
                             ELSE IF i \in stale THEN NoJob
                             ELSE jobs[i]]
  IN  /\ nextId <= MaxJobs
      /\ Followups(r.target) = {}
      /\ \A a \in active : IsLast(a, active) => jobs[a].state = "working"
      /\ Finish(J, history, {}, Purged(stale))
      /\ nextId' = nextId + 1

\* A new row, behind a running job as a follow-up; the finished and blocked
\* rows of the target make room for it.
CreateJob(r) ==
  LET active == Actives(r.target)
      stale  == {i \in OfTarget(r.target) : jobs[i].state \in Finished \cup {"blocked"}}
      J == [i \in JobIds |-> IF i = nextId THEN NewJob(r, active # {})
                             ELSE IF i \in stale THEN NoJob
                             ELSE jobs[i]]
  IN  /\ nextId <= MaxJobs
      /\ Followups(r.target) = {}
      /\ \A a \in active : IsLast(a, active) => jobs[a].state = "working"
      /\ Finish(J, Recorded(history, jobs, stale), {}, Purged(stale))
      /\ nextId' = nextId + 1

\* In the remaining case, an unclaimed job, enqueue returns None.
Enqueue(r) == UpdateFollowup(r) \/ CreateJob(r)

-----------------------------------------------------------------------------
(* claim_next *)

\* The rows worker w may take; eligible is the answer of the routing callback
\* and defer says that a faster idle worker exists.
Claimable(w, defer, eligible) ==
  {i \in JobIds :
     /\ jobs[i].state = "pending"
     /\ jobs[i].pin \in {None, w}
     /\ defer => jobs[i].pin # None
     /\ jobs[i].followup =>
          \A k \in OfTarget(jobs[i].target) : jobs[k].state # "working"
     /\ i \in eligible \/ jobs[i].pin # None}

ClaimNext(w, defer, eligible) ==
  \E i \in Claimable(w, defer, eligible) :
    /\ \A k \in Claimable(w, defer, eligible) : i <= k
    /\ Finish([jobs EXCEPT ![i].state = "working", ![i].followup = FALSE,
                           ![i].assigned = w],
              history, {}, files)
    /\ UNCHANGED nextId

-----------------------------------------------------------------------------
(* Results *)

\* A late OTA result is patched into a finished row.
PatchResult(i, res) ==
  /\ jobs[i].state \in {"success", "failed"}
  /\ res.ota # None
  /\ Finish([jobs EXCEPT ![i].ota = res.ota], history, {i}, files)

\* Fault: the result of a job that no longer runs is taken too.
FinishAnyJob(i, res) ==
  Finish([jobs EXCEPT ![i].state = res.status, ![i].ota = res.ota], history, {i}, files)

\* The result of a running job.
FinishJob(i, res) ==
  /\ jobs[i].state = "working"
  /\ Finish([jobs EXCEPT ![i].state = res.status,
               ![i].ota = IF res.ota # None THEN res.ota ELSE jobs[i].ota,
               ![i].serverOta = jobs[i].serverOta \/ (res.viaServer /\ res.status = "success")],
            history, {i}, files)

\* submit_result; in any other state it is refused.
SubmitResult(i, res) ==
  /\ PatchResult(i, res) \/ FinishJob(i, res)
  /\ UNCHANGED nextId

\* patch_ota_result, called when the server's own push ends.
PatchOtaResult(i, ota) ==
  /\ jobs[i].state # "none"
  /\ Finish([jobs EXCEPT ![i].ota = ota], history, {i}, files)
  /\ UNCHANGED nextId

-----------------------------------------------------------------------------
(* Routing, cancel, timeouts, release *)

\* re_evaluate_routing: eligible are the jobs some online worker may take.
ReEvaluateRouting(eligible) ==
  LET J == [i \in JobIds |->
              IF jobs[i].state \in Waiting
                THEN [jobs[i] EXCEPT !.state = IF i \in eligible THEN "pending" ELSE "blocked"]
                ELSE jobs[i]]
  IN  /\ J # jobs
      /\ Finish(J, history, {}, files)
      /\ UNCHANGED nextId

Cancel(ids) ==
  LET hit == {i \in ids : jobs[i].state \in Unfinished}
      J == [i \in JobIds |-> IF i \in hit THEN [jobs[i] EXCEPT !.state = "cancelled"]
                             ELSE jobs[i]]
  IN  /\ hit # {}
      /\ Finish(J, history, hit, files)
      /\ UNCHANGED nextId

\* Fault: one attempt too many.
RequeuedPastCap(j) ==
  IF j.retries + 1 > MaxRetries
    THEN [j EXCEPT !.retries = @ + 1, !.state = "failed"]
    ELSE [j EXCEPT !.retries = @ + 1, !.state = "pending", !.assigned = None]

\* Fault: attempts are not counted.
RequeuedUncounted(j) == [j EXCEPT !.state = "pending", !.assigned = None]

\* One attempt is lost: back to the queue, or failed for good at the cap.
Requeued(j) ==
  IF j.retries + 1 >= MaxRetries
    THEN [j EXCEPT !.retries = @ + 1, !.state = "failed"]
    ELSE [j EXCEPT !.retries = @ + 1, !.state = "pending", !.assigned = None]

\* Fault: the history is written before queue.json.
CheckTimeoutsRecordFirst(lost) ==
  LET hit == {i \in lost : jobs[i].state = "working"}
      J == [i \in JobIds |-> IF i \in hit THEN Requeued(jobs[i]) ELSE jobs[i]]
  IN  /\ hit # {}
      /\ Finish(J, Recorded(history, J, hit), {}, files)
      /\ UNCHANGED nextId

\* check_timeouts: lost are the running jobs whose time is over or whose worker
\* went offline.
CheckTimeouts(lost) ==
  LET hit == {i \in lost : jobs[i].state = "working"}
      J == [i \in JobIds |-> IF i \in hit THEN Requeued(jobs[i]) ELSE jobs[i]]
  IN  /\ hit # {}
      /\ Finish(J, history, {i \in hit : J[i].state = "failed"}, files)
      /\ UNCHANGED nextId

\* release_for_retry, and the failure get_next_job submits in the same step
\* when the cap is reached.
ReleaseForRetry(i) ==
  /\ jobs[i].state = "working"
  /\ LET J == [jobs EXCEPT ![i] = Requeued(jobs[i])]
     IN  Finish(J, history, {i}, files)
  /\ UNCHANGED nextId

-----------------------------------------------------------------------------
(* retry, remove, clear *)

OtaFailed(j) == j.state = "success" /\ j.ota = "failed"

\* The job that retries j: the flags download_only and ota_address are not
\* passed on.
RetryOf(j) ==
  [NoJob EXCEPT !.state = "pending", !.target = j.target,
                !.pin = IF OtaFailed(j) THEN j.assigned ELSE j.pin,
                !.otaOnly = OtaFailed(j), !.serverOta = j.serverOta]

\* retry(ids), in any order of the list: the first finished job of a target in
\* ids becomes a new row and takes all finished rows of the target with it, so
\* later ids of that target find nothing.  base[i] is the job that row i retries.
Retry(ids) ==
  LET old == {i \in ids : jobs[i].state \in Finished}
      hit == {jobs[i].target : i \in old}
      stale == {i \in JobIds : jobs[i].target \in hit /\ jobs[i].state \in Finished}
  IN  \E next \in (nextId + 1)..(MaxJobs + 1) :
      \E base \in [nextId..(next - 1) -> old] :
        LET J == [i \in JobIds |-> IF i \in nextId..(next - 1) THEN RetryOf(jobs[base[i]])
                                   ELSE IF i \in stale THEN NoJob
                                   ELSE jobs[i]]
        IN  /\ \A i, k \in nextId..(next - 1) :
                 jobs[base[i]].target = jobs[base[k]].target => i = k
            /\ hit = {jobs[base[i]].target : i \in nextId..(next - 1)}
            /\ Finish(J, Recorded(history, jobs, stale), {}, files)
            /\ nextId' = next

Removed(hit) == [i \in JobIds |-> IF i \in hit THEN NoJob ELSE jobs[i]]

RemoveJobs(ids) ==
  LET hit == {i \in ids : jobs[i].state \in Finished}
  IN  /\ hit # {}
      /\ Finish(Removed(hit), history, {}, Purged(hit))
      /\ UNCHANGED nextId

\* clear: the finished jobs in the given states, on request not those whose
\* OTA failed.
Clear(states, requireOtaSuccess) ==
  LET hit == {i \in JobIds : /\ jobs[i].state \in states \cap Finished
                             /\ ~(requireOtaSuccess /\ jobs[i].ota = "failed")}
  IN  /\ hit # {}
      /\ Finish(Removed(hit), history, {}, Purged(hit))
      /\ UNCHANGED nextId

-----------------------------------------------------------------------------
(* Firmware *)

\* The end of a firmware upload: the binary is written, then the flag is set.
\* An upload that was let in while the job ran is deleted again, with all the
\* job has on disk, when the job no longer runs; one that was let in during the
\* grace window after the job's end stays even if the row is gone by now.  A kill
\* (then Restart) may come before the deletion.
StoreFirmware(i, grace) ==
  /\ \/ /\ IF grace THEN jobs[i].state \in Finished /\ jobs[i].assigned # None
                   ELSE jobs[i].state = "working"
        /\ Finish([jobs EXCEPT ![i].hasFirmware = TRUE], history, {}, files \cup {i})
     \/ /\ IF grace THEN jobs[i].state = "none" ELSE jobs[i].state # "working"
        /\ \/ files' = IF grace THEN files \cup {i} ELSE files \ {i}
           \/ Kills /\ files' = files \cup {i}
        /\ UNCHANGED <<jobs, disk, history>>
  /\ UNCHANGED nextId

\* firmware_retention_enforcer: old binaries go, unless a job in the queue
\* says it has one.
EnforceRetention(old) ==
  /\ old # {} /\ old \subseteq {i \in files : ~jobs[i].hasFirmware}
  /\ files' = files \ old
  /\ UNCHANGED <<jobs, nextId, disk, history>>

\* job_history_retention: old rows leave the history and take their binaries with
\* them, those of jobs still in the queue too.  A kill may come in between.
EvictHistory(old) ==
  /\ old # {} /\ old \subseteq {i \in JobIds : history[i].state # "none"}
  /\ history' = [i \in JobIds |-> IF i \in old THEN NoRow ELSE history[i]]
  /\ \/ files' = files \ old
     \/ Kills /\ files' = files
  /\ UNCHANGED <<jobs, nextId, disk>>

-----------------------------------------------------------------------------

Created == 1..(nextId - 1)
InState(S) == {i \in JobIds : jobs[i].state \in S}
Present == InState(Finished \cup Unfinished)

Next ==
  \/ \E r \in Requests : Enqueue(r)
  \/ \E w \in Workers, defer \in BOOLEAN, eligible \in SUBSET InState({"pending"}) :
       ClaimNext(w, defer, eligible)
  \/ \E i \in Present, res \in Results : SubmitResult(i, res)
  \/ \E i \in InState({"success"}), ota \in {"success", "failed"} :
       jobs[i].serverOta /\ PatchOtaResult(i, ota)
  \/ \E eligible \in SUBSET InState(Waiting) : ReEvaluateRouting(eligible)
  \/ \E ids \in SUBSET InState(Unfinished) : Cancel(ids)
  \/ \E lost \in SUBSET InState({"working"}) : CheckTimeouts(lost)
  \/ \E i \in Present : ReleaseForRetry(i)
  \/ \E ids \in SUBSET InState(Finished) : Retry(ids)
  \/ \E ids \in SUBSET InState(Finished) : RemoveJobs(ids)
  \/ \E states \in SUBSET Finished, ok \in BOOLEAN : Clear(states, ok)
  \/ \E i \in Created \cap Uploads, grace \in BOOLEAN : StoreFirmware(i, grace)
  \/ \E old \in SUBSET files : EnforceRetention(old)
  \/ \E old \in SUBSET Created : EvictHistory(old)
  \/ Restart

Spec == Init /\ [][Next]_vars

-----------------------------------------------------------------------------
(* Properties *)

\* Every variable stays in its type, and no row, in memory, in queue.json or in the
\* history, has an id that was not given out.
TypeOK ==
  /\ jobs \in [JobIds -> Job]
  /\ disk \in [JobIds -> Job]
  /\ history \in [JobIds -> HistoryRow]
  /\ files \subseteq JobIds
  /\ nextId \in 1..(MaxJobs + 1)
  /\ \A i \in JobIds :
       i >= nextId => {jobs[i].state, disk[i].state, history[i].state} = {"none"}

\* check_timeouts, submit_result and cancel persist before they record: a kill in
\* between may lose a history row, but no history row ever shows a verdict that
\* queue.json does not hold, which load() would turn back into a pending job.
HistoryNotAhead ==
  \A i \in JobIds : history[i].state # "none" => disk[i].state \in {history[i].state, "none"}

\* A job that can still run has attempts left, whichever mix of timeouts, offline
\* workers, released claims and restarts it went through.
RetryBudget ==
  \A i \in JobIds : /\ jobs[i].state \in Unfinished => jobs[i].retries < MaxRetries
                    /\ jobs[i].retries <= MaxRetries

\* At most one follow-up waits per target (comment on Job.is_followup), blocked
\* ones included.
OneFollowup ==
  \A i, k \in JobIds :
    /\ jobs[i].state \in Waiting /\ jobs[i].followup
    /\ jobs[k].state \in Waiting /\ jobs[k].followup
    /\ jobs[i].target = jobs[k].target
    => i = k

\* A finished row that a newer job of its target pushes out of the queue has its
\* verdict and OTA result in the history: enqueue and retry record it first.
EvictionRecorded ==
  [][\A i \in JobIds :
       /\ jobs[i].state \in Finished /\ jobs'[i].state = "none"
       /\ nextId' # nextId
       => history'[i].state = jobs[i].state /\ history'[i].ota = jobs[i].ota]_vars

\* The queue implements the life cycle: ids below nextId without a row are gone.
StageOf(i) ==
  IF jobs[i].state # "none" THEN jobs[i].state
  ELSE IF i < nextId THEN "gone" ELSE "unborn"

Lifecycle ==
  INSTANCE JobLifecycle
    WITH stage <- [i \in JobIds |-> StageOf(i)],
         verdict <- [i \in JobIds |-> history[i].state]

\* Through every interleaving, kill and restart, no accepted job is lost, no
\* verdict changes and no history row contradicts the job (JobLifecycle).
ImplementsLifecycle == Lifecycle!Spec

=============================================================================
