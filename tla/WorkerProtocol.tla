--------------------------- MODULE WorkerProtocol ---------------------------
(***************************************************************************)
(* The queue of JobQueue driven by build workers over HTTP: the handlers   *)
(* of ha-addon/server/api.py, timeout_checker of main.py, and the poll     *)
(* loop and run_job of ha-addon/client/client.py.                          *)
(*                                                                         *)
(* A handler awaits in the middle: get_next_job between the claim and the  *)
(* reply while the bundle is built, the firmware upload between the checks *)
(* and the write while the body is read, and a server-side OTA push runs   *)
(* as a task of its own.  Each of these is split where it awaits, and what *)
(* it remembers across the await is in handing, uploads and pushing.       *)
(*                                                                         *)
(* A worker has one build slot.  Routing and deferral are left out: every  *)
(* worker may take every job that is not pinned elsewhere.                 *)
(***************************************************************************)
EXTENDS JobQueue

CONSTANTS
  Sends,        \* attempts _submit_result makes
  MaxVariants,  \* bound: firmware variants one build uploads
  MaxPushes,    \* bound: server-side pushes running for one job at a time
  MaxRestarts   \* bound: restarts of the server

ASSUME ProtocolAssumption ==
  /\ {Sends, MaxVariants, MaxPushes} \subseteq Nat \ {0}
  /\ MaxRestarts \in Nat
  /\ ~Kills                    \* a kill is ServerRestart: open requests go with it
  /\ Result \subseteq Results   \* what a build reports is up to the build
  /\ JobIds \subseteq Uploads   \* and so is what it uploads

VARIABLES
  worker,    \* worker[w]: what the build slot of w does
  handing,   \* get_next_job calls between the claim and the reply
  uploads,   \* firmware uploads that were admitted and whose body is still read
  pushing,   \* pushing[i]: _server_ota_push tasks running for job i
  flashed,   \* jobs whose device some worker has flashed
  online,    \* workers with a recent heartbeat
  restarts   \* restarts so far

protocolVars == <<worker, handing, uploads, pushing, flashed, online, restarts>>
allVars == <<vars, protocolVars>>

\* The part of a JobAssignment that run_job branches on.
Ask(j) == [serverOta |-> j.serverOta, downloadOnly |-> j.downloadOnly, address |-> j.address]

\* How a build ended before the firmware is archived and the result reported.
\* In a "stalled" one the log says compiled, but neither flashed nor failed.
Outcomes == {"broken", "compiled", "diverted", "flashed", "unflashed", "stalled"}

Idle == [phase |-> "idle"]

WInit ==
  /\ Init
  /\ worker = [w \in Workers |-> Idle]
  /\ handing = {}
  /\ uploads = {}
  /\ pushing = [i \in JobIds |-> 0]
  /\ flashed = {}
  /\ online = Workers
  /\ restarts = 0

-----------------------------------------------------------------------------
(* GET /api/v1/jobs/next *)

\* The slot polls and the handler claims a job for it; then it awaits the bundle.
Poll(w) ==
  /\ worker[w].phase = "idle"
  /\ ClaimNext(w, FALSE, InState({"pending"}))
  /\ \E i \in JobIds :
       /\ jobs[i].state = "pending" /\ jobs'[i].state = "working"
       /\ worker' = [worker EXCEPT ![w] = [phase |-> "waiting", job |-> i]]
       /\ handing' = handing \cup {[job |-> i, by |-> w, ask |-> Ask(jobs[i])]}
  /\ UNCHANGED <<uploads, pushing, flashed, online, restarts>>

\* Is the slot of h still waiting for the reply of h?
Awaited(h) == worker[h.by] = [phase |-> "waiting", job |-> h.job]

\* The bundle is ready and the assignment is sent, whatever became of the claim
\* meanwhile; nobody may be listening any more.
HandOver(h) ==
  LET ask == IF jobs[h.job].state = "none" THEN h.ask ELSE Ask(jobs[h.job])
  IN  /\ handing' = handing \ {h}
      /\ worker' = IF Awaited(h)
                     THEN [worker EXCEPT ![h.by] = [phase |-> "building", job |-> h.job, ask |-> ask]]
                     ELSE worker
      /\ UNCHANGED <<vars, uploads, pushing, flashed, online, restarts>>

FailedResult == [status |-> "failed", ota |-> None, viaServer |-> FALSE]

\* Fault: the job fails whatever it is doing by now.
BundleFailsBlindly(h) ==
  /\ handing' = handing \ {h}
  /\ worker' = IF Awaited(h) THEN [worker EXCEPT ![h.by] = Idle] ELSE worker
  /\ Finish([jobs EXCEPT ![h.job].state = "failed"], history, {h.job}, files)
  /\ UNCHANGED <<nextId, uploads, pushing, flashed, online, restarts>>

\* The bundle cannot be built: the job fails, or goes back to the queue while
\* the server's ESPHome is being installed.  Neither asks whose claim it is.
BundleFails(h) ==
  /\ handing' = handing \ {h}
  /\ worker' = IF Awaited(h) THEN [worker EXCEPT ![h.by] = Idle] ELSE worker
  /\ \/ FinishJob(h.job, FailedResult) /\ UNCHANGED nextId
     \/ ReleaseForRetry(h.job)
     \/ jobs[h.job].state # "working" /\ UNCHANGED vars
  /\ UNCHANGED <<uploads, pushing, flashed, online, restarts>>

\* The request of the poll loop times out after 30 s.
GiveUp(w) ==
  /\ worker[w].phase = "waiting"
  /\ worker' = [worker EXCEPT ![w] = Idle]
  /\ UNCHANGED <<vars, handing, uploads, pushing, flashed, online, restarts>>

-----------------------------------------------------------------------------
(* run_job *)

\* Fault: download_only is overlooked.
BuildAndFlash(w) ==
  LET k == worker[w]
  IN  /\ k.phase = "building"
      /\ worker' = [worker EXCEPT ![w] =
           [phase |-> "archiving", job |-> k.job, address |-> k.ask.address,
            outcome |-> "flashed", left |-> 0, archived |-> FALSE, tries |-> Sends]]
      /\ flashed' = flashed \cup {k.job}
      /\ UNCHANGED <<vars, handing, uploads, pushing, online, restarts>>

\* What the build may end in: a compile only, when the assignment asks for it or
\* when the device's known address cannot be reached, or compile and flash.
Build(w) ==
  LET k == worker[w]
      only == k.ask.downloadOnly \/ k.ask.serverOta
  IN  /\ k.phase = "building"
      /\ \E outcome \in Outcomes, left \in 0..MaxVariants :
           /\ outcome = "compiled" => only
           /\ outcome \in {"diverted", "flashed", "unflashed", "stalled"} => ~only
           /\ outcome = "diverted" => k.ask.address
           /\ outcome = "broken" => left = 0
           /\ worker' = [worker EXCEPT ![w] =
                [phase |-> "archiving", job |-> k.job, address |-> k.ask.address,
                 outcome |-> outcome, left |-> left, archived |-> FALSE, tries |-> Sends]]
           /\ flashed' = IF outcome = "flashed" THEN flashed \cup {k.job} ELSE flashed
      /\ UNCHANGED <<vars, handing, uploads, pushing, online, restarts>>

\* Fault: the flash is left to the server although nothing was archived.
ReportUnarchived(k) ==
  [status |-> IF k.outcome = "broken" THEN "failed" ELSE "success", ota |-> None,
   viaServer |-> k.outcome = "diverted"]

\* The result a slot reports once it has tried to archive its variants.
ReportOf(k) ==
  LET failed == k.outcome = "broken" \/ (k.outcome \in {"compiled", "diverted"} /\ ~k.archived)
      via    == k.archived /\ (k.outcome = "diverted" \/ (k.outcome = "unflashed" /\ k.address))
  IN  [status |-> IF failed THEN "failed" ELSE "success",
       ota |-> IF failed \/ via \/ k.outcome = "compiled" THEN None
               ELSE IF k.outcome = "flashed" THEN "success" ELSE "failed",
       viaServer |-> via]

-----------------------------------------------------------------------------
(* POST /api/v1/jobs/{id}/firmware/{variant} *)

Uploading(w) == \E u \in uploads : u.by = w

\* The checks before the body is read: the caller is the assigned worker of a
\* running job, or of one that finished within the grace window.
Admitted(i, w, grace) ==
  /\ jobs[i].assigned = w
  /\ IF grace THEN jobs[i].state \in Finished ELSE jobs[i].state = "working"

BeginUpload(w) ==
  /\ worker[w].phase = "archiving" /\ worker[w].left > 0 /\ ~Uploading(w)
  /\ \E grace \in BOOLEAN :
       /\ Admitted(worker[w].job, w, grace)
       /\ uploads' = uploads \cup {[job |-> worker[w].job, by |-> w, grace |-> grace]}
  /\ UNCHANGED <<vars, worker, handing, pushing, flashed, online, restarts>>

\* One variant is through: the slot goes on to the next.  archived is kept when
\* the reply is lost.
NextVariant(w, accepted) ==
  \E archived \in {worker[w].archived, worker[w].archived \/ accepted} :
    worker' = [worker EXCEPT ![w].left = @ - 1, ![w].archived = archived]

\* The body is read: the binary is saved and the flag set, or all is deleted
\* again.  The checks are not repeated.
EndUpload(u) ==
  /\ StoreFirmware(u.job, u.grace)
  /\ uploads' = uploads \ {u}
  /\ NextVariant(u.by, u.grace \/ jobs[u.job].state = "working")
  /\ UNCHANGED <<handing, pushing, flashed, online, restarts>>

\* The upload is refused, or the connection breaks and the attempts run out.
LoseUpload(w) ==
  /\ worker[w].phase = "archiving" /\ worker[w].left > 0
  /\ uploads' = {u \in uploads : u.by # w}
  /\ NextVariant(w, FALSE)
  /\ UNCHANGED <<vars, handing, pushing, flashed, online, restarts>>

-----------------------------------------------------------------------------
(* POST /api/v1/jobs/{id}/result *)

\* A server-side push follows an accepted success of a row that asks for one.
Pushes(j, res) ==
  /\ j.serverOta /\ ~j.downloadOnly /\ res.status = "success"
  /\ j.hasFirmware /\ j.address

\* submit_job_result: nothing says whose result it is.  A refused result changes
\* nothing.
Submit(i, res) ==
  \/ /\ SubmitResult(i, res)
     /\ pushing' = IF Pushes(jobs'[i], res) THEN [pushing EXCEPT ![i] = @ + 1] ELSE pushing
     /\ pushing'[i] <= MaxPushes
  \/ /\ jobs[i].state # "working" /\ (jobs[i].state \in {"success", "failed"} => res.ota = None)
     /\ UNCHANGED <<vars, pushing>>

Reporting(w) == worker[w].phase = "archiving" /\ worker[w].left = 0

\* One attempt is used up; after the last the slot polls again.
Resend(w) ==
  LET k == worker[w]
  IN  worker' = [worker EXCEPT ![w] = IF k.tries > 1 THEN [k EXCEPT !.tries = @ - 1] ELSE Idle]

\* The result arrives; the reply may be lost, and then it is sent again.
Report(w) ==
  /\ Reporting(w)
  /\ Submit(worker[w].job, ReportOf(worker[w]))
  /\ worker' = [worker EXCEPT ![w] = Idle] \/ Resend(w)
  /\ UNCHANGED <<handing, uploads, flashed, online, restarts>>

LoseReport(w) ==
  /\ Reporting(w)
  /\ Resend(w)
  /\ UNCHANGED <<vars, handing, uploads, pushing, flashed, online, restarts>>

\* _server_ota_push ends, in a result for the row if it still exists.
PushEnds(i) ==
  /\ pushing[i] > 0
  /\ pushing' = [pushing EXCEPT ![i] = @ - 1]
  /\ \/ \E ota \in {"success", "failed"} : PatchOtaResult(i, ota)
     \/ jobs[i].state = "none" /\ UNCHANGED vars
  /\ UNCHANGED <<worker, handing, uploads, flashed, online, restarts>>

-----------------------------------------------------------------------------
(* Failures and the timeout checker *)

\* A heartbeat is late, or comes again.
Heartbeat(w) ==
  /\ online' = IF w \in online THEN online \ {w} ELSE online \cup {w}
  /\ UNCHANGED <<vars, worker, handing, uploads, pushing, flashed, restarts>>

\* The worker process dies and comes back with the same id.
Die(w) ==
  /\ worker[w].phase # "idle"
  /\ worker' = [worker EXCEPT ![w] = Idle]
  /\ uploads' = {u \in uploads : u.by # w}
  /\ UNCHANGED <<vars, handing, pushing, flashed, online, restarts>>

\* One round of timeout_checker: the jobs in expired have run out of time, the
\* jobs of workers that are offline are abandoned.
Sweep(expired) ==
  /\ CheckTimeouts(expired \cup {i \in InState({"working"}) : jobs[i].assigned \notin online})
  /\ UNCHANGED protocolVars

\* The server is killed and restarts: its tasks and open requests are gone.
ServerRestart ==
  /\ restarts < MaxRestarts
  /\ restarts' = restarts + 1
  /\ Restart
  /\ handing' = {} /\ uploads' = {} /\ pushing' = [i \in JobIds |-> 0]
  /\ UNCHANGED <<worker, flashed, online>>

\* What users do through the UI.
User ==
  /\ \/ \E r \in Requests : Enqueue(r)
     \/ \E ids \in SUBSET InState(Unfinished) : Cancel(ids)
     \/ \E ids \in SUBSET InState(Finished) : Retry(ids)
     \/ \E ids \in SUBSET InState(Finished) : RemoveJobs(ids)
  /\ UNCHANGED protocolVars

-----------------------------------------------------------------------------

Slot(w) ==
  \/ Build(w) \/ BeginUpload(w) \/ LoseUpload(w) \/ Report(w) \/ LoseReport(w)
  \/ \E u \in uploads : u.by = w /\ EndUpload(u)

WNext ==
  \/ User
  \/ \E w \in Workers : Poll(w) \/ GiveUp(w) \/ Slot(w) \/ Heartbeat(w) \/ Die(w)
  \/ \E h \in handing : HandOver(h) \/ BundleFails(h)
  \/ \E i \in JobIds : PushEnds(i)
  \/ \E expired \in SUBSET InState({"working"}) : Sweep(expired)
  \/ ServerRestart

\* A slot keeps polling and every step of a build has a timeout; a push has an
\* absolute timeout; a job that stays WORKING is seen by timeout_checker after
\* its timeout_seconds.  Users, heartbeats and failures owe nothing.
Fairness ==
  /\ \A w \in Workers : WF_allVars(Poll(w)) /\ WF_allVars(GiveUp(w)) /\ WF_allVars(Slot(w))
  /\ \A i \in JobIds :
       /\ WF_allVars(PushEnds(i))
       /\ WF_allVars(\E expired \in SUBSET InState({"working"}) : i \in expired /\ Sweep(expired))

WSpec == WInit /\ [][WNext]_allVars
FairSpec == WSpec /\ Fairness

-----------------------------------------------------------------------------
(* Properties *)

\* The composition runs the queue as JobQueue specifies it, so what is proved of
\* the queue holds here too.
ImplementsQueue == Spec

\* download_only means "compile and hand me the binary, do not touch the device":
\* no worker flashes the device of such a job and the server pushes nothing,
\* whoever builds it, after whichever requeues.
DownloadOnlyNeverFlashed ==
  \A i \in JobIds : jobs[i].downloadOnly => i \notin flashed /\ pushing[i] = 0

\* A success that leaves the flash to the server has its firmware archived:
\* also when the result comes from a worker whose claim was taken away.
PushHasFirmware ==
  \A i \in JobIds : jobs[i].state = "success" /\ jobs[i].serverOta => jobs[i].hasFirmware

\* Every accepted job comes to an end: no mix of dead workers, lost requests and
\* replies, failing bundles, late heartbeats and restarts leaves it behind.
JobFinishes ==
  \A i \in JobIds : jobs[i].state \in Unfinished ~> jobs[i].state \notin Unfinished

\* A job whose flash is left to the server: success, but no OTA result yet.
AwaitsPush(i) ==
  jobs[i].state = "success" /\ jobs[i].serverOta /\ jobs[i].ota = None

\* A server-side flash of a device with a known address gets its OTA result,
\* also when the server restarts in the middle of the push.
PushSettles ==
  \A i \in JobIds : AwaitsPush(i) /\ jobs[i].address ~> ~AwaitsPush(i)

=============================================================================
