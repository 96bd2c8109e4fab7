------------------------ MODULE WorkerProtocolProofs ------------------------
(***************************************************************************)
(* Proofs about WorkerProtocol for any workers, requests, numbers of jobs, *)
(* retries, sends, variants, pushes and restarts: the handlers, slots and  *)
(* tasks run the queue as JobQueue specifies it, a download is never       *)
(* flashed, and what the server is to push has been archived.              *)
(***************************************************************************)
EXTENDS WorkerProtocol, StorageProofs

-----------------------------------------------------------------------------
(* The inductive invariant *)

Asks == [serverOta : BOOLEAN, downloadOnly : BOOLEAN, address : BOOLEAN]

\* The outcomes of a build that was to flash the device.
Flashing == {"diverted", "flashed", "unflashed", "stalled"}

WaitingSlot == [phase : {"waiting"}, job : JobIds]
BuildingSlot == [phase : {"building"}, job : JobIds, ask : Asks]
ArchivingSlot ==
  [phase : {"archiving"}, job : JobIds, address : BOOLEAN, outcome : Outcomes,
   left : 0..MaxVariants, archived : BOOLEAN, tries : 1..Sends]

\* A job that was claimed at some time: enqueue changes its row no more.
Held(i) == i < nextId /\ ~jobs[i].followup

\* What a slot was told still describes the row j, if there is one: a push by the
\* server was asked for then, or a success has brought it up since.
Faithful(ask, j) ==
  j.state # "none" =>
    /\ ask.downloadOnly = j.downloadOnly
    /\ j.serverOta => ask.serverOta \/ j.state = "success"

\* What a finished build k means for the row j.
Consistent(k, j) ==
  j.state # "none" =>
    /\ k.outcome \in Flashing => ~j.downloadOnly /\ (j.serverOta => j.state = "success")
    /\ k.archived => j.hasFirmware

SlotOK(k) ==
  \/ k = Idle
  \/ k \in WaitingSlot /\ Held(k.job)
  \/ k \in BuildingSlot /\ Held(k.job) /\ Faithful(k.ask, jobs[k.job])
  \/ k \in ArchivingSlot /\ Held(k.job) /\ Consistent(k, jobs[k.job])

HandingOK(h) == h \in [job : JobIds, by : Workers, ask : Asks] /\ Held(h.job)

\* An upload that is read belongs to the build its worker is archiving.
UploadOK(u) ==
  /\ u \in [job : JobIds, by : Workers, grace : BOOLEAN] /\ Held(u.job)
  /\ worker[u.by] \in ArchivingSlot /\ worker[u.by].job = u.job /\ worker[u.by].left > 0

\* A push runs for a success that is to be pushed, or for a row that is gone.
PushOK(i) ==
  /\ Held(i)
  /\ jobs[i].state # "none" =>
       jobs[i].state = "success" /\ jobs[i].serverOta /\ ~jobs[i].downloadOnly

NoGhosts == \A i \in JobIds : jobs[i].state = "none" => jobs[i] = NoJob

PInv ==
  /\ NoGhosts
  /\ worker \in [Workers -> {Idle} \cup WaitingSlot \cup BuildingSlot \cup ArchivingSlot]
  /\ \A w \in Workers : SlotOK(worker[w])
  /\ \A h \in handing : HandingOK(h)
  /\ \A u \in uploads : UploadOK(u)
  /\ \A u, v \in uploads : u.by = v.by => u = v
  /\ pushing \in [JobIds -> Nat]
  /\ \A i \in JobIds : pushing[i] > 0 => PushOK(i)
  /\ flashed \subseteq JobIds
  /\ \A i \in flashed : i < nextId /\ ~jobs[i].downloadOnly
  /\ PushHasFirmware

-----------------------------------------------------------------------------
(* What a step of the queue may do to a row that was claimed *)

\* A success that leaves the flash to the server has its firmware.
Stored(j) == j.state = "success" /\ j.serverOta => j.hasFirmware

\* Row a becomes row b, or goes.
Carried(a, b) ==
  /\ b.state = "none" => b = NoJob
  /\ b.state # "none" =>
       /\ a.state # "none" /\ b.downloadOnly = a.downloadOnly
       /\ a.hasFirmware => b.hasFirmware
       /\ b.followup => a.followup
       /\ ~a.followup /\ b.serverOta => a.serverOta \/ b.state = "success"
       /\ ~a.followup /\ a.serverOta => b.serverOta
       /\ a.state = "success" => b.state = "success"

Tame ==
  /\ nextId <= nextId'
  /\ \A i \in JobIds : \/ Carried(jobs[i], jobs'[i]) /\ Stored(jobs'[i])
                       \/ i >= nextId /\ jobs'[i].state = "pending"

\* What PInv says of rows outlives such a step.
LEMMA TameKeeps ==
  ASSUME IInv, PInv, Tame, nextId' \in Nat
  PROVE  /\ NoGhosts' /\ PushHasFirmware'
         /\ \A i \in JobIds : Held(i) => Held(i)'
         /\ \A k : SlotOK(k) => SlotOK(k)'
         /\ \A h : HandingOK(h) => HandingOK(h)'
         /\ \A i \in JobIds : PushOK(i) => PushOK(i)'
         /\ \A i \in flashed : i < nextId' /\ ~jobs'[i].downloadOnly
<1>1. nextId \in Nat /\ \A i \in JobIds : i \in Nat
  BY QueueAssumption DEF IInv, JobIds
<1>2. NoGhosts' /\ PushHasFirmware'
  BY DEF Tame, Carried, Stored, NoGhosts, PushHasFirmware
<1>3. \A i \in JobIds : i < nextId => i < nextId' /\ Carried(jobs[i], jobs'[i])
  BY <1>1 DEF Tame
<1>4. \A i \in JobIds : Held(i) => Held(i)'
  BY <1>3 DEF Held, Carried, NoJob
<1>5. \A i \in JobIds : \A ask : Held(i) /\ Faithful(ask, jobs[i]) => Faithful(ask, jobs'[i])
  BY <1>3 DEF Held, Carried, Faithful
<1>6. \A i \in JobIds : \A k : Held(i) /\ Consistent(k, jobs[i]) => Consistent(k, jobs'[i])
  BY <1>3 DEF Held, Carried, Consistent
<1>7. ASSUME NEW k, SlotOK(k)
      PROVE  SlotOK(k)'
  <2>1. CASE k = Idle
    BY <2>1 DEF SlotOK
  <2>2. CASE k \in WaitingSlot /\ Held(k.job)
    BY <1>4, <2>2 DEF SlotOK, WaitingSlot
  <2>3. CASE k \in BuildingSlot /\ Held(k.job) /\ Faithful(k.ask, jobs[k.job])
    BY <1>4, <1>5, <2>3 DEF SlotOK, BuildingSlot
  <2>4. CASE k \in ArchivingSlot /\ Held(k.job) /\ Consistent(k, jobs[k.job])
    BY <1>4, <1>6, <2>4 DEF SlotOK, ArchivingSlot
  <2> QED
    BY <1>7, <2>1, <2>2, <2>3, <2>4 DEF SlotOK
<1>8. \A h : HandingOK(h) => HandingOK(h)'
  BY <1>4 DEF HandingOK
<1>9. \A i \in JobIds : PushOK(i) => PushOK(i)'
  BY <1>3, <1>4 DEF PushOK, Held, Carried
<1>10. \A i \in flashed : i < nextId' /\ ~jobs'[i].downloadOnly
  BY <1>3 DEF PInv, Carried, NoJob
<1> QED
  BY <1>2, <1>4, <1>7, <1>8, <1>9, <1>10

-----------------------------------------------------------------------------
(* The steps of the queue that the protocol takes are of that kind *)

\* No method is cut short: that is left to ServerRestart.
LEMMA Completes ==
  ASSUME NEW J, NEW h, NEW rec, NEW F, Finish(J, h, rec, F)
  PROVE  jobs' = J
  BY ProtocolAssumption DEF Finish

\* The fields of the rows that matter here.
LEMMA RowFacts ==
  ASSUME IInv, PInv, NEW i \in JobIds
  PROVE  jobs[i] \in Job /\ Carried(jobs[i], jobs[i]) /\ Stored(jobs[i])
  BY DEF IInv, Sound, PInv, NoGhosts, Carried, Stored, PushHasFirmware

\* A row that goes.
LEMMA RowGoes ==
  ASSUME NEW a
  PROVE  Carried(a, NoJob) /\ Stored(NoJob)
  BY DEF Carried, Stored, NoJob

\* One row changes.
LEMMA OneRow ==
  ASSUME IInv, PInv, NEW i \in JobIds, NEW b, jobs' = [jobs EXCEPT ![i] = b],
         UNCHANGED nextId, Carried(jobs[i], b), Stored(b)
  PROVE  Tame
<1>1. nextId <= nextId'
  BY QueueAssumption DEF IInv
<1>2. \A k \in JobIds : jobs'[k] = IF k = i THEN b ELSE jobs[k]
  BY DEF IInv, Sound
<1> QED
  BY <1>1, <1>2, RowFacts DEF Tame

\* Rows change one by one, or go, and no id is given out.
LEMMA ManyRows ==
  ASSUME IInv, PInv, UNCHANGED nextId,
         \A i \in JobIds : Carried(jobs[i], jobs'[i]) /\ Stored(jobs'[i])
  PROVE  Tame
  BY QueueAssumption DEF IInv, Tame

\* What Requeued keeps of a running row.
LEMMA RequeuedCarried ==
  ASSUME NEW j \in Job, j.state = "working"
  PROVE  Carried(j, Requeued(j)) /\ Stored(Requeued(j))
<1>1. \/ Requeued(j) = [j EXCEPT !.retries = @ + 1, !.state = "failed"]
      \/ Requeued(j) = [j EXCEPT !.retries = @ + 1, !.state = "pending", !.assigned = None]
  BY DEF Requeued
<1>2. /\ Requeued(j).state \in {"failed", "pending"}
      /\ Requeued(j).downloadOnly = j.downloadOnly /\ Requeued(j).hasFirmware = j.hasFirmware
      /\ Requeued(j).followup = j.followup /\ Requeued(j).serverOta = j.serverOta
  BY <1>1 DEF Job
<1> QED
  BY <1>2 DEF Carried, Stored

LEMMA ClaimTame ==
  ASSUME IInv, PInv, NEW w, NEW defer, NEW eligible, ClaimNext(w, defer, eligible)
  PROVE  Tame
<1>1. PICK i \in Claimable(w, defer, eligible) :
        /\ Finish([jobs EXCEPT ![i].state = "working", ![i].followup = FALSE,
                               ![i].assigned = w], history, {}, files)
        /\ UNCHANGED nextId
  BY DEF ClaimNext
<1> DEFINE b == [jobs[i] EXCEPT !.state = "working", !.followup = FALSE, !.assigned = w]
<1>2. i \in JobIds /\ jobs[i].state = "pending" /\ jobs[i] \in Job
  BY RowFacts DEF Claimable
<1>3. jobs' = [jobs EXCEPT ![i] = b]
  BY <1>1, Completes
<1>4. Carried(jobs[i], b) /\ Stored(b)
  BY <1>2 DEF Carried, Stored, Job
<1> HIDE DEF b
<1> QED
  BY <1>1, <1>2, <1>3, <1>4, OneRow

LEMMA EnqueueTame ==
  ASSUME IInv, PInv, NEW r \in Requests, Enqueue(r)
  PROVE  Tame
<1>1. CASE UpdateFollowup(r)
  <2>1. PICK f \in Followups(r.target) :
          /\ Finish([jobs EXCEPT ![f].pin = r.pin, ![f].address = r.address,
                                 ![f].serverOta = r.serverOta], history, {}, files)
          /\ UNCHANGED nextId
    BY <1>1 DEF UpdateFollowup
  <2> DEFINE b == [jobs[f] EXCEPT !.pin = r.pin, !.address = r.address, !.serverOta = r.serverOta]
  <2>2. f \in JobIds /\ jobs[f].state = "pending" /\ jobs[f].followup /\ jobs[f] \in Job
    BY RowFacts DEF Followups, OfTarget
  <2>3. jobs' = [jobs EXCEPT ![f] = b]
    BY <2>1, Completes
  <2>4. Carried(jobs[f], b) /\ Stored(b)
    BY <2>2 DEF Carried, Stored, Job
  <2> HIDE DEF b
  <2> QED
    BY <2>1, <2>2, <2>3, <2>4, OneRow
<1>2. CASE CreateJob(r)
  <2> DEFINE stale == {k \in OfTarget(r.target) : jobs[k].state \in Finished \cup {"blocked"}}
             new == NewJob(r, Actives(r.target) # {})
             J == [k \in JobIds |-> IF k = nextId THEN new
                                    ELSE IF k \in stale THEN NoJob
                                    ELSE jobs[k]]
  <2>1. /\ Finish(J, Recorded(history, jobs, stale), {}, Purged(stale))
        /\ nextId' = nextId + 1
    BY <1>2 DEF CreateJob
  <2>2. jobs' = J
    BY <2>1, Completes
  <2>3. new.state = "pending"
    BY DEF NewJob, NoJob
  <2>4. nextId \in Nat
    BY QueueAssumption DEF IInv
  <2> HIDE DEF new, stale
  <2>5. \A i \in JobIds : \/ jobs'[i] \in {NoJob, jobs[i]}
                          \/ i = nextId /\ jobs'[i].state = "pending"
    BY <2>2, <2>3
  <2>6. ASSUME NEW i \in JobIds
        PROVE  \/ Carried(jobs[i], jobs'[i]) /\ Stored(jobs'[i])
               \/ i >= nextId /\ jobs'[i].state = "pending"
    <3>1. CASE jobs'[i] = NoJob
      BY <3>1, RowGoes
    <3>2. CASE jobs'[i] = jobs[i]
      BY <3>2, RowFacts
    <3> QED
      BY <2>4, <2>5, <3>1, <3>2
  <2>7. nextId <= nextId'
    BY <2>1, <2>4
  <2> QED
    BY <2>6, <2>7 DEF Tame
<1> QED
  BY <1>1, <1>2 DEF Enqueue

LEMMA CancelTame ==
  ASSUME IInv, PInv, NEW ids, Cancel(ids)
  PROVE  Tame
<1> DEFINE hit == {k \in ids : jobs[k].state \in Unfinished}
           J == [k \in JobIds |-> IF k \in hit THEN [jobs[k] EXCEPT !.state = "cancelled"]
                                  ELSE jobs[k]]
<1>1. Finish(J, history, hit, files) /\ UNCHANGED nextId
  BY DEF Cancel
<1>2. jobs' = J
  BY <1>1, Completes
<1>3. ASSUME NEW i \in JobIds
      PROVE  Carried(jobs[i], jobs'[i]) /\ Stored(jobs'[i])
  <2>1. CASE i \in hit
    <3>1. jobs'[i] = [jobs[i] EXCEPT !.state = "cancelled"] /\ jobs[i] \in Job
      BY <1>2, <2>1, RowFacts
    <3>2. jobs[i].state \in Unfinished
      BY <2>1
    <3> QED
      BY <3>1, <3>2 DEF Carried, Stored, Job, Unfinished, Waiting
  <2>2. CASE i \notin hit
    BY <1>2, <2>2, RowFacts
  <2> QED
    BY <2>1, <2>2
<1> QED
  BY <1>1, <1>3, ManyRows

LEMMA RetryTame ==
  ASSUME IInv, PInv, NEW ids, Retry(ids)
  PROVE  Tame
<1> DEFINE old == {k \in ids : jobs[k].state \in Finished}
           hit == {jobs[k].target : k \in old}
           stale == {k \in JobIds : jobs[k].target \in hit /\ jobs[k].state \in Finished}
<1>1. PICK next \in (nextId + 1)..(MaxJobs + 1) :
        \E base \in [nextId..(next - 1) -> old] :
          /\ Finish([k \in JobIds |-> IF k \in nextId..(next - 1) THEN RetryOf(jobs[base[k]])
                                      ELSE IF k \in stale THEN NoJob
                                      ELSE jobs[k]],
                    Recorded(history, jobs, stale), {}, files)
          /\ nextId' = next
  BY DEF Retry
<1>2. PICK base \in [nextId..(next - 1) -> old] :
        /\ Finish([k \in JobIds |-> IF k \in nextId..(next - 1) THEN RetryOf(jobs[base[k]])
                                    ELSE IF k \in stale THEN NoJob
                                    ELSE jobs[k]],
                  Recorded(history, jobs, stale), {}, files)
        /\ nextId' = next
  BY <1>1
<1> DEFINE J == [k \in JobIds |-> IF k \in nextId..(next - 1) THEN RetryOf(jobs[base[k]])
                                  ELSE IF k \in stale THEN NoJob
                                  ELSE jobs[k]]
<1>3. jobs' = J
  BY <1>2, Completes
<1>4. nextId \in Nat /\ nextId <= nextId' /\ \A i \in JobIds : i \in Nat
  BY <1>2, QueueAssumption DEF IInv, JobIds
<1>5. \A k : RetryOf(jobs[k]).state = "pending"
  BY DEF RetryOf, NoJob
<1> HIDE DEF stale
<1>6. ASSUME NEW i \in JobIds
      PROVE  \/ Carried(jobs[i], jobs'[i]) /\ Stored(jobs'[i])
             \/ i >= nextId /\ jobs'[i].state = "pending"
  <2>1. CASE i \in nextId..(next - 1)
    <3>1. jobs'[i] = RetryOf(jobs[base[i]])
      BY <1>3, <2>1
    <3>2. jobs'[i].state = "pending"
      BY <1>5, <3>1
    <3> QED
      BY <1>4, <2>1, <3>2
  <2>2. CASE i \notin nextId..(next - 1) /\ i \in stale
    <3>1. jobs'[i] = NoJob
      BY <1>3, <2>2
    <3> QED
      BY <3>1, RowGoes
  <2>3. CASE i \notin nextId..(next - 1) /\ i \notin stale
    <3>1. jobs'[i] = jobs[i]
      BY <1>3, <2>3
    <3> QED
      BY <3>1, RowFacts
  <2> QED
    BY <2>1, <2>2, <2>3
<1> QED
  BY <1>4, <1>6 DEF Tame

LEMMA RemoveTame ==
  ASSUME IInv, PInv, NEW ids, RemoveJobs(ids)
  PROVE  Tame
<1> DEFINE hit == {k \in ids : jobs[k].state \in Finished}
<1>1. Finish(Removed(hit), history, {}, Purged(hit)) /\ UNCHANGED nextId
  BY DEF RemoveJobs
<1>2. jobs' = Removed(hit)
  BY <1>1, Completes
<1> HIDE DEF hit
<1>3. \A i \in JobIds : jobs'[i] \in {NoJob, jobs[i]}
  BY <1>2 DEF Removed
<1>4. \A i \in JobIds : Carried(jobs[i], jobs'[i]) /\ Stored(jobs'[i])
  BY <1>3, RowGoes, RowFacts
<1> QED
  BY <1>1, <1>4, ManyRows

LEMMA TimeoutsTame ==
  ASSUME IInv, PInv, NEW lost, CheckTimeouts(lost)
  PROVE  Tame
<1> DEFINE hit == {k \in lost : jobs[k].state = "working"}
           J == [k \in JobIds |-> IF k \in hit THEN Requeued(jobs[k]) ELSE jobs[k]]
<1>1. Finish(J, history, {k \in hit : J[k].state = "failed"}, files) /\ UNCHANGED nextId
  BY DEF CheckTimeouts
<1>2. jobs' = J
  BY <1>1, Completes
<1>3. ASSUME NEW i \in JobIds
      PROVE  Carried(jobs[i], jobs'[i]) /\ Stored(jobs'[i])
  <2>1. jobs'[i] = IF i \in hit THEN Requeued(jobs[i]) ELSE jobs[i]
    BY <1>2
  <2>2. i \in hit => jobs[i].state = "working"
    OBVIOUS
  <2> HIDE DEF hit
  <2> QED
    BY <2>1, <2>2, RequeuedCarried, RowFacts
<1> QED
  BY <1>1, <1>3, ManyRows

LEMMA ReleaseTame ==
  ASSUME IInv, PInv, NEW i \in JobIds, ReleaseForRetry(i)
  PROVE  Tame
<1>1. /\ jobs[i].state = "working" /\ UNCHANGED nextId
      /\ jobs' = [jobs EXCEPT ![i] = Requeued(jobs[i])]
  BY Completes DEF ReleaseForRetry
<1> QED
  BY <1>1, OneRow, RequeuedCarried, RowFacts

\* A patched OTA result.
LEMMA PatchTame ==
  ASSUME IInv, PInv, NEW i \in JobIds, NEW ota, UNCHANGED nextId,
         NEW h, NEW rec, NEW F, Finish([jobs EXCEPT ![i].ota = ota], h, rec, F),
         jobs[i].state # "none"
  PROVE  Tame
<1> DEFINE b == [jobs[i] EXCEPT !.ota = ota]
<1>1. jobs' = [jobs EXCEPT ![i] = b]
  BY Completes
<1>2. Carried(jobs[i], b) /\ Stored(b)
  BY RowFacts DEF Carried, Stored, Job
<1> HIDE DEF b
<1> QED
  BY <1>1, <1>2, OneRow

\* The end of an upload.
LEMMA StoreTame ==
  ASSUME IInv, PInv, NEW i \in JobIds, NEW grace, StoreFirmware(i, grace)
  PROVE  /\ Tame
         /\ grace \/ jobs[i].state = "working" => jobs'[i].state = "none" \/ jobs'[i].hasFirmware
<1>1. UNCHANGED nextId
  BY DEF StoreFirmware
<1>2. CASE jobs[i].state # "none" /\
           Finish([jobs EXCEPT ![i].hasFirmware = TRUE], history, {}, files \cup {i})
  <2> DEFINE b == [jobs[i] EXCEPT !.hasFirmware = TRUE]
  <2>1. jobs' = [jobs EXCEPT ![i] = b]
    BY <1>2, Completes
  <2>2. Carried(jobs[i], b) /\ Stored(b) /\ b.hasFirmware
    BY <1>2, RowFacts DEF Carried, Stored, Job
  <2>3. jobs'[i] = b
    BY <2>1 DEF IInv, Sound
  <2> HIDE DEF b
  <2> QED
    BY <1>1, <2>1, <2>2, <2>3, OneRow
<1>3. CASE UNCHANGED jobs /\ (IF grace THEN jobs[i].state = "none" ELSE jobs[i].state # "working")
  <2>1. \A k \in JobIds : Carried(jobs[k], jobs'[k]) /\ Stored(jobs'[k])
    BY <1>3, RowFacts
  <2> QED
    BY <1>1, <1>3, <2>1, ManyRows
<1> QED
  BY <1>2, <1>3 DEF StoreFirmware, Finished

\* The restart: what load() makes of the rows.
LEMMA RestartTame ==
  ASSUME IInv, PInv, Restart
  PROVE  Tame
<1>1. UNCHANGED nextId /\ jobs' = Loaded(disk)
  BY DEF Restart, Restarted, Loaded
<1>2. ASSUME NEW j \in Job, j.state = "none" => j = NoJob, Stored(j)
      PROVE  /\ Carried(j, Recover(j)) /\ Stored(Recover(j))
  <2>1. CASE j.state = "working"
    BY <2>1 DEF Recover, Carried, Stored, Job
  <2>2. CASE j.state # "working" /\ Stranded(j)
    BY <1>2, <2>2 DEF Recover, Carried, Stored, Stranded, Job
  <2>3. CASE j.state # "working" /\ ~Stranded(j)
    BY <1>2, <2>3 DEF Recover, Carried, Stored
  <2> QED
    BY <2>1, <2>2, <2>3
<1>3. CASE jobs = disk
  <2>1. \A i \in JobIds : jobs'[i] = Recover(jobs[i])
    BY <1>1, <1>3 DEF Loaded
  <2>2. \A i \in JobIds : jobs[i].state = "none" => jobs[i] = NoJob
    BY DEF PInv, NoGhosts
  <2>3. \A i \in JobIds : Carried(jobs[i], jobs'[i]) /\ Stored(jobs'[i])
    BY <1>2, <2>1, <2>2, RowFacts
  <2> QED
    BY <1>1, <2>3, ManyRows
<1>4. CASE jobs = Loaded(disk)
  <2>1. \A i \in JobIds : Carried(jobs[i], jobs'[i]) /\ Stored(jobs'[i])
    BY <1>1, <1>4, RowFacts
  <2> QED
    BY <1>1, <2>1, ManyRows
<1> QED
  BY <1>3, <1>4 DEF IInv, MemoryMatchesDisk, Loaded

\* Nothing happens to the queue.
LEMMA StutterTame ==
  ASSUME IInv, PInv, UNCHANGED <<jobs, nextId>>
  PROVE  Tame
<1>1. \A i \in JobIds : Carried(jobs[i], jobs'[i]) /\ Stored(jobs'[i])
  BY RowFacts
<1> QED
  BY <1>1, ManyRows

-----------------------------------------------------------------------------
(* Results *)

\* What a slot reports is a result submit_result may be sent.
LEMMA ReportIsResult ==
  ASSUME NEW k \in ArchivingSlot
  PROVE  ReportOf(k) \in Results
<1>1. ReportOf(k) \in Result
  BY QueueAssumption DEF ReportOf, Result, OtaResults
<1> QED
  BY <1>1, ProtocolAssumption

\* The result of a running job is taken: what the server is to push was archived.
LEMMA FinishTame ==
  ASSUME IInv, PInv, NEW i \in JobIds, NEW res \in Result, FinishJob(i, res), UNCHANGED nextId,
         res.status = "success" /\ (res.viaServer \/ jobs[i].serverOta) => jobs[i].hasFirmware
  PROVE  /\ Tame
         /\ jobs'[i].state = res.status /\ jobs'[i].downloadOnly = jobs[i].downloadOnly
<1> DEFINE ota == IF res.ota # None THEN res.ota ELSE jobs[i].ota
           via == jobs[i].serverOta \/ (res.viaServer /\ res.status = "success")
           b == [jobs[i] EXCEPT !.state = res.status, !.ota = ota, !.serverOta = via]
<1>1. jobs[i].state = "working" /\ jobs' = [jobs EXCEPT ![i] = b]
  BY Completes DEF FinishJob
<1>2. jobs[i] \in Job /\ res.status \in {"success", "failed"}
  BY RowFacts DEF Result
<1>3. /\ b.state = res.status /\ b.serverOta = via
      /\ b.downloadOnly = jobs[i].downloadOnly /\ b.hasFirmware = jobs[i].hasFirmware
      /\ b.followup = jobs[i].followup
  BY <1>2 DEF Job
<1>4. jobs'[i] = b
  BY <1>1 DEF IInv, Sound
<1> HIDE DEF b
<1>5. Carried(jobs[i], b) /\ Stored(b)
  BY <1>1, <1>2, <1>3 DEF Carried, Stored
<1> QED
  BY <1>1, <1>3, <1>4, <1>5, OneRow

\* A slot's result, taken, patched or refused; a push that follows it is in order.
LEMMA SubmitOK ==
  ASSUME IInv, PInv, NEW k \in ArchivingSlot, Held(k.job), Consistent(k, jobs[k.job]),
         Submit(k.job, ReportOf(k))
  PROVE  /\ [Next]_vars /\ Tame /\ nextId' = nextId
         /\ pushing' \in [JobIds -> Nat]
         /\ \A i \in JobIds : pushing'[i] > 0 => pushing[i] > 0 \/ PushOK(i)'
<1> DEFINE i == k.job
           res == ReportOf(k)
<1>1. i \in JobIds /\ res \in Results /\ res \in Result /\ jobs[i] \in Job
  BY ReportIsResult, ResultsAssumption, RowFacts DEF ArchivingSlot
<1>2. /\ res.status = "success" => k.outcome # "broken"
      /\ res.status = "success" /\ k.outcome \in {"compiled", "diverted"} => k.archived
      /\ res.viaServer => k.archived
      /\ res.ota # None => k.outcome \in Flashing
  BY QueueAssumption DEF ReportOf, Flashing, ArchivingSlot, Outcomes
<1>3. k.outcome \in {"broken", "compiled"} \cup Flashing
  BY DEF ArchivingSlot, Outcomes, Flashing
<1> HIDE DEF res, i
<1>4. CASE UNCHANGED <<vars, pushing>>
  BY <1>4, StutterTame DEF vars, PInv
<1>5. CASE /\ SubmitResult(i, res)
           /\ pushing' = IF Pushes(jobs'[i], res) THEN [pushing EXCEPT ![i] = @ + 1] ELSE pushing
  <2>1. nextId' = nextId /\ i \in Present
    BY <1>1, <1>5 DEF SubmitResult, PatchResult, FinishJob, Present, InState, Finished, Unfinished
  <2>2. Next
    BY <1>1, <1>5, <2>1 DEF Next
  <2>3. Tame /\ (Pushes(jobs'[i], res) =>
                   jobs'[i].state = "success" /\ jobs'[i].serverOta /\ ~jobs'[i].downloadOnly)
    <3>1. CASE FinishJob(i, res)
      <4>1. jobs[i].state = "working"
        BY <3>1 DEF FinishJob
      <4>2. res.status = "success" /\ (res.viaServer \/ jobs[i].serverOta) => jobs[i].hasFirmware
        BY <1>2, <1>3, <4>1 DEF Consistent, i, Flashing
      <4> QED
        BY <1>1, <2>1, <3>1, <4>2, FinishTame DEF Pushes
    <3>2. CASE PatchResult(i, res)
      <4>1. jobs' = [jobs EXCEPT ![i].ota = res.ota] /\ jobs[i].state \in {"success", "failed"}
        BY <3>2, Completes DEF PatchResult
      <4>2. Tame
        BY <1>1, <2>1, <3>2, PatchTame DEF PatchResult
      <4>3. /\ jobs'[i].state = jobs[i].state /\ jobs'[i].serverOta = jobs[i].serverOta
            /\ jobs'[i].downloadOnly = jobs[i].downloadOnly
        BY <1>1, <4>1 DEF Job, IInv, Sound
      <4>4. jobs[i].serverOta => jobs[i].state = "success"
        BY <1>2, <3>2, <4>1 DEF Consistent, PatchResult, i
      <4> QED
        BY <4>2, <4>3, <4>4 DEF Pushes
    <3> QED
      BY <1>5, <3>1, <3>2 DEF SubmitResult
  <2>4. Held(i)'
    BY <1>1, <2>1, <2>3, TameKeeps DEF IInv, i
  <2>5. pushing' \in [JobIds -> Nat]
    BY <1>1, <1>5 DEF PInv
  <2>6. Pushes(jobs'[i], res) => PushOK(i)'
    BY <2>3, <2>4 DEF PushOK
  <2>7. \A n \in JobIds : (n = i /\ Pushes(jobs'[i], res)) \/ pushing'[n] = pushing[n]
    BY <1>5 DEF PInv
  <2> QED
    BY <2>1, <2>2, <2>3, <2>5, <2>6, <2>7
<1> QED
  BY <1>4, <1>5 DEF Submit, i, res

-----------------------------------------------------------------------------
(* The steps of the protocol *)

\* A step keeps PInv when it is tame and what it changes outside the queue is in order.
LEMMA PInvAfter ==
  ASSUME IInv, PInv, [Next]_vars, Tame,
         worker' \in [Workers -> {Idle} \cup WaitingSlot \cup BuildingSlot \cup ArchivingSlot],
         \A w \in Workers : worker'[w] = worker[w] \/ SlotOK(worker[w])',
         \A h \in handing' : h \in handing \/ HandingOK(h)',
         \A u \in uploads' : UploadOK(u)',
         \A u, v \in uploads' : u.by = v.by => u = v,
         pushing' \in [JobIds -> Nat],
         \A i \in JobIds : pushing'[i] > 0 => pushing[i] > 0 \/ PushOK(i)',
         \A i \in flashed' :
           i \in flashed \/ (i \in JobIds /\ i < nextId' /\ ~jobs'[i].downloadOnly)
  PROVE  PInv'
<1>1. nextId' \in Nat
  BY NextIInv, QueueAssumption DEF IInv
<1> QED
  BY <1>1, TameKeeps DEF PInv

\* An upload that goes on while its slot and the rows of the queue stay as they were.
LEMMA UploadStays ==
  ASSUME IInv, PInv, [Next]_vars, Tame, NEW u \in uploads, worker'[u.by] = worker[u.by]
  PROVE  UploadOK(u)'
<1>1. nextId' \in Nat
  BY NextIInv, QueueAssumption DEF IInv
<1>2. u \in [job : JobIds, by : Workers, grace : BOOLEAN] /\ Held(u.job)
  BY DEF PInv, UploadOK
<1>3. Held(u.job)'
  BY <1>1, <1>2, TameKeeps
<1> QED
  BY <1>2, <1>3 DEF PInv, UploadOK

\* The queue does its part and the slots stay as they were.
LEMMA QueueStep ==
  ASSUME IInv, PInv, [Next]_vars, Tame, handing' \subseteq handing,
         UNCHANGED <<worker, uploads, pushing, flashed>>
  PROVE  PInv'
<1>1. worker' = worker /\ uploads' = uploads /\ pushing' = pushing /\ flashed' = flashed
  OBVIOUS
<1>2. \A u \in uploads' : UploadOK(u)'
  BY <1>1, UploadStays
<1>3. worker' \in [Workers -> {Idle} \cup WaitingSlot \cup BuildingSlot \cup ArchivingSlot]
  BY <1>1 DEF PInv
<1>4. pushing' \in [JobIds -> Nat] /\ \A u, v \in uploads' : u.by = v.by => u = v
  BY <1>1 DEF PInv
<1> QED
  BY <1>1, <1>2, <1>3, <1>4, PInvAfter

\* One slot moves on, pushes may start; uploads of that slot are gone.
LEMMA SlotStepPushing ==
  ASSUME IInv, PInv, [Next]_vars, Tame, NEW w \in Workers, NEW k,
         worker' = [worker EXCEPT ![w] = k], SlotOK(k)',
         uploads' \subseteq {u \in uploads : u.by # w},
         handing' \subseteq handing, UNCHANGED flashed,
         pushing' \in [JobIds -> Nat],
         \A i \in JobIds : pushing'[i] > 0 => pushing[i] > 0 \/ PushOK(i)'
  PROVE  PInv'
<1>1. k \in {Idle} \cup WaitingSlot \cup BuildingSlot \cup ArchivingSlot
  BY DEF SlotOK
<1>2. /\ worker' \in [Workers -> {Idle} \cup WaitingSlot \cup BuildingSlot \cup ArchivingSlot]
      /\ \A x \in Workers : worker'[x] = IF x = w THEN k ELSE worker[x]
  BY <1>1 DEF PInv
<1>3. \A u \in uploads : u.by \in Workers
  BY DEF PInv, UploadOK
<1>4. \A u \in uploads' : UploadOK(u)'
  BY <1>2, <1>3, UploadStays
<1>5. \A u, v \in uploads' : u.by = v.by => u = v
  BY DEF PInv
<1> QED
  BY <1>2, <1>4, <1>5, PInvAfter

LEMMA SlotStep ==
  ASSUME IInv, PInv, [Next]_vars, Tame, NEW w \in Workers, NEW k,
         worker' = [worker EXCEPT ![w] = k], SlotOK(k)',
         uploads' \subseteq {u \in uploads : u.by # w},
         handing' \subseteq handing, UNCHANGED <<pushing, flashed>>
  PROVE  PInv'
<1>1. pushing' \in [JobIds -> Nat]
  BY DEF PInv
<1> QED
  BY <1>1, SlotStepPushing

\* A slot that archives nothing has no upload.
LEMMA NoUpload ==
  ASSUME PInv, NEW w \in Workers, worker[w] \notin ArchivingSlot \/ ~(worker[w].left > 0)
  PROVE  uploads = {u \in uploads : u.by # w}
  BY DEF PInv, UploadOK

LEMMA IdleOK == SlotOK(Idle)'
  BY DEF SlotOK

LEMMA PollStep ==
  ASSUME IInv, PInv, NEW w \in Workers, Poll(w)
  PROVE  [Next]_vars /\ PInv'
<1>1. ClaimNext(w, FALSE, InState({"pending"})) /\ worker[w].phase = "idle"
  BY DEF Poll
<1>2. Next
  BY <1>1 DEF Next
<1>3. Tame
  BY <1>1, ClaimTame
<1>4. PICK i \in JobIds :
        /\ jobs[i].state = "pending" /\ jobs'[i].state = "working"
        /\ worker' = [worker EXCEPT ![w] = [phase |-> "waiting", job |-> i]]
        /\ handing' = handing \cup {[job |-> i, by |-> w, ask |-> Ask(jobs[i])]}
  BY DEF Poll
<1>5. IInv' /\ nextId' \in Nat
  BY <1>2, NextIInv, QueueAssumption DEF IInv
<1>6. Held(i)'
  BY <1>4, <1>5, QueueAssumption DEF Held, IInv, Sound, JobIds
<1> DEFINE k == [phase |-> "waiting", job |-> i]
<1>0. PICK h : h = [job |-> i, by |-> w, ask |-> Ask(jobs[i])]
  OBVIOUS
<1>7. k \in WaitingSlot /\ k.job = i /\ SlotOK(k)'
  BY <1>6 DEF WaitingSlot, SlotOK
<1>8. h \in [job : JobIds, by : Workers, ask : Asks] /\ h.job = i
  BY <1>0, RowFacts DEF Ask, Asks, Job
<1>9. HandingOK(h)'
  BY <1>6, <1>8 DEF HandingOK
<1>10. worker[w] \notin ArchivingSlot
  BY <1>1 DEF ArchivingSlot
<1>11. UNCHANGED <<uploads, pushing, flashed>>
  BY DEF Poll
<1> HIDE DEF k
<1>12. /\ worker' \in [Workers -> {Idle} \cup WaitingSlot \cup BuildingSlot \cup ArchivingSlot]
       /\ \A x \in Workers : worker'[x] = IF x = w THEN k ELSE worker[x]
  BY <1>4, <1>7 DEF PInv, k
<1>13. \A u \in uploads' : u \in uploads /\ u.by \in Workers /\ u.by # w
  BY <1>10, <1>11 DEF PInv, UploadOK
<1>14. \A u \in uploads' : UploadOK(u)'
  BY <1>2, <1>3, <1>12, <1>13, UploadStays
<1>15. \A n \in handing' : n \in handing \/ HandingOK(n)'
  BY <1>0, <1>4, <1>9
<1>16. pushing' \in [JobIds -> Nat] /\ \A u, v \in uploads' : u.by = v.by => u = v
  BY <1>11 DEF PInv
<1>17. \A x \in Workers : worker'[x] = worker[x] \/ SlotOK(worker[x])'
  BY <1>7, <1>12
<1> QED
  BY <1>2, <1>3, <1>11, <1>12, <1>14, <1>15, <1>16, <1>17, PInvAfter

LEMMA HandOverStep ==
  ASSUME IInv, PInv, NEW h \in handing, HandOver(h)
  PROVE  [Next]_vars /\ PInv'
<1>1. /\ UNCHANGED vars /\ UNCHANGED <<uploads, pushing, flashed>> /\ handing' \subseteq handing
      /\ UNCHANGED <<jobs, nextId>>
  BY DEF HandOver, vars
<1>2. Tame
  BY <1>1, StutterTame
<1>3. h \in [job : JobIds, by : Workers, ask : Asks] /\ Held(h.job)
  BY DEF PInv, HandingOK
<1>4. CASE Awaited(h)
  <2>1. PICK ask : ask = IF jobs[h.job].state = "none" THEN h.ask ELSE Ask(jobs[h.job])
    OBVIOUS
  <2>2. ask \in Asks /\ Faithful(ask, jobs[h.job])
    BY <1>3, <2>1, RowFacts DEF Ask, Asks, Job, Faithful
  <2> DEFINE k == [phase |-> "building", job |-> h.job, ask |-> ask]
  <2>3. k \in BuildingSlot /\ k.job = h.job /\ k.ask = ask
    BY <1>3, <2>2 DEF BuildingSlot
  <2>4. worker' = [worker EXCEPT ![h.by] = k]
    BY <1>4, <2>1 DEF HandOver
  <2> HIDE DEF k
  <2>5. SlotOK(k)'
    BY <1>1, <1>3, <2>2, <2>3 DEF SlotOK, Held, Faithful
  <2>6. worker[h.by] \notin ArchivingSlot
    BY <1>4 DEF Awaited, ArchivingSlot
  <2> QED
    BY <1>1, <1>2, <1>3, <2>4, <2>5, <2>6, NoUpload, SlotStep
<1>5. CASE ~Awaited(h)
  BY <1>1, <1>2, <1>5, QueueStep DEF HandOver
<1> QED
  BY <1>4, <1>5

\* A failed bundle is a result or a release of the queue, or changes nothing there.
LEMMA BundleFailsStep ==
  ASSUME IInv, PInv, NEW h \in handing, BundleFails(h)
  PROVE  [Next]_vars /\ PInv'
<1>1. UNCHANGED <<uploads, pushing, flashed>> /\ handing' \subseteq handing
  BY DEF BundleFails
<1>2. h \in [job : JobIds, by : Workers, ask : Asks]
  BY DEF PInv, HandingOK
<1>3. FailedResult \in Result /\ FailedResult.status = "failed"
  BY DEF FailedResult, Result, OtaResults
<1>4. [Next]_vars /\ Tame
  <2>1. CASE FinishJob(h.job, FailedResult) /\ UNCHANGED nextId
    <3>1. h.job \in Present
      BY <1>2, <2>1 DEF FinishJob, Present, InState, Unfinished
    <3>2. FailedResult \in Results
      BY <1>3, ProtocolAssumption
    <3>3. SubmitResult(h.job, FailedResult)
      BY <2>1 DEF SubmitResult
    <3>4. Next
      BY <3>1, <3>2, <3>3 DEF Next
    <3> QED
      BY <1>2, <1>3, <2>1, <3>4, FinishTame
  <2>2. CASE ReleaseForRetry(h.job)
    <3>1. h.job \in Present
      BY <1>2, <2>2 DEF ReleaseForRetry, Present, InState, Unfinished
    <3>2. Next
      BY <2>2, <3>1 DEF Next
    <3> QED
      BY <1>2, <2>2, <3>2, ReleaseTame
  <2>3. CASE UNCHANGED vars
    BY <2>3, StutterTame DEF vars
  <2> QED
    BY <2>1, <2>2, <2>3 DEF BundleFails
<1>5. CASE Awaited(h)
  <2>1. worker[h.by] \notin ArchivingSlot
    BY <1>5 DEF Awaited, ArchivingSlot
  <2>2. worker' = [worker EXCEPT ![h.by] = Idle]
    BY <1>5 DEF BundleFails
  <2> QED
    BY <1>1, <1>2, <1>4, <2>1, <2>2, IdleOK, NoUpload, SlotStep
<1>6. CASE ~Awaited(h)
  BY <1>1, <1>4, <1>6, QueueStep DEF BundleFails
<1> QED
  BY <1>5, <1>6

LEMMA GiveUpStep ==
  ASSUME IInv, PInv, NEW w \in Workers, GiveUp(w)
  PROVE  [Next]_vars /\ PInv'
<1>1. /\ UNCHANGED vars /\ UNCHANGED <<jobs, nextId>>
      /\ UNCHANGED <<handing, uploads, pushing, flashed>>
      /\ worker' = [worker EXCEPT ![w] = Idle]
  BY DEF GiveUp, vars
<1>2. worker[w] \notin ArchivingSlot
  BY DEF GiveUp, ArchivingSlot
<1> QED
  BY <1>1, <1>2, StutterTame, IdleOK, NoUpload, SlotStep

\* A build flashes only a device whose job is no download.
LEMMA BuildStep ==
  ASSUME IInv, PInv, NEW w \in Workers, Build(w)
  PROVE  [Next]_vars /\ PInv'
<1> DEFINE only == worker[w].ask.downloadOnly \/ worker[w].ask.serverOta
<1>1. PICK outcome \in Outcomes, left \in 0..MaxVariants :
        /\ outcome \in Flashing => ~only
        /\ worker' = [worker EXCEPT ![w] =
             [phase |-> "archiving", job |-> worker[w].job, address |-> worker[w].ask.address,
              outcome |-> outcome, left |-> left, archived |-> FALSE, tries |-> Sends]]
        /\ flashed' = IF outcome = "flashed" THEN flashed \cup {worker[w].job} ELSE flashed
  BY DEF Build, Flashing
<1>2. /\ UNCHANGED vars /\ UNCHANGED <<jobs, nextId>> /\ UNCHANGED <<handing, uploads, pushing>>
      /\ worker[w].phase = "building"
  BY DEF Build, vars
<1>3. [Next]_vars /\ Tame
  BY <1>2, StutterTame
<1>4. worker[w] \in BuildingSlot /\ Held(worker[w].job) /\ Faithful(worker[w].ask, jobs[worker[w].job])
  BY <1>2 DEF PInv, SlotOK, Idle, WaitingSlot, ArchivingSlot
<1>5. PICK k : k = [phase |-> "archiving", job |-> worker[w].job, address |-> worker[w].ask.address,
                    outcome |-> outcome, left |-> left, archived |-> FALSE, tries |-> Sends]
  OBVIOUS
<1>6. /\ k \in ArchivingSlot /\ k.job = worker[w].job /\ k.outcome = outcome /\ ~k.archived
      /\ k.job \in JobIds
  BY <1>4, <1>5, ProtocolAssumption DEF ArchivingSlot, BuildingSlot, Asks
<1>7. k.outcome \in Flashing /\ jobs[k.job].state # "none" =>
        ~jobs[k.job].downloadOnly /\ (jobs[k.job].serverOta => jobs[k.job].state = "success")
  BY <1>1, <1>4, <1>6 DEF Faithful, BuildingSlot, Asks
<1>8. SlotOK(k)'
  BY <1>2, <1>4, <1>6, <1>7 DEF SlotOK, Held, Consistent
<1>9. /\ worker' \in [Workers -> {Idle} \cup WaitingSlot \cup BuildingSlot \cup ArchivingSlot]
      /\ \A x \in Workers : worker'[x] = IF x = w THEN k ELSE worker[x]
  BY <1>1, <1>5, <1>6 DEF PInv
<1>10. \A u \in uploads : u.by \in Workers /\ u.by # w
  BY <1>2 DEF PInv, UploadOK, ArchivingSlot
<1>11. \A u \in uploads' : UploadOK(u)'
  BY <1>2, <1>3, <1>9, <1>10, UploadStays
<1>12. pushing' \in [JobIds -> Nat] /\ \A u, v \in uploads' : u.by = v.by => u = v
  BY <1>2 DEF PInv
<1>13. \A x \in Workers : worker'[x] = worker[x] \/ SlotOK(worker[x])'
  BY <1>8, <1>9
<1>14. outcome = "flashed" => k.job < nextId' /\ ~jobs'[k.job].downloadOnly
  BY <1>2, <1>4, <1>6, <1>7 DEF Flashing, Held, PInv, NoGhosts, NoJob
<1>15. \A i \in flashed' :
         i \in flashed \/ (i \in JobIds /\ i < nextId' /\ ~jobs'[i].downloadOnly)
  BY <1>1, <1>6, <1>14
<1> QED
  BY <1>2, <1>3, <1>9, <1>11, <1>12, <1>13, <1>15, PInvAfter

-----------------------------------------------------------------------------
(* Uploads and reports *)

LEMMA Archiving ==
  ASSUME PInv, NEW w \in Workers, worker[w].phase = "archiving"
  PROVE  /\ worker[w] \in ArchivingSlot /\ worker[w].job \in JobIds /\ Held(worker[w].job)
         /\ Consistent(worker[w], jobs[worker[w].job])
  BY DEF PInv, SlotOK, Idle, WaitingSlot, BuildingSlot, ArchivingSlot

LEMMA BeginUploadStep ==
  ASSUME IInv, PInv, NEW w \in Workers, BeginUpload(w)
  PROVE  [Next]_vars /\ PInv'
<1>1. PICK grace \in BOOLEAN :
        uploads' = uploads \cup {[job |-> worker[w].job, by |-> w, grace |-> grace]}
  BY DEF BeginUpload
<1>2. /\ UNCHANGED vars /\ UNCHANGED <<jobs, nextId>>
      /\ UNCHANGED <<worker, handing, pushing, flashed>>
      /\ worker[w].phase = "archiving" /\ worker[w].left > 0 /\ \A u \in uploads : u.by # w
  BY DEF BeginUpload, vars, Uploading
<1>3. [Next]_vars /\ Tame
  BY <1>2, StutterTame
<1>4. worker[w] \in ArchivingSlot /\ worker[w].job \in JobIds /\ Held(worker[w].job)
  BY <1>2, Archiving
<1>5. PICK u : u = [job |-> worker[w].job, by |-> w, grace |-> grace]
  OBVIOUS
<1>6. u \in [job : JobIds, by : Workers, grace : BOOLEAN] /\ u.job = worker[w].job /\ u.by = w
  BY <1>4, <1>5
<1>7. UploadOK(u)'
  BY <1>2, <1>4, <1>6 DEF UploadOK, Held
<1>8. \A v \in uploads' : UploadOK(v)'
  BY <1>1, <1>2, <1>3, <1>5, <1>7, UploadStays
<1>9. \A v, x \in uploads' : v.by = x.by => v = x
  BY <1>1, <1>2, <1>5, <1>6 DEF PInv
<1>10. /\ pushing' \in [JobIds -> Nat]
       /\ worker' \in [Workers -> {Idle} \cup WaitingSlot \cup BuildingSlot \cup ArchivingSlot]
  BY <1>2 DEF PInv
<1> QED
  BY <1>2, <1>3, <1>8, <1>9, <1>10, PInvAfter

\* The slot goes on to the next variant; it takes the last for archived only when it is.
LEMMA NextVariantOK ==
  ASSUME IInv, PInv, [Next]_vars, Tame, NEW w \in Workers, NEW accepted \in BOOLEAN,
         worker[w].phase = "archiving", worker[w].left > 0, NextVariant(w, accepted),
         accepted => jobs'[worker[w].job].state = "none" \/ jobs'[worker[w].job].hasFirmware
  PROVE  \E k : worker' = [worker EXCEPT ![w] = k] /\ SlotOK(k)'
<1>1. PICK archived \in {worker[w].archived, worker[w].archived \/ accepted} :
        worker' = [worker EXCEPT ![w].left = @ - 1, ![w].archived = archived]
  BY DEF NextVariant
<1>2. PICK k : k = [worker[w] EXCEPT !.left = @ - 1, !.archived = archived]
  OBVIOUS
<1>3. worker' = [worker EXCEPT ![w] = k]
  BY <1>1, <1>2
<1>4. /\ worker[w] \in ArchivingSlot /\ worker[w].job \in JobIds /\ Held(worker[w].job)
      /\ Consistent(worker[w], jobs[worker[w].job])
  BY Archiving
<1>5. worker[w].left - 1 \in 0..MaxVariants /\ archived \in BOOLEAN
  BY <1>1, <1>4, ProtocolAssumption DEF ArchivingSlot
<1>6. /\ k \in ArchivingSlot /\ k.job = worker[w].job /\ k.outcome = worker[w].outcome
      /\ k.archived = archived
  BY <1>2, <1>4, <1>5 DEF ArchivingSlot
<1>7. nextId' \in Nat
  BY NextIInv, QueueAssumption DEF IInv
<1>8. PICK old : old = worker[w]
  OBVIOUS
<1>9. SlotOK(old)
  BY <1>8 DEF PInv
<1>10. SlotOK(old)'
  BY <1>7, <1>9, TameKeeps
<1>11. Consistent(old, jobs[old.job])' /\ Held(old.job)'
  BY <1>4, <1>8, <1>10 DEF SlotOK, Idle, WaitingSlot, BuildingSlot, ArchivingSlot
<1>12. archived => old.archived \/ accepted
  BY <1>1, <1>8
<1>13. Consistent(k, jobs[k.job])' /\ Held(k.job)'
  BY <1>6, <1>8, <1>11, <1>12 DEF Consistent
<1>14. SlotOK(k)'
  BY <1>6, <1>13 DEF SlotOK
<1> QED
  BY <1>3, <1>14

LEMMA EndUploadStep ==
  ASSUME IInv, PInv, NEW u \in uploads, EndUpload(u)
  PROVE  [Next]_vars /\ PInv'
<1>1. /\ StoreFirmware(u.job, u.grace) /\ uploads' = uploads \ {u}
      /\ NextVariant(u.by, u.grace \/ jobs[u.job].state = "working")
      /\ UNCHANGED <<handing, pushing, flashed>>
  BY DEF EndUpload
<1>2. /\ u \in [job : JobIds, by : Workers, grace : BOOLEAN] /\ Held(u.job)
      /\ worker[u.by] \in ArchivingSlot /\ worker[u.by].job = u.job /\ worker[u.by].left > 0
  BY DEF PInv, UploadOK
<1>3. u.job \in Created \cap Uploads
  BY <1>2, ProtocolAssumption, QueueAssumption DEF Created, Held, IInv, JobIds
<1>4. Next
  BY <1>1, <1>2, <1>3 DEF Next
<1>5. /\ Tame
      /\ u.grace \/ jobs[u.job].state = "working" =>
           jobs'[u.job].state = "none" \/ jobs'[u.job].hasFirmware
  BY <1>1, <1>2, StoreTame
<1>6. worker[u.by].phase = "archiving"
  BY <1>2 DEF ArchivingSlot
<1>7. u.by \in Workers /\ (u.grace \/ jobs[u.job].state = "working") \in BOOLEAN
  BY <1>2
<1>8. PICK k : worker' = [worker EXCEPT ![u.by] = k] /\ SlotOK(k)'
  BY <1>1, <1>2, <1>4, <1>5, <1>6, <1>7, NextVariantOK
<1>9. uploads' \subseteq {v \in uploads : v.by # u.by}
  BY <1>1 DEF PInv
<1> QED
  BY <1>1, <1>4, <1>5, <1>7, <1>8, <1>9, SlotStep

LEMMA LoseUploadStep ==
  ASSUME IInv, PInv, NEW w \in Workers, LoseUpload(w)
  PROVE  [Next]_vars /\ PInv'
<1>1. /\ UNCHANGED vars /\ UNCHANGED <<jobs, nextId>> /\ UNCHANGED <<handing, pushing, flashed>>
      /\ uploads' = {u \in uploads : u.by # w} /\ NextVariant(w, FALSE)
      /\ worker[w].phase = "archiving" /\ worker[w].left > 0
  BY DEF LoseUpload, vars
<1>2. [Next]_vars /\ Tame
  BY <1>1, StutterTame
<1>3. PICK k : worker' = [worker EXCEPT ![w] = k] /\ SlotOK(k)'
  BY <1>1, <1>2, NextVariantOK
<1> QED
  BY <1>1, <1>2, <1>3, SlotStep

\* An attempt to report is used up.
LEMMA ResendOK ==
  ASSUME IInv, PInv, [Next]_vars, Tame, NEW w \in Workers, Reporting(w),
         worker' = [worker EXCEPT ![w] = Idle] \/ Resend(w)
  PROVE  \E k : worker' = [worker EXCEPT ![w] = k] /\ SlotOK(k)'
<1>1. CASE worker' = [worker EXCEPT ![w] = Idle]
  BY <1>1, IdleOK
<1>2. CASE Resend(w) /\ worker[w].tries > 1
  <2>1. PICK k : k = [worker[w] EXCEPT !.tries = @ - 1]
    OBVIOUS
  <2>2. worker' = [worker EXCEPT ![w] = k]
    BY <1>2, <2>1 DEF Resend
  <2>3. worker[w] \in ArchivingSlot /\ worker[w].tries - 1 \in 1..Sends
    BY <1>2, Archiving, ProtocolAssumption DEF Reporting, ArchivingSlot
  <2>4. PICK old : old = worker[w]
    OBVIOUS
  <2>5. /\ k \in ArchivingSlot /\ k.job = old.job /\ k.outcome = old.outcome
        /\ k.archived = old.archived
    BY <2>1, <2>3, <2>4 DEF ArchivingSlot
  <2>6. SlotOK(old) /\ nextId' \in Nat
    BY <2>4, NextIInv, QueueAssumption DEF PInv, IInv
  <2>7. SlotOK(old)'
    BY <2>6, TameKeeps
  <2>8. Consistent(old, jobs[old.job])' /\ Held(old.job)'
    BY <2>3, <2>4, <2>7 DEF SlotOK, Idle, WaitingSlot, BuildingSlot, ArchivingSlot
  <2>9. SlotOK(k)'
    BY <2>5, <2>8 DEF SlotOK, Consistent
  <2> QED
    BY <2>2, <2>9
<1>3. CASE Resend(w) /\ ~(worker[w].tries > 1)
  <2>1. worker' = [worker EXCEPT ![w] = Idle]
    BY <1>3 DEF Resend
  <2> QED
    BY <2>1, IdleOK
<1> QED
  BY <1>1, <1>2, <1>3

LEMMA ReportStep ==
  ASSUME IInv, PInv, NEW w \in Workers, Report(w)
  PROVE  [Next]_vars /\ PInv'
<1>1. /\ Reporting(w) /\ Submit(worker[w].job, ReportOf(worker[w]))
      /\ worker' = [worker EXCEPT ![w] = Idle] \/ Resend(w)
      /\ UNCHANGED <<handing, uploads, flashed>>
  BY DEF Report
<1>2. /\ worker[w] \in ArchivingSlot /\ Held(worker[w].job)
      /\ Consistent(worker[w], jobs[worker[w].job]) /\ ~(worker[w].left > 0)
  BY <1>1, Archiving DEF Reporting
<1>3. /\ [Next]_vars /\ Tame /\ pushing' \in [JobIds -> Nat]
      /\ \A i \in JobIds : pushing'[i] > 0 => pushing[i] > 0 \/ PushOK(i)'
  BY <1>1, <1>2, SubmitOK
<1>4. PICK k : worker' = [worker EXCEPT ![w] = k] /\ SlotOK(k)'
  BY <1>1, <1>3, ResendOK
<1>5. uploads' \subseteq {u \in uploads : u.by # w}
  BY <1>1, <1>2, NoUpload
<1> QED
  BY <1>1, <1>3, <1>4, <1>5, SlotStepPushing

LEMMA LoseReportStep ==
  ASSUME IInv, PInv, NEW w \in Workers, LoseReport(w)
  PROVE  [Next]_vars /\ PInv'
<1>1. /\ Reporting(w) /\ Resend(w) /\ UNCHANGED vars /\ UNCHANGED <<jobs, nextId>>
      /\ UNCHANGED <<handing, uploads, pushing, flashed>> /\ ~(worker[w].left > 0)
  BY DEF LoseReport, vars, Reporting
<1>2. [Next]_vars /\ Tame
  BY <1>1, StutterTame
<1>3. PICK k : worker' = [worker EXCEPT ![w] = k] /\ SlotOK(k)'
  BY <1>1, <1>2, ResendOK
<1>4. uploads' \subseteq {u \in uploads : u.by # w}
  BY <1>1, NoUpload
<1> QED
  BY <1>1, <1>2, <1>3, <1>4, SlotStep

-----------------------------------------------------------------------------
(* Pushes, failures, the timeout checker and users *)

LEMMA PushEndsStep ==
  ASSUME IInv, PInv, NEW i \in JobIds, PushEnds(i)
  PROVE  [Next]_vars /\ PInv'
<1>1. /\ pushing[i] > 0 /\ pushing' = [pushing EXCEPT ![i] = @ - 1]
      /\ UNCHANGED <<worker, handing, uploads, flashed>>
  BY DEF PushEnds
<1>2. [Next]_vars /\ Tame
  <2>1. CASE \E ota \in {"success", "failed"} : PatchOtaResult(i, ota)
    <3>1. PICK ota \in {"success", "failed"} : PatchOtaResult(i, ota)
      BY <2>1
    <3>2. i \in InState({"success"}) /\ jobs[i].serverOta
      BY <1>1, <3>1 DEF PInv, PushOK, PatchOtaResult, InState
    <3>3. Next
      BY <3>1, <3>2 DEF Next
    <3>4. Tame
      BY <3>1, PatchTame DEF PatchOtaResult
    <3> QED
      BY <3>3, <3>4
  <2>2. CASE UNCHANGED vars
    BY <2>2, StutterTame DEF vars
  <2> QED
    BY <2>1, <2>2 DEF PushEnds
<1>3. pushing' \in [JobIds -> Nat] /\ \A n \in JobIds : pushing'[n] > 0 => pushing[n] > 0
  BY <1>1 DEF PInv
<1>4. \A u \in uploads' : UploadOK(u)'
  BY <1>1, <1>2, UploadStays
<1>5. /\ worker' \in [Workers -> {Idle} \cup WaitingSlot \cup BuildingSlot \cup ArchivingSlot]
      /\ \A u, v \in uploads' : u.by = v.by => u = v
  BY <1>1 DEF PInv
<1> QED
  BY <1>1, <1>2, <1>3, <1>4, <1>5, PInvAfter

LEMMA HeartbeatStep ==
  ASSUME IInv, PInv, NEW w \in Workers, Heartbeat(w)
  PROVE  [Next]_vars /\ PInv'
<1>1. /\ UNCHANGED vars /\ UNCHANGED <<jobs, nextId>>
      /\ UNCHANGED <<worker, handing, uploads, pushing, flashed>>
  BY DEF Heartbeat, vars
<1> QED
  BY <1>1, StutterTame, QueueStep

LEMMA DieStep ==
  ASSUME IInv, PInv, NEW w \in Workers, Die(w)
  PROVE  [Next]_vars /\ PInv'
<1>1. /\ UNCHANGED vars /\ UNCHANGED <<jobs, nextId>> /\ UNCHANGED <<handing, pushing, flashed>>
      /\ worker' = [worker EXCEPT ![w] = Idle] /\ uploads' = {u \in uploads : u.by # w}
  BY DEF Die, vars
<1> QED
  BY <1>1, StutterTame, IdleOK, SlotStep

LEMMA SweepStep ==
  ASSUME IInv, PInv, NEW expired \in SUBSET InState({"working"}), Sweep(expired)
  PROVE  [Next]_vars /\ PInv'
<1> DEFINE lost == expired \cup {i \in InState({"working"}) : jobs[i].assigned \notin online}
<1>1. CheckTimeouts(lost) /\ lost \in SUBSET InState({"working"})
      /\ UNCHANGED <<worker, handing, uploads, pushing, flashed>>
  BY DEF Sweep, protocolVars
<1> HIDE DEF lost
<1>2. Next
  BY <1>1 DEF Next
<1> QED
  BY <1>1, <1>2, TimeoutsTame, QueueStep

\* The tasks and open requests are gone; the slots go on with what they were told.
LEMMA ServerRestartStep ==
  ASSUME IInv, PInv, ServerRestart
  PROVE  [Next]_vars /\ PInv'
<1>1. /\ Restart /\ handing' = {} /\ uploads' = {} /\ pushing' = [i \in JobIds |-> 0]
      /\ UNCHANGED <<worker, flashed>>
  BY DEF ServerRestart
<1>2. Next /\ Tame
  BY <1>1, RestartTame DEF Next
<1>3. pushing' \in [JobIds -> Nat] /\ \A i \in JobIds : ~(pushing'[i] > 0)
  BY <1>1
<1>4. worker' \in [Workers -> {Idle} \cup WaitingSlot \cup BuildingSlot \cup ArchivingSlot]
  BY <1>1 DEF PInv
<1> QED
  BY <1>1, <1>2, <1>3, <1>4, PInvAfter

LEMMA UserStep ==
  ASSUME IInv, PInv, User
  PROVE  [Next]_vars /\ PInv'
<1>1. UNCHANGED <<worker, handing, uploads, pushing, flashed>>
  BY DEF User, protocolVars
<1>2. Next /\ Tame
  <2>1. CASE \E r \in Requests : Enqueue(r)
    BY <2>1, EnqueueTame DEF Next
  <2>2. CASE \E ids \in SUBSET InState(Unfinished) : Cancel(ids)
    BY <2>2, CancelTame DEF Next
  <2>3. CASE \E ids \in SUBSET InState(Finished) : Retry(ids)
    BY <2>3, RetryTame DEF Next
  <2>4. CASE \E ids \in SUBSET InState(Finished) : RemoveJobs(ids)
    BY <2>4, RemoveTame DEF Next
  <2> QED
    BY <2>1, <2>2, <2>3, <2>4 DEF User
<1> QED
  BY <1>1, <1>2, QueueStep

-----------------------------------------------------------------------------
(* The theorems *)

LEMMA InitPInv ==
  ASSUME WInit
  PROVE  IInv /\ PInv
<1>1. IInv
  BY InitIInv DEF WInit
<1>2. NoGhosts /\ PushHasFirmware
  BY DEF WInit, Init, NoGhosts, PushHasFirmware, NoJob
<1> QED
  BY <1>1, <1>2 DEF WInit, PInv, SlotOK

\* Every step of the protocol is a step of the queue, or leaves the queue alone.
LEMMA ProtocolStep ==
  ASSUME IInv, PInv, [WNext]_allVars
  PROVE  [Next]_vars /\ IInv' /\ PInv'
<1>1. CASE WNext
  <2>1. User => [Next]_vars /\ PInv'
    BY UserStep
  <2>2. ASSUME NEW w \in Workers, Poll(w) \/ GiveUp(w) \/ Slot(w) \/ Heartbeat(w) \/ Die(w)
        PROVE  [Next]_vars /\ PInv'
    BY <2>2, PollStep, GiveUpStep, HeartbeatStep, DieStep, BuildStep, BeginUploadStep,
       EndUploadStep, LoseUploadStep, ReportStep, LoseReportStep DEF Slot
  <2>3. ASSUME NEW h \in handing, HandOver(h) \/ BundleFails(h)
        PROVE  [Next]_vars /\ PInv'
    BY <2>3, HandOverStep, BundleFailsStep
  <2>4. ASSUME NEW i \in JobIds, PushEnds(i)
        PROVE  [Next]_vars /\ PInv'
    BY <2>4, PushEndsStep
  <2>5. ASSUME NEW expired \in SUBSET InState({"working"}), Sweep(expired)
        PROVE  [Next]_vars /\ PInv'
    BY <2>5, SweepStep
  <2>6. ServerRestart => [Next]_vars /\ PInv'
    BY ServerRestartStep
  <2>7. [Next]_vars /\ PInv'
    BY <1>1, <2>1, <2>2, <2>3, <2>4, <2>5, <2>6 DEF WNext
  <2> QED
    BY <2>7, NextIInv
<1>2. CASE UNCHANGED allVars
  <2>1. /\ UNCHANGED vars /\ UNCHANGED <<jobs, nextId>>
        /\ UNCHANGED <<worker, handing, uploads, pushing, flashed>>
    BY <1>2 DEF allVars, vars, protocolVars
  <2> QED
    BY <2>1, StutterTame, QueueStep, NextIInv
<1> QED
  BY <1>1, <1>2

\* The invariant of the queue and that of the protocol hold together.
THEOREM ProtocolInvariant == WSpec => [](IInv /\ PInv)
  BY InitPInv, ProtocolStep, PTL DEF WSpec

\* The handlers, worker slots, tasks and the timeout checker run the queue as JobQueue
\* specifies it: each of their steps, lost requests, deaths and restarts included, is one
\* step of the queue or none.  So every theorem about the queue holds of the protocol.
THEOREM ProtocolImplementsQueue == WSpec => ImplementsQueue
<1>1. WInit => Init
  BY DEF WInit
<1>2. IInv /\ PInv /\ [WNext]_allVars => [Next]_vars
  BY ProtocolStep
<1> QED
  BY <1>1, <1>2, ProtocolInvariant, PTL DEF WSpec, ImplementsQueue, Spec

\* No device of a download_only job is flashed by a worker or by the server, whoever
\* builds it and however late a claim, an upload or a result arrives.
THEOREM DownloadsAreNotFlashed == WSpec => []DownloadOnlyNeverFlashed
<1>1. PInv => DownloadOnlyNeverFlashed
  BY DEF PInv, PushOK, NoGhosts, NoJob, DownloadOnlyNeverFlashed
<1> QED
  BY <1>1, ProtocolInvariant, PTL

\* A success whose flash is left to the server has its firmware archived, also when it is
\* reported by a worker that has lost its claim.
THEOREM PushesHaveFirmware == WSpec => []PushHasFirmware
<1>1. PInv => PushHasFirmware
  BY DEF PInv
<1> QED
  BY <1>1, ProtocolInvariant, PTL

\* What the queue promises by itself it keeps in the hands of the workers: bounded
\* retries, one follow-up per target and the life cycle of a job.
THEOREM QueuePromisesKept ==
  WSpec => []RetryBudget /\ []OneFollowup /\ EvictionRecorded /\ ImplementsLifecycle
  BY ProtocolImplementsQueue, RetriesAreBounded, AtMostOneFollowup, EvictionsAreRecorded,
     QueueImplementsLifecycle, PTL DEF ImplementsQueue

=============================================================================
