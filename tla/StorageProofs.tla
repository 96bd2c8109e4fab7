---------------------------- MODULE StorageProofs ----------------------------
(***************************************************************************)
(* Proofs about what the server keeps under /data: the queue and its       *)
(* history (JobQueue), for every set of targets, workers and requests,     *)
(* every number of jobs and every retry cap; and the binaries              *)
(* (FirmwareStore), for any number of jobs, variants and history rows, any *)
(* sizes and limits.                                                       *)
(***************************************************************************)
EXTENDS JobQueue, FirmwareStore, FiniteSetTheorems, WellFoundedInduction, TLAPS

-----------------------------------------------------------------------------
(* The inductive invariant: the same facts hold of the rows in memory and of
   the rows in queue.json, because load() may replace the one by the other. *)

\* Facts about a table of rows J when n is the next free id.
Sound(J, n) ==
  /\ J \in [JobIds -> Job]
  /\ \A i \in JobIds : i >= n => J[i].state = "none"
  /\ \A i \in JobIds : J[i].retries <= MaxRetries
  /\ \A i \in JobIds : J[i].state \in Unfinished => J[i].retries < MaxRetries
  /\ \A i \in JobIds : J[i].state = "working" => ~J[i].followup
  /\ \A i, k \in JobIds :
       /\ J[i].state \in Waiting /\ J[i].followup
       /\ J[k].state \in Waiting /\ J[k].followup
       /\ J[i].target = J[k].target
       => i = k

\* The history h does not run ahead of the table J.
Agrees(h, J) ==
  \A i \in JobIds : h[i].state # "none" => J[i].state \in {h[i].state, "none"}

\* No history row for an id that was not given out.
FreshHistory(h, n) == \A i \in JobIds : i >= n => h[i].state = "none"

Loaded(D) == [i \in JobIds |-> Recover(D[i])]

\* The rows in memory are those of queue.json, or those load() made of it.
MemoryMatchesDisk ==
  jobs = disk \/ jobs = [i \in JobIds |-> Recover(disk[i])]

IInv ==
  /\ nextId \in 1..(MaxJobs + 1)
  /\ files \subseteq JobIds
  /\ history \in [JobIds -> HistoryRow]
  /\ Sound(jobs, nextId)
  /\ Sound(disk, nextId)
  /\ MemoryMatchesDisk
  /\ Agrees(history, disk)
  /\ FreshHistory(history, nextId)

\* What load() makes of a row keeps its type, target, counters and verdict.
LEMMA RecoverRow ==
  ASSUME NEW j \in Job
  PROVE  /\ Recover(j) \in Job
         /\ Recover(j).retries = j.retries
         /\ Recover(j).followup = j.followup
         /\ Recover(j).target = j.target
         /\ Recover(j).state = IF j.state = "working" THEN "pending" ELSE j.state
<1>1. CASE j.state = "working"
  BY <1>1 DEF Recover, Job, Finished, Waiting, Unfinished
<1>2. CASE j.state # "working" /\ Stranded(j)
  BY <1>2 DEF Recover, Job, OtaResults
<1>3. CASE j.state # "working" /\ ~Stranded(j)
  BY <1>3 DEF Recover
<1> QED
  BY <1>1, <1>2, <1>3

\* load() keeps a sound table sound.
LEMMA LoadedSound ==
  ASSUME NEW D, NEW n \in Nat, Sound(D, n)
  PROVE  Sound(Loaded(D), n)
<1>1. \A i \in JobIds : D[i] \in Job
  BY DEF Sound
<1>2. \A i \in JobIds :
        /\ Loaded(D)[i] \in Job
        /\ Loaded(D)[i].retries = D[i].retries
        /\ Loaded(D)[i].followup = D[i].followup
        /\ Loaded(D)[i].target = D[i].target
        /\ Loaded(D)[i].state = IF D[i].state = "working" THEN "pending" ELSE D[i].state
  BY <1>1, RecoverRow DEF Loaded
<1>3. Loaded(D) \in [JobIds -> Job]
  BY <1>2 DEF Loaded
<1> QED
  BY <1>2, <1>3 DEF Sound, Unfinished, Waiting

\* record_terminal writes well-formed rows that agree with the table they come from.
LEMMA RecordedRows ==
  ASSUME NEW h \in [JobIds -> HistoryRow], NEW J \in [JobIds -> Job], NEW ids,
         NEW n \in Nat
  PROVE  /\ Recorded(h, J, ids) \in [JobIds -> HistoryRow]
         /\ Agrees(h, J) => Agrees(Recorded(h, J, ids), J)
         /\ FreshHistory(h, n) /\ (\A i \in JobIds : i >= n => J[i].state = "none")
              => FreshHistory(Recorded(h, J, ids), n)
  BY DEF Recorded, HistoryRow, Job, Finished, Agrees, FreshHistory, OtaResults

-----------------------------------------------------------------------------
(* The outcomes of a method *)

\* A kill that leaves sound files behind is followed by a sound restart.
LEMMA RestartedSound ==
  ASSUME NEW D, NEW h \in [JobIds -> HistoryRow], NEW F \in SUBSET JobIds,
         nextId' \in 1..(MaxJobs + 1),
         Sound(D, nextId'), Agrees(h, D), FreshHistory(h, nextId'),
         Restarted(D, h, F)
  PROVE  IInv'
<1> DEFINE H == Recorded(h, Loaded(D), {i \in JobIds : Stranded(D[i])})
<1>1. /\ jobs' = Loaded(D) /\ disk' = D /\ history' = H
      /\ files' = Reconciled(F, Loaded(D), H)
  BY DEF Restarted, Loaded
<1>2. nextId' \in Nat /\ D \in [JobIds -> Job]
  BY QueueAssumption DEF Sound
<1>3. Sound(Loaded(D), nextId')
  BY <1>2, LoadedSound
<1>4. H \in [JobIds -> HistoryRow] /\ FreshHistory(H, nextId')
  BY <1>2, <1>3, RecordedRows DEF Sound
<1>5. \A i \in JobIds : Stranded(D[i]) => Loaded(D)[i].state = D[i].state
  BY <1>2, RecoverRow DEF Loaded, Stranded
<1>6. Agrees(H, D)
  BY <1>5 DEF Agrees, Recorded
<1>7. files' \subseteq JobIds
  BY <1>1 DEF Reconciled
<1>8. (jobs = disk \/ jobs = Loaded(disk))'
  BY <1>1 DEF Loaded
<1> QED
  BY <1>1, <1>3, <1>4, <1>6, <1>7, <1>8 DEF IInv, MemoryMatchesDisk, Loaded

\* A method that computes a sound table J, and has recorded nothing that queue.json
\* or J contradicts, keeps the invariant however it ends.
LEMMA FinishSound ==
  ASSUME IInv,
         NEW J, NEW h \in [JobIds -> HistoryRow], NEW rec, NEW F \in SUBSET JobIds,
         nextId' \in 1..(MaxJobs + 1), nextId <= nextId',
         Sound(J, nextId'), Agrees(h, disk), Agrees(h, J), FreshHistory(h, nextId'),
         Finish(J, h, rec, F)
  PROVE  IInv'
<1>1. /\ nextId' \in Nat /\ nextId \in Nat
      /\ J \in [JobIds -> Job]
      /\ \A i \in JobIds : i >= nextId' => J[i].state = "none"
  BY QueueAssumption DEF Sound, IInv
<1>2. CASE /\ jobs' = J
           /\ disk' = J
           /\ history' = Recorded(h, J, rec)
           /\ files' = F
  <2>1. /\ history' \in [JobIds -> HistoryRow]
        /\ Agrees(history', J)
        /\ FreshHistory(history', nextId')
    BY <1>1, <1>2, RecordedRows
  <2> QED
    BY <1>2, <2>1 DEF IInv, MemoryMatchesDisk
<1>3. ASSUME NEW f \in {files, F}, Restarted(disk, h, f)
      PROVE  IInv'
  <2>1. Sound(disk, nextId')
    <3>1. \A i \in JobIds : i >= nextId' => disk[i].state = "none"
      BY <1>1, QueueAssumption DEF IInv, Sound, JobIds
    <3> QED
      BY <3>1 DEF IInv, Sound
  <2>2. f \in SUBSET JobIds
    BY DEF IInv
  <2> QED
    BY <1>3, <2>1, <2>2, RestartedSound
<1>4. ASSUME NEW f \in {files, F}, NEW done \in SUBSET rec,
             Restarted(J, Recorded(h, J, done), f)
      PROVE  IInv'
  <2>1. /\ Recorded(h, J, done) \in [JobIds -> HistoryRow]
        /\ Agrees(Recorded(h, J, done), J)
        /\ FreshHistory(Recorded(h, J, done), nextId')
    BY <1>1, RecordedRows
  <2>2. f \in SUBSET JobIds
    BY DEF IInv
  <2> QED
    BY <1>4, <2>1, <2>2, RestartedSound
<1> QED
  BY <1>2, <1>3, <1>4 DEF Finish

-----------------------------------------------------------------------------
(* What a method may do to the table *)

\* A method turns row a into row b: the state moves along the life cycle, the
\* attempts stay within the cap, and no row becomes a follow-up.
RowStep(a, b) ==
  /\ b \in Job
  /\ \/ b.state = a.state
     \/ a.state = "pending" /\ b.state \in {"blocked", "working", "cancelled"}
     \/ a.state = "blocked" /\ b.state \in {"pending", "cancelled", "none"}
     \/ a.state = "working" /\ b.state \in {"pending"} \cup Finished
     \/ a.state \in Finished /\ b.state = "none"
  /\ b.retries <= MaxRetries
  /\ b.state \in Unfinished => b.retries < MaxRetries
  /\ b.state = "working" => ~b.followup
  /\ b.state \in Waiting /\ b.followup =>
       a.state \in Waiting /\ a.followup /\ b.target = a.target

\* The row of a new job; a new follow-up is the only one of its target.
NewRow(J, i) ==
  /\ J[i] \in Job
  /\ J[i].state = "pending"
  /\ J[i].retries = 0
  /\ J[i].followup =>
       \A k \in JobIds : /\ J[k].state \in Waiting /\ J[k].followup
                         /\ J[k].target = J[i].target
                         => k = i

\* A method that makes J of the table and gives out the ids nextId..n-1.
TableStep(J, n) ==
  /\ DOMAIN J = JobIds /\ J = [i \in JobIds |-> J[i]]
  /\ n \in nextId..(MaxJobs + 1)
  /\ \A i \in JobIds :
       \/ i \notin nextId..(n - 1) /\ RowStep(jobs[i], J[i])
       \/ i \in nextId..(n - 1) /\ NewRow(J, i)

\* Such a table is sound.
LEMMA TableStepSound ==
  ASSUME IInv, NEW J, NEW n, TableStep(J, n)
  PROVE  Sound(J, n)
<1>1. nextId \in Nat /\ n \in Nat /\ nextId <= n /\ MaxRetries \in Nat \ {0}
  BY QueueAssumption DEF IInv, TableStep
<1>2. \A i \in JobIds : i \in Nat
  BY QueueAssumption DEF JobIds
<1>3. J \in [JobIds -> Job]
  BY DEF TableStep, RowStep, NewRow
<1>4. \A i \in JobIds : i >= n => J[i].state = "none"
  <2> SUFFICES ASSUME NEW i \in JobIds, i >= n
               PROVE  J[i].state = "none"
    OBVIOUS
  <2>1. i \notin nextId..(n - 1) /\ i >= nextId
    BY <1>1, <1>2
  <2>2. RowStep(jobs[i], J[i]) /\ jobs[i].state = "none"
    BY <2>1 DEF TableStep, IInv, Sound
  <2> QED
    BY <2>2 DEF RowStep, Finished
<1>5. \A i \in JobIds : /\ J[i].retries <= MaxRetries
                        /\ J[i].state \in Unfinished => J[i].retries < MaxRetries
                        /\ J[i].state = "working" => ~J[i].followup
  BY <1>1 DEF TableStep, RowStep, NewRow
<1>6. ASSUME NEW i \in JobIds, NEW k \in JobIds,
             J[i].state \in Waiting, J[i].followup,
             J[k].state \in Waiting, J[k].followup,
             J[i].target = J[k].target
      PROVE  i = k
  <2>1. CASE i \in nextId..(n - 1)
    BY <1>6, <2>1 DEF TableStep, NewRow
  <2>2. CASE k \in nextId..(n - 1)
    BY <1>6, <2>2 DEF TableStep, NewRow
  <2>3. CASE i \notin nextId..(n - 1) /\ k \notin nextId..(n - 1)
    <3>1. RowStep(jobs[i], J[i]) /\ RowStep(jobs[k], J[k])
      BY <2>3 DEF TableStep
    <3> QED
      BY <1>6, <3>1 DEF RowStep, IInv, Sound
  <2> QED
    BY <2>1, <2>2, <2>3
<1> QED
  BY <1>3, <1>4, <1>5, <1>6 DEF Sound

\* A row in memory has the state of queue.json, or went back to pending at load.
LEMMA MemoryState ==
  ASSUME IInv, NEW i \in JobIds
  PROVE  \/ jobs[i].state = disk[i].state
         \/ jobs[i].state = "pending" /\ disk[i].state = "working"
<1>1. disk[i] \in Job
  BY DEF IInv, Sound
<1>2. Recover(disk[i]).state = IF disk[i].state = "working" THEN "pending" ELSE disk[i].state
  BY <1>1, RecoverRow
<1> QED
  BY <1>2 DEF IInv, MemoryMatchesDisk

\* Before it persists, a method may record the finished rows it is about to drop.
LEMMA RecordFirst ==
  ASSUME IInv, NEW J, NEW n, TableStep(J, n), NEW ids,
         NEW h \in {history, Recorded(history, jobs, ids)}
  PROVE  /\ h \in [JobIds -> HistoryRow]
         /\ Agrees(h, disk) /\ Agrees(h, J)
         /\ FreshHistory(h, n)
<1>1. h \in [JobIds -> HistoryRow] /\ FreshHistory(h, nextId)
  BY RecordedRows, QueueAssumption DEF IInv, Sound
<1>2. Agrees(h, disk)
  BY MemoryState DEF Agrees, Recorded, IInv, Finished
<1>3. ASSUME NEW i \in JobIds, h[i].state # "none"
      PROVE  J[i].state \in {h[i].state, "none"}
  <2>1. h[i].state \in Finished
    BY <1>1, <1>3 DEF HistoryRow
  <2>2. disk[i].state \in {h[i].state, "none"}
    BY <1>2, <1>3 DEF Agrees
  <2>3. jobs[i].state \in {h[i].state, "none"}
    BY <2>1, <2>2, MemoryState DEF Finished
  <2>4. i < nextId
    BY <1>1, <1>3, QueueAssumption DEF FreshHistory, IInv, JobIds
  <2>5. i \notin nextId..(n - 1)
    BY <2>4, QueueAssumption DEF TableStep, IInv, JobIds
  <2>6. RowStep(jobs[i], J[i])
    BY <2>5 DEF TableStep
  <2> QED
    BY <2>1, <2>3, <2>6 DEF RowStep, Finished
<1>4. FreshHistory(h, n)
  BY <1>1, QueueAssumption DEF FreshHistory, TableStep, IInv, JobIds
<1> QED
  BY <1>1, <1>2, <1>3, <1>4 DEF Agrees

\* A method that takes such a step keeps the invariant, killed or not.
LEMMA MethodSound ==
  ASSUME IInv, NEW J, TableStep(J, nextId'), NEW ids,
         NEW h \in {history, Recorded(history, jobs, ids)}, NEW rec,
         NEW F \in SUBSET JobIds, Finish(J, h, rec, F)
  PROVE  IInv'
<1>1. nextId' \in 1..(MaxJobs + 1) /\ nextId <= nextId'
  BY QueueAssumption DEF TableStep, IInv
<1>2. Sound(J, nextId')
  BY TableStepSound
<1>3. /\ h \in [JobIds -> HistoryRow]
      /\ Agrees(h, disk) /\ Agrees(h, J)
      /\ FreshHistory(h, nextId')
  BY RecordFirst
<1> QED
  BY <1>1, <1>2, <1>3, FinishSound

-----------------------------------------------------------------------------
(* Every action is such a method, a restart, or touches firmware files only *)

\* A step in which a method makes some table J, killed or not.
Method ==
  \E J, ids, rec, F :
    /\ TableStep(J, nextId')
    /\ F \in SUBSET JobIds
    /\ \E h \in {history, Recorded(history, jobs, ids)} : Finish(J, h, rec, F)

\* The two forms in which the actions below state their Finish.
LEMMA MethodIntro ==
  ASSUME NEW J, NEW ids, NEW rec, NEW F \in SUBSET JobIds, TableStep(J, nextId'),
         \/ Finish(J, history, rec, F)
         \/ Finish(J, Recorded(history, jobs, ids), rec, F)
  PROVE  Method
  BY DEF Method

\* A method that gives out no id only has to be checked row by row.
LEMMA RowsIntro ==
  ASSUME IInv, NEW J, J \in [JobIds -> Job], UNCHANGED nextId,
         \A i \in JobIds : RowStep(jobs[i], J[i])
  PROVE  TableStep(J, nextId')
<1>1. \A i \in JobIds : i \notin nextId..(nextId - 1)
  BY QueueAssumption DEF IInv, JobIds
<1>2. nextId' \in nextId..(MaxJobs + 1)
  BY QueueAssumption DEF IInv
<1> QED
  BY <1>1, <1>2 DEF TableStep

\* A row that a method leaves alone is in order.
LEMMA SameRow ==
  ASSUME IInv, NEW i \in JobIds
  PROVE  /\ RowStep(jobs[i], jobs[i])
         /\ jobs[i] \in Job
         /\ jobs[i].retries \in Nat
  BY DEF IInv, Sound, RowStep, Job

\* A finished or blocked row may be dropped.
LEMMA DropRow ==
  ASSUME IInv, NEW i \in JobIds, jobs[i].state \in Finished \cup {"blocked", "none"}
  PROVE  RowStep(jobs[i], NoJob)
<1>1. NoJob \in Job
  BY DEF NoJob, Job, OtaResults
<1> QED
  BY <1>1, QueueAssumption DEF NoJob, RowStep, Finished, Unfinished, Waiting

\* claim_next moves one pending row to working and drops its follow-up flag.
LEMMA ClaimNextMethod ==
  ASSUME IInv, NEW w \in Workers, NEW defer, NEW eligible, ClaimNext(w, defer, eligible)
  PROVE  Method
<1>1. PICK i \in Claimable(w, defer, eligible) :
        /\ Finish([jobs EXCEPT ![i].state = "working", ![i].followup = FALSE,
                               ![i].assigned = w],
                  history, {}, files)
        /\ UNCHANGED nextId
  BY DEF ClaimNext
<1> DEFINE J == [jobs EXCEPT ![i].state = "working", ![i].followup = FALSE,
                             ![i].assigned = w]
<1>2. i \in JobIds /\ jobs[i].state = "pending" /\ jobs \in [JobIds -> Job]
  BY DEF Claimable, IInv, Sound
<1>3. RowStep(jobs[i], J[i])
  BY <1>2, SameRow DEF RowStep, Job, Unfinished, Waiting, Finished
<1>4. J \in [JobIds -> Job] /\ \A k \in JobIds : RowStep(jobs[k], J[k])
  BY <1>2, <1>3, SameRow DEF RowStep
<1>5. TableStep(J, nextId')
  BY <1>1, <1>4, RowsIntro
<1> QED
  BY <1>1, <1>5, MethodIntro DEF IInv

\* enqueue's update of a waiting follow-up changes no state and no counter.
LEMMA UpdateFollowupMethod ==
  ASSUME IInv, NEW r \in Requests, UpdateFollowup(r)
  PROVE  Method
<1>1. PICK f \in Followups(r.target) :
        /\ Finish([jobs EXCEPT ![f].pin = r.pin, ![f].address = r.address,
                               ![f].serverOta = r.serverOta],
                  history, {}, files)
        /\ UNCHANGED nextId
  BY DEF UpdateFollowup
<1> DEFINE J == [jobs EXCEPT ![f].pin = r.pin, ![f].address = r.address,
                             ![f].serverOta = r.serverOta]
<1>2. f \in JobIds /\ jobs[f].state = "pending" /\ jobs \in [JobIds -> Job]
  BY DEF Followups, OfTarget, IInv, Sound
<1>3. r.pin \in Workers \cup {None} /\ r.address \in BOOLEAN /\ r.serverOta \in BOOLEAN
  BY RequestsAssumption DEF Request
<1>4. RowStep(jobs[f], J[f])
  BY <1>2, <1>3, SameRow DEF RowStep, Job
<1>5. J \in [JobIds -> Job] /\ \A k \in JobIds : RowStep(jobs[k], J[k])
  BY <1>2, <1>4, SameRow DEF RowStep
<1>6. TableStep(J, nextId')
  BY <1>1, <1>5, RowsIntro
<1> QED
  BY <1>1, <1>6, MethodIntro DEF IInv

\* submit_result ends a working row or patches the OTA result of a finished one.
LEMMA SubmitResultMethod ==
  ASSUME IInv, NEW i \in JobIds, NEW res \in Results, SubmitResult(i, res)
  PROVE  Method
<1>1. res.status \in {"success", "failed"} /\ res.ota \in OtaResults /\ res.viaServer \in BOOLEAN
  BY ResultsAssumption DEF Result
<1>2. jobs \in [JobIds -> Job] /\ files \in SUBSET JobIds
  BY DEF IInv, Sound
<1>3. CASE PatchResult(i, res)
  <2> DEFINE J == [jobs EXCEPT ![i].ota = res.ota]
  <2>1. RowStep(jobs[i], J[i])
    BY <1>1, <1>2, SameRow DEF RowStep, Job
  <2>2. J \in [JobIds -> Job] /\ \A k \in JobIds : RowStep(jobs[k], J[k])
    BY <1>2, <2>1, SameRow DEF RowStep
  <2>3. TableStep(J, nextId')
    BY <2>2, RowsIntro DEF SubmitResult
  <2> QED
    BY <1>2, <1>3, <2>3, MethodIntro DEF PatchResult
<1>4. CASE FinishJob(i, res)
  <2> DEFINE J == [jobs EXCEPT ![i].state = res.status,
                     ![i].ota = IF res.ota # None THEN res.ota ELSE jobs[i].ota,
                     ![i].serverOta = jobs[i].serverOta \/ (res.viaServer /\ res.status = "success")]
  <2>1. J[i] = [jobs[i] EXCEPT !.state = res.status,
                     !.ota = IF res.ota # None THEN res.ota ELSE jobs[i].ota,
                     !.serverOta = jobs[i].serverOta \/ (res.viaServer /\ res.status = "success")]
    BY <1>2
  <2>2. (jobs[i].serverOta \/ (res.viaServer /\ res.status = "success")) \in BOOLEAN
    OBVIOUS
  <2>3. RowStep(jobs[i], J[i])
    BY <1>1, <1>2, <1>4, <2>1, <2>2, SameRow
       DEF RowStep, Job, FinishJob, Finished, Unfinished, Waiting
  <2>4. J \in [JobIds -> Job] /\ \A k \in JobIds : RowStep(jobs[k], J[k])
    BY <1>2, <2>3, SameRow DEF RowStep
  <2>5. TableStep(J, nextId')
    BY <2>4, RowsIntro DEF SubmitResult
  <2> QED
    BY <1>2, <1>4, <2>5, MethodIntro DEF FinishJob
<1> QED
  BY <1>3, <1>4 DEF SubmitResult

\* patch_ota_result changes the OTA result of a row and nothing else.
LEMMA PatchOtaResultMethod ==
  ASSUME IInv, NEW i \in JobIds, NEW ota \in {"success", "failed"}, PatchOtaResult(i, ota)
  PROVE  Method
<1> DEFINE J == [jobs EXCEPT ![i].ota = ota]
<1>1. jobs \in [JobIds -> Job] /\ files \in SUBSET JobIds
  BY DEF IInv, Sound
<1>2. RowStep(jobs[i], J[i])
  BY <1>1, SameRow DEF RowStep, Job, OtaResults
<1>3. J \in [JobIds -> Job] /\ \A k \in JobIds : RowStep(jobs[k], J[k])
  BY <1>1, <1>2, SameRow DEF RowStep
<1>4. TableStep(J, nextId')
  BY <1>3, RowsIntro DEF PatchOtaResult
<1> QED
  BY <1>1, <1>4, MethodIntro DEF PatchOtaResult

\* re_evaluate_routing moves rows between pending and blocked.
LEMMA ReEvaluateRoutingMethod ==
  ASSUME IInv, NEW eligible, ReEvaluateRouting(eligible)
  PROVE  Method
<1> DEFINE J == [i \in JobIds |->
                   IF jobs[i].state \in Waiting
                     THEN [jobs[i] EXCEPT !.state = IF i \in eligible THEN "pending" ELSE "blocked"]
                     ELSE jobs[i]]
<1>1. \A i \in JobIds : RowStep(jobs[i], J[i])
  <2> SUFFICES ASSUME NEW i \in JobIds PROVE RowStep(jobs[i], J[i])
    OBVIOUS
  <2>1. CASE jobs[i].state \in Waiting
    <3>1. J[i] = [jobs[i] EXCEPT !.state = IF i \in eligible THEN "pending" ELSE "blocked"]
      BY <2>1
    <3> QED
      BY <2>1, <3>1, SameRow DEF RowStep, Job, Unfinished, Waiting, Finished
  <2>2. CASE jobs[i].state \notin Waiting
    BY <2>2, SameRow
  <2> QED
    BY <2>1, <2>2
<1>2. J \in [JobIds -> Job]
  BY <1>1 DEF RowStep
<1>3. TableStep(J, nextId')
  BY <1>1, <1>2, RowsIntro DEF ReEvaluateRouting
<1> QED
  BY <1>3, MethodIntro DEF ReEvaluateRouting, IInv

\* cancel ends unfinished rows and records them after the write.
LEMMA CancelMethod ==
  ASSUME IInv, NEW ids, Cancel(ids)
  PROVE  Method
<1> DEFINE hit == {i \in ids : jobs[i].state \in Unfinished}
           J == [i \in JobIds |-> IF i \in hit THEN [jobs[i] EXCEPT !.state = "cancelled"]
                                  ELSE jobs[i]]
<1>1. \A i \in JobIds : RowStep(jobs[i], J[i])
  <2> SUFFICES ASSUME NEW i \in JobIds PROVE RowStep(jobs[i], J[i])
    OBVIOUS
  <2>1. CASE i \in hit
    <3>1. J[i] = [jobs[i] EXCEPT !.state = "cancelled"] /\ jobs[i].state \in Unfinished
      BY <2>1
    <3> QED
      BY <3>1, SameRow DEF RowStep, Job, Unfinished, Waiting, Finished
  <2>2. CASE i \notin hit
    BY <2>2, SameRow
  <2> QED
    BY <2>1, <2>2
<1>2. J \in [JobIds -> Job]
  BY <1>1 DEF RowStep
<1>3. TableStep(J, nextId')
  BY <1>1, <1>2, RowsIntro DEF Cancel
<1> QED
  BY <1>3, MethodIntro DEF Cancel, IInv

\* What Requeued makes of the fields of a row.
LEMMA RequeuedFields ==
  ASSUME NEW j \in Job, NEW n \in Nat, n = j.retries + 1
  PROVE  /\ Requeued(j) \in Job /\ Requeued(j).retries = n
         /\ Requeued(j).state = IF n >= MaxRetries THEN "failed" ELSE "pending"
         /\ Requeued(j).followup = j.followup
<1>1. CASE n >= MaxRetries
  <2>1. Requeued(j) = [j EXCEPT !.retries = n, !.state = "failed"]
    BY <1>1 DEF Requeued
  <2> QED
    BY <1>1, <2>1 DEF Job, Finished, Unfinished, Waiting
<1>2. CASE ~(n >= MaxRetries)
  <2>1. Requeued(j) = [j EXCEPT !.retries = n, !.state = "pending", !.assigned = None]
    BY <1>2 DEF Requeued
  <2>2. /\ Requeued(j).retries = n /\ Requeued(j).state = "pending"
        /\ Requeued(j).followup = j.followup
    BY <2>1 DEF Job
  <2>3. Requeued(j) \in Job
    BY <2>1 DEF Job, Finished, Unfinished, Waiting
  <2> QED
    BY <1>2, <2>2, <2>3
<1> QED
  BY <1>1, <1>2

\* One more attempt is booked within the cap, or the job has failed.
LEMMA RequeuedRow ==
  ASSUME IInv, NEW i \in JobIds, jobs[i].state = "working"
  PROVE  RowStep(jobs[i], Requeued(jobs[i]))
<1>1. PICK n \in Nat : n = jobs[i].retries + 1
  BY SameRow
<1>2. /\ jobs[i] \in Job /\ ~jobs[i].followup
      /\ n <= MaxRetries /\ MaxRetries \in Nat
  BY <1>1, SameRow, QueueAssumption DEF IInv, Sound, Unfinished
<1>3. /\ Requeued(jobs[i]) \in Job /\ Requeued(jobs[i]).retries = n
      /\ Requeued(jobs[i]).state = IF n >= MaxRetries THEN "failed" ELSE "pending"
      /\ ~Requeued(jobs[i]).followup
  BY <1>1, <1>2, RequeuedFields
<1> QED
  BY <1>2, <1>3 DEF RowStep, Unfinished, Waiting, Finished

\* check_timeouts requeues working rows within the cap, or fails them.
LEMMA CheckTimeoutsMethod ==
  ASSUME IInv, NEW lost, CheckTimeouts(lost)
  PROVE  Method
<1> DEFINE hit == {i \in lost : jobs[i].state = "working"}
           J == [i \in JobIds |-> IF i \in hit THEN Requeued(jobs[i]) ELSE jobs[i]]
<1>1. \A i \in JobIds : RowStep(jobs[i], J[i])
  BY RequeuedRow, SameRow
<1>2. J \in [JobIds -> Job]
  BY <1>1 DEF RowStep
<1>3. TableStep(J, nextId')
  BY <1>1, <1>2, RowsIntro DEF CheckTimeouts
<1> QED
  BY <1>3, MethodIntro DEF CheckTimeouts, IInv

\* release_for_retry books one attempt exactly as a timeout does.
LEMMA ReleaseForRetryMethod ==
  ASSUME IInv, NEW i \in JobIds, ReleaseForRetry(i)
  PROVE  Method
<1> DEFINE J == [jobs EXCEPT ![i] = Requeued(jobs[i])]
<1>1. jobs \in [JobIds -> Job]
  BY DEF IInv, Sound
<1>2. \A k \in JobIds : RowStep(jobs[k], J[k])
  BY <1>1, RequeuedRow, SameRow DEF ReleaseForRetry
<1>3. J \in [JobIds -> Job]
  BY <1>1, <1>2 DEF RowStep
<1>4. TableStep(J, nextId')
  BY <1>2, <1>3, RowsIntro DEF ReleaseForRetry
<1> QED
  BY <1>4, MethodIntro DEF ReleaseForRetry, IInv

\* remove_jobs and clear.
LEMMA RemovedMethod ==
  ASSUME IInv, NEW hit, \A i \in hit : jobs[i].state \in Finished, UNCHANGED nextId,
         Finish(Removed(hit), history, {}, Purged(hit))
  PROVE  Method
<1>1. \A i \in JobIds : RowStep(jobs[i], Removed(hit)[i])
  BY DropRow, SameRow DEF Removed
<1>2. Removed(hit) \in [JobIds -> Job]
  BY <1>1 DEF RowStep, Removed
<1>3. TableStep(Removed(hit), nextId')
  BY <1>1, <1>2, RowsIntro
<1>4. Purged(hit) \in SUBSET JobIds
  BY DEF Purged, IInv
<1> QED
  BY <1>3, <1>4, MethodIntro

\* The end of an upload sets has_firmware, or touches firmware files only.
LEMMA StoreFirmwareMethod ==
  ASSUME IInv, NEW i \in JobIds, NEW grace, StoreFirmware(i, grace)
  PROVE  \/ Method
         \/ UNCHANGED <<jobs, nextId, disk, history>> /\ files' \subseteq JobIds
<1>1. jobs \in [JobIds -> Job] /\ files \in SUBSET JobIds /\ files \cup {i} \in SUBSET JobIds
  BY DEF IInv, Sound
<1>2. CASE Finish([jobs EXCEPT ![i].hasFirmware = TRUE], history, {}, files \cup {i})
  <2> DEFINE J == [jobs EXCEPT ![i].hasFirmware = TRUE]
  <2>1. RowStep(jobs[i], J[i])
    BY <1>1, SameRow DEF RowStep, Job
  <2>2. J \in [JobIds -> Job] /\ \A k \in JobIds : RowStep(jobs[k], J[k])
    BY <1>1, <2>1, SameRow DEF RowStep
  <2>3. TableStep(J, nextId')
    BY <2>2, RowsIntro DEF StoreFirmware
  <2> QED
    BY <1>1, <1>2, <2>3, MethodIntro
<1>3. CASE files' \in {files \cup {i}, files \ {i}} /\ UNCHANGED <<jobs, disk, history>>
  BY <1>1, <1>3 DEF StoreFirmware
<1> QED
  BY <1>2, <1>3 DEF StoreFirmware

\* enqueue's new row is the only follow-up of its target, and the rows it pushes
\* out were recorded first.
LEMMA CreateJobMethod ==
  ASSUME IInv, NEW r \in Requests, CreateJob(r)
  PROVE  Method
<1> DEFINE active == Actives(r.target)
           stale  == {i \in OfTarget(r.target) : jobs[i].state \in Finished \cup {"blocked"}}
           new    == NewJob(r, active # {})
           J == [i \in JobIds |-> IF i = nextId THEN new
                                  ELSE IF i \in stale THEN NoJob
                                  ELSE jobs[i]]
<1>1. /\ nextId <= MaxJobs /\ Followups(r.target) = {} /\ nextId' = nextId + 1
      /\ Finish(J, Recorded(history, jobs, stale), {}, Purged(stale))
  BY DEF CreateJob
<1>2. /\ nextId \in JobIds /\ nextId' \in nextId..(MaxJobs + 1)
      /\ nextId..(nextId' - 1) = {nextId}
  BY <1>1, QueueAssumption DEF IInv, JobIds
<1>3. r \in Request
  BY RequestsAssumption
<1>4. /\ new \in Job /\ new.state = "pending" /\ new.retries = 0
      /\ new.target = r.target /\ new.followup = (active # {})
  <2>1. (active # {}) \in BOOLEAN
    OBVIOUS
  <2> HIDE DEF active
  <2> QED
    BY <1>3, <2>1, QueueAssumption
       DEF NewJob, NoJob, Job, Request, Unfinished, Waiting, OtaResults
<1> HIDE DEF new
<1>5. ASSUME NEW i \in JobIds, i # nextId
      PROVE  RowStep(jobs[i], J[i])
  <2>1. CASE i \in stale
    BY <1>5, <2>1, DropRow
  <2>2. CASE i \notin stale
    BY <1>5, <2>2, SameRow
  <2> QED
    BY <2>1, <2>2
<1>6. ASSUME NEW k \in JobIds, k # nextId,
             J[k].state \in Waiting, J[k].followup, J[k].target = r.target
      PROVE  FALSE
  <2>1. k \notin stale
    BY <1>6 DEF NoJob
  <2>2. J[k] = jobs[k]
    BY <1>6, <2>1
  <2>3. k \in OfTarget(r.target) /\ jobs[k].state = "pending"
    BY <1>6, <2>1, <2>2 DEF OfTarget, Waiting
  <2> QED
    BY <1>1, <1>6, <2>2, <2>3 DEF Followups
<1>7. NewRow(J, nextId)
  BY <1>2, <1>4, <1>6 DEF NewRow
<1>8. TableStep(J, nextId')
  BY <1>2, <1>5, <1>7 DEF TableStep
<1>9. Purged(stale) \in SUBSET JobIds
  BY DEF Purged, IInv
<1> QED
  BY <1>1, <1>8, <1>9, MethodIntro

\* A retry is a fresh pending row, never a follow-up.
LEMMA RetryRow ==
  ASSUME NEW j \in Job
  PROVE  /\ RetryOf(j) \in Job
         /\ RetryOf(j).state = "pending" /\ RetryOf(j).retries = 0
         /\ RetryOf(j).followup = FALSE
<1> DEFINE b == OtaFailed(j)
           p == IF b THEN j.assigned ELSE j.pin
<1>1. /\ j.target \in Targets \cup {None} /\ j.serverOta \in BOOLEAN
      /\ p \in Workers \cup {None}
  BY DEF Job
<1>2. b \in BOOLEAN
  BY DEF OtaFailed
<1>3. RetryOf(j) = [NoJob EXCEPT !.state = "pending", !.target = j.target, !.pin = p,
                                 !.otaOnly = b, !.serverOta = j.serverOta]
  BY DEF RetryOf
<1> HIDE DEF b, p
<1>4. RetryOf(j) =
        [state |-> "pending", target |-> j.target, pin |-> p, assigned |-> None,
         retries |-> 0, followup |-> FALSE, ota |-> None, otaOnly |-> b,
         serverOta |-> j.serverOta, downloadOnly |-> FALSE, address |-> FALSE,
         hasFirmware |-> FALSE]
  BY <1>3 DEF NoJob
<1> QED
  BY <1>1, <1>2, <1>4 DEF Job, Unfinished, Waiting, OtaResults

\* retry adds fresh rows and records the finished rows it drops.
LEMMA RetryMethod ==
  ASSUME IInv, NEW ids \in SUBSET JobIds, Retry(ids)
  PROVE  Method
<1> DEFINE old == {i \in ids : jobs[i].state \in Finished}
           hit == {jobs[i].target : i \in old}
           stale == {i \in JobIds : jobs[i].target \in hit /\ jobs[i].state \in Finished}
<1>0. PICK next \in (nextId + 1)..(MaxJobs + 1) :
        \E base \in [nextId..(next - 1) -> old] :
          /\ Finish([i \in JobIds |-> IF i \in nextId..(next - 1) THEN RetryOf(jobs[base[i]])
                                      ELSE IF i \in stale THEN NoJob
                                      ELSE jobs[i]],
                    Recorded(history, jobs, stale), {}, files)
          /\ nextId' = next
  BY DEF Retry
<1>1. PICK base \in [nextId..(next - 1) -> old] :
        /\ Finish([i \in JobIds |-> IF i \in nextId..(next - 1) THEN RetryOf(jobs[base[i]])
                                    ELSE IF i \in stale THEN NoJob
                                    ELSE jobs[i]],
                  Recorded(history, jobs, stale), {}, files)
        /\ nextId' = next
  BY <1>0
<1> DEFINE J == [i \in JobIds |-> IF i \in nextId..(next - 1) THEN RetryOf(jobs[base[i]])
                                  ELSE IF i \in stale THEN NoJob
                                  ELSE jobs[i]]
<1>2. nextId' \in nextId..(MaxJobs + 1)
  BY <1>1, QueueAssumption DEF IInv
<1>4. ASSUME NEW i \in JobIds, i \in nextId..(next - 1)
      PROVE  NewRow(J, i)
  <2>1. J[i] = RetryOf(jobs[base[i]]) /\ jobs[base[i]] \in Job
    BY <1>1, <1>4, SameRow
  <2> HIDE DEF J
  <2>2. PICK j \in Job : j = jobs[base[i]]
    BY <2>1
  <2>3. J[i] = RetryOf(j)
    BY <2>1, <2>2
  <2>4. /\ RetryOf(j) \in Job
        /\ RetryOf(j).state = "pending" /\ RetryOf(j).retries = 0
        /\ RetryOf(j).followup = FALSE
    BY RetryRow
  <2>5. J[i] \in Job /\ J[i].state = "pending" /\ J[i].retries = 0 /\ ~J[i].followup
    BY <2>3, <2>4
  <2> QED
    BY <2>5 DEF NewRow
<1>5. ASSUME NEW i \in JobIds, i \notin nextId..(next - 1)
      PROVE  RowStep(jobs[i], J[i])
  <2>1. CASE i \in stale
    BY <1>5, <2>1, DropRow
  <2>2. CASE i \notin stale
    BY <1>5, <2>2, SameRow
  <2> QED
    BY <2>1, <2>2
<1>6. TableStep(J, nextId')
  BY <1>1, <1>2, <1>4, <1>5 DEF TableStep
<1> QED
  BY <1>1, <1>6, MethodIntro DEF IInv

-----------------------------------------------------------------------------
(* Next *)

\* Only firmware files change and old history rows are forgotten.
Housekeeping ==
  /\ UNCHANGED <<jobs, nextId, disk>>
  /\ files' \subseteq JobIds
  /\ history' \in [JobIds -> HistoryRow]
  /\ \A i \in JobIds : history'[i] \in {history[i], NoRow}

\* Every step runs a method, restarts the process, or is housekeeping.
LEMMA NextCases ==
  ASSUME IInv, Next
  PROVE  Method \/ Restart \/ Housekeeping
<1> USE DEF Present, InState
<1>0. Created \subseteq JobIds
  BY QueueAssumption DEF Created, JobIds, IInv
<1>1. CASE \E r \in Requests : Enqueue(r)
  BY <1>1, UpdateFollowupMethod, CreateJobMethod DEF Enqueue
<1>2. CASE \E w \in Workers, defer \in BOOLEAN, eligible \in SUBSET InState({"pending"}) :
             ClaimNext(w, defer, eligible)
  BY <1>2, ClaimNextMethod
<1>3. CASE \E i \in Present, res \in Results : SubmitResult(i, res)
  BY <1>3, SubmitResultMethod
<1>4. CASE \E i \in InState({"success"}), ota \in {"success", "failed"} :
             jobs[i].serverOta /\ PatchOtaResult(i, ota)
  BY <1>4, PatchOtaResultMethod
<1>5. CASE \E eligible \in SUBSET InState(Waiting) : ReEvaluateRouting(eligible)
  BY <1>5, ReEvaluateRoutingMethod
<1>6. CASE \E ids \in SUBSET InState(Unfinished) : Cancel(ids)
  BY <1>6, CancelMethod
<1>7. CASE \E lost \in SUBSET InState({"working"}) : CheckTimeouts(lost)
  BY <1>7, CheckTimeoutsMethod
<1>8. CASE \E i \in Present : ReleaseForRetry(i)
  BY <1>8, ReleaseForRetryMethod
<1>9. CASE \E ids \in SUBSET InState(Finished) : Retry(ids)
  BY <1>9, RetryMethod
<1>10. CASE \E ids \in SUBSET InState(Finished) : RemoveJobs(ids)
  <2>1. PICK ids \in SUBSET InState(Finished) : RemoveJobs(ids)
    BY <1>10
  <2> QED
    BY <2>1, RemovedMethod DEF RemoveJobs
<1>11. CASE \E states \in SUBSET Finished, ok \in BOOLEAN : Clear(states, ok)
  <2>1. PICK states \in SUBSET Finished, ok \in BOOLEAN : Clear(states, ok)
    BY <1>11
  <2> QED
    BY <2>1, RemovedMethod DEF Clear
<1>12. CASE \E i \in Created \cap Uploads, grace \in BOOLEAN : StoreFirmware(i, grace)
  <2>1. Method \/ (UNCHANGED <<jobs, nextId, disk, history>> /\ files' \subseteq JobIds)
    BY <1>0, <1>12, StoreFirmwareMethod
  <2> QED
    BY <2>1 DEF Housekeeping, IInv
<1>13. CASE \E gone \in SUBSET files : EnforceRetention(gone)
  BY <1>13 DEF EnforceRetention, IInv, Housekeeping
<1>14. CASE \E old \in SUBSET Created : EvictHistory(old)
  <2>1. PICK old \in SUBSET Created : EvictHistory(old)
    BY <1>14
  <2>2. NoRow \in HistoryRow
    BY DEF NoRow, HistoryRow, OtaResults
  <2> QED
    BY <2>1, <2>2 DEF EvictHistory, IInv, Housekeeping
<1> QED
  BY <1>1, <1>2, <1>3, <1>4, <1>5, <1>6, <1>7, <1>8, <1>9, <1>10, <1>11, <1>12, <1>13, <1>14
     DEF Next

\* The empty queue satisfies the inductive invariant.
LEMMA InitIInv ==
  ASSUME Init
  PROVE  IInv
<1>1. NoJob \in Job /\ NoRow \in HistoryRow
  BY DEF NoJob, Job, NoRow, HistoryRow, OtaResults
<1>2. Sound(jobs, nextId)
  BY <1>1, QueueAssumption DEF Init, Sound, NoJob, Unfinished, Waiting
<1> QED
  BY <1>1, <1>2, QueueAssumption
     DEF Init, IInv, MemoryMatchesDisk, Agrees, FreshHistory, NoRow

\* Every step preserves the inductive invariant.
LEMMA NextIInv ==
  ASSUME IInv, [Next]_vars
  PROVE  IInv'
<1>1. CASE Method
  BY <1>1, MethodSound DEF Method
<1>2. CASE Restart
  BY <1>2, RestartedSound DEF Restart, IInv
<1>3. CASE Housekeeping
  BY <1>3 DEF Housekeeping, IInv, MemoryMatchesDisk, Agrees, FreshHistory, NoRow
<1>4. CASE UNCHANGED vars
  BY <1>4 DEF vars, IInv, MemoryMatchesDisk
<1> QED
  BY <1>1, <1>2, <1>3, <1>4, NextCases

\* The inductive invariant holds of every behaviour.
THEOREM InductiveInvariant == Spec => []IInv
  BY InitIInv, NextIInv, PTL DEF Spec

\* Every variable stays in its type, and only ids given out have rows.
THEOREM TypeCorrect == Spec => []TypeOK
<1>1. IInv => TypeOK
  BY DEF IInv, TypeOK, Sound, FreshHistory
<1> QED
  BY <1>1, InductiveInvariant, PTL

\* No kill between two writes makes the history show a verdict that queue.json
\* does not hold: persist-then-record, and record-then-drop for finished rows.
THEOREM HistoryIsNotAhead == Spec => []HistoryNotAhead
<1>1. IInv => HistoryNotAhead
  BY DEF IInv, HistoryNotAhead, Agrees
<1> QED
  BY <1>1, InductiveInvariant, PTL

\* A job that may still run has attempts left, under any number of timeouts,
\* releases and restarts.
THEOREM RetriesAreBounded == Spec => []RetryBudget
<1>1. IInv => RetryBudget
  BY DEF IInv, RetryBudget, Sound
<1> QED
  BY <1>1, InductiveInvariant, PTL

\* At most one follow-up waits per target.
THEOREM AtMostOneFollowup == Spec => []OneFollowup
<1>1. IInv => OneFollowup
  BY DEF IInv, OneFollowup, Sound
<1> QED
  BY <1>1, InductiveInvariant, PTL

-----------------------------------------------------------------------------
(* What makes room for a newer job is in the history *)

\* A method that records the rows in stale before it drops them: however it is cut
\* short, a finished row that is gone afterwards has left its verdict behind.
LEMMA DropRecorded ==
  ASSUME IInv, NEW J, DOMAIN J = JobIds, NEW stale, NEW F,
         Finish(J, Recorded(history, jobs, stale), {}, F),
         NEW i \in JobIds, jobs[i].state \in Finished, jobs'[i].state = "none",
         J[i] = jobs[i] \/ (J[i] = NoJob /\ i \in stale)
  PROVE  history'[i].state = jobs[i].state /\ history'[i].ota = jobs[i].ota
<1> DEFINE h == Recorded(history, jobs, stale)
<1>1. jobs[i] \in Job /\ disk[i] \in Job /\ disk[i].state # "none"
  BY MemoryState DEF IInv, Sound, Finished
<1>2. i \in stale =>
        /\ h[i].state = jobs[i].state /\ h[i].ota = jobs[i].ota
        /\ \A K : Recorded(h, K, {})[i] = h[i]
  BY DEF Recorded
<1>3. CASE jobs' = J /\ history' = Recorded(h, J, {})
  BY <1>2, <1>3 DEF Finished
<1>4. ASSUME NEW f, Restarted(disk, h, f)
      PROVE  FALSE
  <2>1. jobs'[i] = Recover(disk[i])
    BY <1>4 DEF Restarted
  <2> QED
    BY <1>1, <2>1, RecoverRow
<1>5. ASSUME NEW f, NEW done \in SUBSET {}, Restarted(J, Recorded(h, J, done), f)
      PROVE  history'[i] = h[i] /\ i \in stale
  <2>1. jobs'[i] = Recover(J[i]) /\ done = {}
    BY <1>5 DEF Restarted
  <2>2. J[i] = NoJob /\ i \in stale
    BY <1>1, <2>1, RecoverRow DEF Finished
  <2>3. ~Stranded(J[i])
    BY <2>2 DEF Stranded, NoJob
  <2>4. history'[i] = Recorded(h, J, done)[i]
    BY <1>5, <2>3 DEF Restarted, Recorded
  <2> QED
    BY <1>2, <2>1, <2>2, <2>4
<1> QED
  BY <1>2, <1>3, <1>4, <1>5 DEF Finish

LEMMA CreateJobDrops ==
  ASSUME IInv, NEW r \in Requests, CreateJob(r),
         NEW i \in JobIds, jobs[i].state \in Finished, jobs'[i].state = "none"
  PROVE  history'[i].state = jobs[i].state /\ history'[i].ota = jobs[i].ota
<1> DEFINE stale  == {k \in OfTarget(r.target) : jobs[k].state \in Finished \cup {"blocked"}}
           J == [k \in JobIds |-> IF k = nextId THEN NewJob(r, Actives(r.target) # {})
                                  ELSE IF k \in stale THEN NoJob
                                  ELSE jobs[k]]
<1>1. Finish(J, Recorded(history, jobs, stale), {}, Purged(stale))
  BY DEF CreateJob
<1>2. i # nextId
  BY QueueAssumption DEF IInv, Sound, JobIds, Finished
<1>3. DOMAIN J = JobIds /\ (J[i] = jobs[i] \/ (J[i] = NoJob /\ i \in stale))
  BY <1>2
<1> HIDE DEF J, stale
<1> QED
  BY <1>1, <1>3, DropRecorded

LEMMA RetryDrops ==
  ASSUME IInv, NEW ids \in SUBSET JobIds, Retry(ids),
         NEW i \in JobIds, jobs[i].state \in Finished, jobs'[i].state = "none"
  PROVE  history'[i].state = jobs[i].state /\ history'[i].ota = jobs[i].ota
<1> DEFINE old == {k \in ids : jobs[k].state \in Finished}
           hit == {jobs[k].target : k \in old}
           stale == {k \in JobIds : jobs[k].target \in hit /\ jobs[k].state \in Finished}
<1>1. PICK next \in (nextId + 1)..(MaxJobs + 1) :
        \E base \in [nextId..(next - 1) -> old] :
          Finish([k \in JobIds |-> IF k \in nextId..(next - 1) THEN RetryOf(jobs[base[k]])
                                   ELSE IF k \in stale THEN NoJob
                                   ELSE jobs[k]],
                 Recorded(history, jobs, stale), {}, files)
  BY DEF Retry
<1>2. PICK base \in [nextId..(next - 1) -> old] :
        Finish([k \in JobIds |-> IF k \in nextId..(next - 1) THEN RetryOf(jobs[base[k]])
                                 ELSE IF k \in stale THEN NoJob
                                 ELSE jobs[k]],
               Recorded(history, jobs, stale), {}, files)
  BY <1>1
<1> DEFINE J == [k \in JobIds |-> IF k \in nextId..(next - 1) THEN RetryOf(jobs[base[k]])
                                  ELSE IF k \in stale THEN NoJob
                                  ELSE jobs[k]]
<1>3. Finish(J, Recorded(history, jobs, stale), {}, files)
  BY <1>2
<1>4. i \notin nextId..(next - 1)
  BY QueueAssumption DEF IInv, Sound, JobIds, Finished
<1>5. DOMAIN J = JobIds /\ (J[i] = jobs[i] \/ (J[i] = NoJob /\ i \in stale))
  BY <1>4
<1> HIDE DEF J, stale
<1> QED
  BY <1>3, <1>5, DropRecorded

\* enqueue and retry are the methods that give out ids.
LEMMA IdsGivenOut ==
  ASSUME Next, nextId' # nextId
  PROVE  \/ \E r \in Requests : CreateJob(r)
         \/ \E ids \in SUBSET InState(Finished) : Retry(ids)
<1>1. ~Restart
  BY DEF Restart
<1>2. ~\E old \in SUBSET Created : EvictHistory(old)
  BY DEF EvictHistory
<1>3. ~\E old \in SUBSET files : EnforceRetention(old)
  BY DEF EnforceRetention
<1>4. ~\E i \in Created \cap Uploads, grace \in BOOLEAN : StoreFirmware(i, grace)
  BY DEF StoreFirmware
<1>5. /\ ~\E states \in SUBSET Finished, ok \in BOOLEAN : Clear(states, ok)
      /\ ~\E ids \in SUBSET InState(Finished) : RemoveJobs(ids)
  BY DEF Clear, RemoveJobs
<1>6. /\ ~\E i \in Present : ReleaseForRetry(i)
      /\ ~\E lost \in SUBSET InState({"working"}) : CheckTimeouts(lost)
      /\ ~\E ids \in SUBSET InState(Unfinished) : Cancel(ids)
  BY DEF ReleaseForRetry, CheckTimeouts, Cancel
<1>7. /\ ~\E eligible \in SUBSET InState(Waiting) : ReEvaluateRouting(eligible)
      /\ ~\E i \in InState({"success"}), ota \in {"success", "failed"} :
            jobs[i].serverOta /\ PatchOtaResult(i, ota)
      /\ ~\E i \in Present, res \in Results : SubmitResult(i, res)
  BY DEF ReEvaluateRouting, PatchOtaResult, SubmitResult
<1>8. ~\E w \in Workers, defer \in BOOLEAN, eligible \in SUBSET InState({"pending"}) :
          ClaimNext(w, defer, eligible)
  BY DEF ClaimNext
<1>9. \A r \in Requests : ~UpdateFollowup(r)
  BY DEF UpdateFollowup
<1> QED
  BY <1>1, <1>2, <1>3, <1>4, <1>5, <1>6, <1>7, <1>8, <1>9 DEF Next, Enqueue

\* A finished row that makes room for a newer job of its target is in the history with
\* its verdict and its OTA result, also when enqueue or retry is killed half-way.
THEOREM EvictionsAreRecorded == Spec => EvictionRecorded
<1> DEFINE Act == \A i \in JobIds :
                    /\ jobs[i].state \in Finished /\ jobs'[i].state = "none"
                    /\ nextId' # nextId
                    => history'[i].state = jobs[i].state /\ history'[i].ota = jobs[i].ota
<1>1. IInv /\ [Next]_vars => [Act]_vars
  <2> SUFFICES ASSUME IInv, Next, NEW i \in JobIds,
                      jobs[i].state \in Finished, jobs'[i].state = "none", nextId' # nextId
               PROVE  history'[i].state = jobs[i].state /\ history'[i].ota = jobs[i].ota
    OBVIOUS
  <2>1. InState(Finished) \subseteq JobIds
    BY DEF InState
  <2> QED
    BY <2>1, IdsGivenOut, CreateJobDrops, RetryDrops
<1> QED
  BY <1>1, InductiveInvariant, PTL DEF Spec, EvictionRecorded

-----------------------------------------------------------------------------
(* The queue implements JobLifecycle *)

\* The state a row has after a method, killed or not: the one the method gave it,
\* the one queue.json had, or pending if that one was working.
LEMMA RowAfter ==
  ASSUME IInv, NEW J \in [JobIds -> Job], NEW h, NEW rec, NEW F, Finish(J, h, rec, F),
         NEW i \in JobIds
  PROVE  \/ jobs'[i].state = J[i].state
         \/ J[i].state = "working" /\ jobs'[i].state = "pending"
         \/ disk[i].state # "working" /\ jobs'[i].state = disk[i].state
         \/ disk[i].state = "working" /\ jobs'[i].state = "pending"
<1>1. ASSUME NEW D \in [JobIds -> Job], NEW g, NEW f, Restarted(D, g, f)
      PROVE  jobs'[i].state = IF D[i].state = "working" THEN "pending" ELSE D[i].state
  <2>1. D[i] \in Job /\ jobs'[i] = Recover(D[i])
    BY <1>1 DEF Restarted
  <2> QED
    BY <2>1, RecoverRow
<1>2. disk \in [JobIds -> Job]
  BY DEF IInv, Sound
<1>3. CASE jobs' = J
  BY <1>3
<1>4. CASE \E f \in {files, F} : Restarted(disk, h, f)
  BY <1>1, <1>2, <1>4
<1>5. CASE \E f \in {files, F}, done \in SUBSET rec : Restarted(J, Recorded(h, J, done), f)
  BY <1>1, <1>5
<1> QED
  BY <1>3, <1>4, <1>5 DEF Finish

\* A state that may follow state a of a row in one step.
Follows(a, b) ==
  \/ b = a
  \/ a = "pending" /\ b \in {"blocked", "working", "cancelled"}
  \/ a = "blocked" /\ b \in {"pending", "cancelled", "none"}
  \/ a = "working" /\ b \in {"pending"} \cup Finished
  \/ a \in Finished /\ b = "none"

\* In every step a row moves along the life cycle, or is new.
LEMMA RowMoves ==
  ASSUME IInv, [Next]_vars, NEW i \in JobIds
  PROVE  \/ Follows(jobs[i].state, jobs'[i].state)
         \/ /\ i \in nextId..(nextId' - 1)
            /\ jobs[i].state = "none" /\ jobs'[i].state \in {"none", "pending"}
<1>1. CASE Method
  <2>1. PICK J, ids, rec, F :
          /\ TableStep(J, nextId')
          /\ \E h \in {history, Recorded(history, jobs, ids)} : Finish(J, h, rec, F)
    BY <1>1 DEF Method
  <2>2. J \in [JobIds -> Job]
    BY <2>1, TableStepSound DEF Sound
  <2>3. \/ jobs'[i].state = J[i].state
        \/ J[i].state = "working" /\ jobs'[i].state = "pending"
        \/ disk[i].state # "working" /\ jobs'[i].state = disk[i].state
        \/ disk[i].state = "working" /\ jobs'[i].state = "pending"
    BY <2>1, <2>2, RowAfter
  <2>4. \/ jobs[i].state = disk[i].state
        \/ jobs[i].state = "pending" /\ disk[i].state = "working"
    BY MemoryState
  <2>5. CASE i \notin nextId..(nextId' - 1)
    <3>1. Follows(jobs[i].state, J[i].state)
      BY <2>1, <2>5 DEF TableStep, RowStep, Follows
    <3> QED
      BY <2>3, <2>4, <3>1 DEF Follows, Finished
  <2>6. CASE i \in nextId..(nextId' - 1)
    <3>1. J[i].state = "pending"
      BY <2>1, <2>6 DEF TableStep, NewRow
    <3>2. i >= nextId
      BY <2>6, QueueAssumption DEF IInv, JobIds
    <3>3. jobs[i].state = "none" /\ disk[i].state = "none"
      BY <3>2 DEF IInv, Sound
    <3> QED
      BY <2>3, <2>6, <3>1, <3>3
  <2> QED
    BY <2>5, <2>6
<1>2. CASE Restart
  <2>1. disk[i] \in Job /\ jobs'[i] = Recover(disk[i])
    BY <1>2 DEF Restart, Restarted, IInv, Sound
  <2>2. jobs'[i].state = IF disk[i].state = "working" THEN "pending" ELSE disk[i].state
    BY <2>1, RecoverRow
  <2> QED
    BY <2>2, MemoryState DEF Follows
<1>3. CASE UNCHANGED jobs
  BY <1>3 DEF Follows
<1> QED
  BY <1>1, <1>2, <1>3, NextCases DEF vars, Housekeeping

\* A history row changes only to the verdict the job has before or after the step.
LEMMA RestartedRow ==
  ASSUME NEW D \in [JobIds -> Job], NEW h, NEW f, Restarted(D, h, f), NEW i \in JobIds
  PROVE  \/ history'[i].state = h[i].state
         \/ history'[i].state \in Finished /\ history'[i].state = jobs'[i].state
  BY DEF Restarted, Recorded

\* A history row is forgotten, or gets the verdict of its job.
LEMMA HistoryMoves ==
  ASSUME IInv, [Next]_vars, NEW i \in JobIds,
         history'[i].state \notin {history[i].state, "none"}
  PROVE  /\ history'[i].state \in Finished
         /\ history'[i].state \in {jobs[i].state, jobs'[i].state}
<1>1. CASE Method
  <2>1. PICK J, ids, rec, F :
          /\ TableStep(J, nextId')
          /\ \E h \in {history, Recorded(history, jobs, ids)} : Finish(J, h, rec, F)
    BY <1>1 DEF Method
  <2>2. PICK h \in {history, Recorded(history, jobs, ids)} : Finish(J, h, rec, F)
    BY <2>1
  <2>3. J \in [JobIds -> Job] /\ disk \in [JobIds -> Job]
    BY <2>1, TableStepSound DEF Sound, IInv
  <2>4. \/ h[i].state = history[i].state
        \/ h[i].state \in Finished /\ h[i].state = jobs[i].state
    BY <2>2 DEF Recorded
  <2>5. CASE jobs' = J /\ history' = Recorded(h, J, rec)
    BY <2>4, <2>5 DEF Recorded
  <2>6. CASE \E f \in {files, F} : Restarted(disk, h, f)
    BY <2>3, <2>4, <2>6, RestartedRow
  <2>7. CASE \E f \in {files, F}, done \in SUBSET rec : Restarted(J, Recorded(h, J, done), f)
    <3>1. PICK f \in {files, F}, done \in SUBSET rec : Restarted(J, Recorded(h, J, done), f)
      BY <2>7
    <3>2. \/ history'[i].state = Recorded(h, J, done)[i].state
          \/ history'[i].state \in Finished /\ history'[i].state = jobs'[i].state
      BY <2>3, <3>1, RestartedRow
    <3>3. J[i].state \in Finished => jobs'[i].state = J[i].state
      <4>1. jobs'[i] = Recover(J[i]) /\ J[i] \in Job
        BY <2>3, <3>1 DEF Restarted
      <4> QED
        BY <4>1, RecoverRow DEF Finished
    <3>4. \/ Recorded(h, J, done)[i].state = h[i].state
          \/ J[i].state \in Finished /\ Recorded(h, J, done)[i].state = J[i].state
      BY DEF Recorded
    <3> QED
      BY <2>4, <3>2, <3>3, <3>4
  <2> QED
    BY <2>2, <2>5, <2>6, <2>7 DEF Finish
<1>2. CASE Restart
  BY <1>2, RestartedRow DEF Restart, IInv, Sound
<1>3. CASE Housekeeping \/ UNCHANGED history
  BY <1>3 DEF Housekeeping, NoRow
<1> QED
  BY <1>1, <1>2, <1>3, NextCases DEF vars

\* The ids a method gives out are new before it and old after it.
LEMMA GivenOut ==
  ASSUME NEW i \in Nat, NEW a \in Nat, NEW b \in Nat, i \in a..(b - 1)
  PROVE  i < b /\ ~(i < a)
  OBVIOUS

\* A step maps to a step of the life cycle, or changes nothing there.
LEMMA StepRefines ==
  ASSUME IInv, IInv', [Next]_vars
  PROVE  Lifecycle!Next
<1>1. nextId \in Nat /\ nextId' \in Nat /\ nextId <= nextId' /\ \A i \in JobIds : i \in Nat
  <2>1. CASE Method
    BY <2>1, QueueAssumption DEF Method, TableStep, IInv, JobIds
  <2>2. CASE UNCHANGED nextId
    BY <2>2, QueueAssumption DEF IInv, JobIds
  <2> QED
    BY <2>1, <2>2, NextCases DEF vars, Restart, Housekeeping
<1>2. ASSUME NEW i \in JobIds
      PROVE  /\ StageOf(i)' \in Lifecycle!Stages
             /\ StageOf(i)' # StageOf(i) => Lifecycle!Move(StageOf(i), StageOf(i)')
  <2>1. /\ jobs[i].state \in Finished \cup Unfinished \cup {"none"}
        /\ jobs'[i].state \in Finished \cup Unfinished \cup {"none"}
    BY DEF IInv, Sound, Job
  <2>2. StageOf(i)' \in Lifecycle!Stages
    BY <2>1 DEF StageOf, Lifecycle!Stages, Lifecycle!Verdicts, Finished, Unfinished, Waiting
  <2>3. CASE i \in nextId..(nextId' - 1) /\ jobs[i].state = "none" /\ jobs'[i].state \in {"none", "pending"}
    <3>1. i \in Nat /\ nextId \in Nat /\ nextId' \in Nat
      BY <1>1
    <3>2. i \in nextId..(nextId' - 1)
      BY <2>3
    <3>3. i < nextId' /\ ~(i < nextId)
      BY <3>1, <3>2, GivenOut
    <3>4. StageOf(i) = "unborn"
      BY <2>3, <3>3 DEF StageOf
    <3>5. StageOf(i)' \in {"pending", "gone"}
      BY <2>3, <3>3 DEF StageOf
    <3> QED
      BY <2>2, <3>4, <3>5 DEF Lifecycle!Move
  <2>4. CASE Follows(jobs[i].state, jobs'[i].state) /\ jobs[i].state = "none"
    <3>1. jobs'[i].state = "none"
      BY <2>4 DEF Follows, Finished
    <3>2. StageOf(i) = IF i < nextId THEN "gone" ELSE "unborn"
      BY <2>4 DEF StageOf
    <3>3. StageOf(i)' = IF i < nextId' THEN "gone" ELSE "unborn"
      BY <3>1 DEF StageOf
    <3>4. StageOf(i)' # StageOf(i) => StageOf(i) = "unborn" /\ StageOf(i)' = "gone"
      BY <1>1, <3>2, <3>3
    <3> QED
      BY <2>2, <3>4 DEF Lifecycle!Move
  <2>5. CASE Follows(jobs[i].state, jobs'[i].state) /\ jobs[i].state # "none"
    <3>1. StageOf(i) = jobs[i].state
      BY <2>5 DEF StageOf
    <3>2. i < nextId /\ i < nextId'
      BY <1>1, <2>5 DEF IInv, Sound
    <3>3. StageOf(i)' = IF jobs'[i].state = "none" THEN "gone" ELSE jobs'[i].state
      BY <3>2 DEF StageOf
    <3> QED
      BY <2>1, <2>2, <2>5, <3>1, <3>3
         DEF Follows, Lifecycle!Move, Lifecycle!Verdicts, Finished, Unfinished, Waiting
  <2> QED
    BY <2>2, <2>3, <2>4, <2>5, RowMoves
<1>3. ASSUME NEW i \in JobIds, history'[i].state \notin {history[i].state, "none"}
      PROVE  /\ history[i].state = "none"
             /\ history'[i].state \in {StageOf(i), StageOf(i)'}
  <2>1. /\ history'[i].state \in Finished
        /\ history'[i].state \in {jobs[i].state, jobs'[i].state}
    BY <1>3, HistoryMoves
  <2>2. history'[i].state \in {StageOf(i), StageOf(i)'}
    BY <2>1 DEF StageOf, Finished
  <2>3. ASSUME history[i].state # "none" PROVE FALSE
    <3>1. history[i].state \in Finished
      BY <2>3 DEF IInv, HistoryRow
    <3>2. jobs[i].state \in {history[i].state, "none"}
      BY <2>3, <3>1, MemoryState DEF IInv, Agrees, Finished
    <3>3. i < nextId
      BY <1>1, <2>3 DEF IInv, FreshHistory
    <3>4. Follows(jobs[i].state, jobs'[i].state)
      BY <1>1, <3>3, RowMoves
    <3> QED
      BY <1>3, <2>1, <3>1, <3>2, <3>4 DEF Follows, Finished
  <2> QED
    BY <2>2, <2>3
<1>4. \A i \in JobIds : history'[i].state \in Lifecycle!Verdicts \cup {"none"}
  BY DEF IInv, HistoryRow, Lifecycle!Verdicts, Finished
<1> QED
  BY <1>2, <1>3, <1>4 DEF Lifecycle!Next

\* The queue implements the life cycle of a job for any callers, workers, kills
\* and restarts: no accepted job is lost, verdicts are final, and the history
\* holds no other verdict.
THEOREM QueueImplementsLifecycle == Spec => ImplementsLifecycle
<1>1. Init => Lifecycle!Init
  BY QueueAssumption DEF Init, Lifecycle!Init, StageOf, NoJob, NoRow, JobIds
<1>2. IInv /\ IInv' /\ [Next]_vars =>
        [Lifecycle!Next]_<<[i \in JobIds |-> StageOf(i)], [i \in JobIds |-> history[i].state]>>
  BY StepRefines
<1> QED
  BY <1>1, <1>2, InductiveInvariant, PTL DEF Spec, ImplementsLifecycle, Lifecycle!Spec

-----------------------------------------------------------------------------
(* Least and greatest of a set of places in a sequence *)

LEMMA Least ==
  ASSUME NEW S \in SUBSET Nat, S # {}
  PROVE  \E m \in S : \A k \in S : m <= k
<1> DEFINE T == {0..k : k \in S}
           R == StrictSubsetOrdering(Nat)
<1>1. T \subseteq FiniteSubsetsOf(Nat) /\ T # {}
  <2>1. ASSUME NEW k \in S
        PROVE  0..k \in FiniteSubsetsOf(Nat)
    <3>1. IsFiniteSet(0..k)
      BY FS_Interval
    <3> QED
      BY <3>1 DEF FiniteSubsetsOf
  <2> QED
    BY <2>1
<1>2. PICK x \in T : \A y \in T : ~(<<y, x>> \in R)
  BY <1>1, FS_StrictSubsetOrderingWellFounded, WFMin
<1>3. PICK m \in S : x = 0..m
  OBVIOUS
<1>4. ASSUME NEW k \in S, k < m
      PROVE  FALSE
  <2>1. 0..k \in T /\ 0..k \subseteq 0..m /\ m \in 0..m /\ m \notin 0..k
    BY <1>4
  <2>2. <<0..k, 0..m>> \in R
    BY <2>1 DEF StrictSubsetOrdering
  <2> QED
    BY <1>2, <1>3, <2>1, <2>2
<1> QED
  BY <1>4

LEMMA Greatest ==
  ASSUME NEW n \in Nat, NEW S \in SUBSET (1..n), S # {}
  PROVE  \E m \in S : \A k \in S : k <= m
<1> DEFINE Mirror == {n - k : k \in S}
<1>1. Mirror \in SUBSET Nat /\ Mirror # {}
  <2>1. \A k \in S : n - k \in Nat
    OBVIOUS
  <2> QED
    BY <2>1
<1>2. PICK d \in Mirror : \A e \in Mirror : d <= e
  BY <1>1, Least
<1>3. PICK m \in S : d = n - m
  OBVIOUS
<1>4. \A k \in S : n - m <= n - k
  BY <1>2, <1>3
<1> QED
  BY <1>4

-----------------------------------------------------------------------------
(* Bytes of sets of binaries *)

Content(B) == UNION {{b} \X (1..Size[b[2]]) : b \in B}

LEMMA ContentFinite ==
  ASSUME NEW B \in SUBSET Binaries, IsFiniteSet(B)
  PROVE  IsFiniteSet(Content(B))
<1> DEFINE f == [b \in B |-> {b} \X (1..Size[b[2]])]
           T == {{b} \X (1..Size[b[2]]) : b \in B}
<1>1. f \in Surjection(B, T)
  BY DEF Surjection
<1>2. IsFiniteSet(T)
  BY <1>1, FS_Surjection
<1>3. ASSUME NEW b \in B
      PROVE  IsFiniteSet({b} \X (1..Size[b[2]]))
  <2>1. b[2] \in Variants
    BY DEF Binaries
  <2>2. Size[b[2]] \in Int
    BY <2>1, StoreAssumption
  <2>3. IsFiniteSet(1..Size[b[2]])
    BY <2>2, FS_Interval
  <2>4. IsFiniteSet({b})
    BY FS_Singleton
  <2> QED
    BY <2>3, <2>4, FS_Product
<1>4. \A C \in T : IsFiniteSet(C)
  BY <1>3
<1>5. IsFiniteSet(UNION T)
  BY <1>2, <1>4, FS_UNION
<1> QED
  BY <1>5 DEF Content

LEMMA BytesType ==
  ASSUME NEW B \in SUBSET Binaries, IsFiniteSet(B)
  PROVE  Bytes(B) \in Nat
  BY ContentFinite, FS_CardinalityType DEF Bytes, Content

\* A part takes no more than the whole, and the rest takes the difference.
LEMMA BytesOfPart ==
  ASSUME NEW B \in SUBSET Binaries, IsFiniteSet(B), NEW A \in SUBSET B
  PROVE  /\ Bytes(A) <= Bytes(B)
         /\ Bytes(B \ A) = Bytes(B) - Bytes(A)
<1>1. IsFiniteSet(Content(B))
  BY ContentFinite
<1>2. Content(A) \subseteq Content(B)
  BY DEF Content
<1>3. Content(B \ A) = Content(B) \ Content(A)
  BY DEF Content
<1>4. Content(B) \cap Content(A) = Content(A)
  BY <1>2
<1>5. Cardinality(Content(A)) <= Cardinality(Content(B))
  BY <1>1, <1>2, FS_Subset
<1>6. Cardinality(Content(B) \ Content(A)) = Cardinality(Content(B)) - Cardinality(Content(A))
  BY <1>1, <1>4, FS_Difference
<1> QED
  BY <1>3, <1>5, <1>6 DEF Bytes, Content

-----------------------------------------------------------------------------
(* What the loop of enforce_budget takes *)

\* The sorted listing holds every binary once.
LEMMA SortingListsAll ==
  ASSUME NEW B, IsFiniteSet(B), NEW s \in SetToSeqs(B)
  PROVE  /\ DOMAIN s = 1..Cardinality(B) /\ Cardinality(B) \in Nat
         /\ \A m \in DOMAIN s : s[m] \in B
         /\ \A m, n \in DOMAIN s : m # n => s[m] # s[n]
         /\ \A b \in B : \E m \in DOMAIN s : s[m] = b
<1>1. /\ Cardinality(B) \in Nat /\ s \in [1..Cardinality(B) -> B]
      /\ \A m, n \in 1..Cardinality(B) : m # n => s[m] # s[n]
  BY FS_CardinalityType DEF SetToSeqs
<1>2. s \in Injection(1..Cardinality(B), B)
  BY <1>1 DEF Injection, IsInjective
<1>3. Cardinality(1..Cardinality(B)) = Cardinality(B)
  BY <1>1, FS_Interval
<1>4. s \in Surjection(1..Cardinality(B), B)
  BY <1>2, <1>3, FS_Injection
<1> QED
  BY <1>1, <1>4 DEF Surjection

LEMMA BudgetLoop ==
  ASSUME NEW B \in SUBSET Binaries, IsFiniteSet(B), NEW order \in Sortings(B), NEW keep,
         Budget \in Nat, \A b \in B : bins[b] \in Nat
  PROVE  LET E == Evicted(order, keep)
             L == B \ E
         IN  /\ E \subseteq B /\ \A b \in E : b[1] \notin keep
             /\ Bytes(L) <= Budget \/ \A b \in L : b[1] \in keep
             /\ \A b \in E, c \in L : c[1] \notin keep => bins[b] <= bins[c]
             /\ E # {} => \E b \in E : /\ \A c \in E : bins[c] <= bins[b]
                                       /\ Bytes(L \cup {b}) > Budget
<1> DEFINE E == Evicted(order, keep)
           L == B \ E
           FB(k) == FreeBefore(order, keep, k)
           N == Cardinality(B)
<1>0. order \in SetToSeqs(B) /\ \A m, n \in DOMAIN order : m < n => bins[order[m]] <= bins[order[n]]
  BY DEF Sortings
<1>1. /\ DOMAIN order = 1..N /\ N \in Nat
      /\ \A m \in 1..N : order[m] \in B
      /\ \A m, n \in 1..N : m # n => order[m] # order[n]
      /\ \A b \in B : \E m \in 1..N : order[m] = b
  BY <1>0, SortingListsAll
<1>2. Range(order) = B
  BY <1>1 DEF Range
<1>3. ASSUME NEW k \in 1..N
      PROVE  order[k] \in E <=> order[k][1] \notin keep /\ Bytes(B) - Bytes(FB(k)) > Budget
  BY <1>1, <1>2 DEF Evicted
<1>4. \A b \in E : \E k \in 1..N : b = order[k] /\ order[k][1] \notin keep
  BY <1>1 DEF Evicted
<1>5. \A k \in 1..N : FB(k) \in SUBSET B
  BY <1>1 DEF FreeBefore
<1>6. \A k \in 1..N : \A A \in SUBSET B : IsFiniteSet(A) /\ A \in SUBSET Binaries /\ Bytes(A) \in Nat
  BY FS_Subset, BytesType
<1>7. E \subseteq B /\ \A b \in E : b[1] \notin keep
  BY <1>1, <1>4
<1>8. ASSUME NEW c \in L, c[1] \notin keep
      PROVE  Bytes(L) <= Budget
  <2> DEFINE K == {k \in 1..N : order[k] \in L /\ order[k][1] \notin keep}
  <2>1. K \in SUBSET Nat /\ K # {}
    BY <1>1, <1>8
  <2>2. PICK k \in K : \A m \in K : k <= m
    BY <2>1, Least
  <2>3. FB(k) \subseteq E
    <3> SUFFICES ASSUME NEW m \in 1..N, m < k, order[m][1] \notin keep
                 PROVE  order[m] \in E
      BY <1>1 DEF FreeBefore
    <3> QED
      BY <1>1, <2>2
  <2>4. L \in SUBSET (B \ FB(k))
    BY <2>3
  <2>5. Bytes(L) <= Bytes(B \ FB(k))
    BY <1>6, <2>2, <2>4, BytesOfPart
  <2>6. Bytes(B \ FB(k)) = Bytes(B) - Bytes(FB(k))
    BY <1>5, <2>2, BytesOfPart
  <2>7. ~(Bytes(B) - Bytes(FB(k)) > Budget)
    BY <1>3, <2>2
  <2> QED
    BY <1>5, <1>6, <2>2, <2>5, <2>6, <2>7
<1>9. ASSUME NEW b \in E, NEW c \in L, c[1] \notin keep
      PROVE  bins[b] <= bins[c]
  <2>1. PICK m \in 1..N : b = order[m] /\ order[m][1] \notin keep
    BY <1>4
  <2>2. PICK n \in 1..N : c = order[n]
    BY <1>1
  <2>3. m # n
    BY <2>1, <2>2
  <2>4. ASSUME n < m PROVE FALSE
    <3>1. FB(n) \in SUBSET FB(m)
      BY <2>4, <1>1 DEF FreeBefore
    <3>2. Bytes(FB(n)) <= Bytes(FB(m))
      BY <3>1, <1>5, <1>6, BytesOfPart
    <3>3. Bytes(B) - Bytes(FB(m)) > Budget /\ ~(Bytes(B) - Bytes(FB(n)) > Budget)
      BY <1>3, <1>9, <2>1, <2>2
    <3>4. Bytes(B) \in Nat /\ Bytes(FB(m)) \in Nat /\ Bytes(FB(n)) \in Nat
      BY <1>5, <1>6
    <3> QED
      BY <3>2, <3>3, <3>4
  <2> QED
    BY <1>0, <1>1, <2>1, <2>2, <2>3, <2>4
<1>10. ASSUME E # {}
       PROVE  \E b \in E : (\A c \in E : bins[c] <= bins[b]) /\ Bytes(L \cup {b}) > Budget
  <2> DEFINE K == {k \in 1..N : order[k] \in E}
  <2>1. K \in SUBSET (1..N) /\ K # {}
    BY <1>4, <1>10
  <2>2. PICK k \in K : \A m \in K : m <= k
    BY <1>1, <2>1, Greatest
  <2>3. B \ FB(k) \in SUBSET (L \cup {order[k]})
    <3> SUFFICES ASSUME NEW x \in E, x # order[k]
                 PROVE  x \in FB(k)
      OBVIOUS
    <3>1. PICK m \in 1..N : x = order[m] /\ order[m][1] \notin keep
      BY <1>4
    <3>2. m < k
      BY <2>2, <3>1
    <3> QED
      BY <1>1, <3>1, <3>2 DEF FreeBefore
  <2>4. Bytes(B \ FB(k)) <= Bytes(L \cup {order[k]})
    BY <1>1, <1>6, <2>2, <2>3, BytesOfPart
  <2>5. Bytes(B \ FB(k)) = Bytes(B) - Bytes(FB(k))
    BY <1>5, <2>2, BytesOfPart
  <2>6. Bytes(B) - Bytes(FB(k)) > Budget
    BY <1>3, <2>2
  <2>7. L \cup {order[k]} \in SUBSET B
    BY <1>1, <2>2
  <2>8. Bytes(B) \in Nat /\ Bytes(FB(k)) \in Nat /\ Bytes(L \cup {order[k]}) \in Nat
    BY <1>5, <1>6, <2>2, <2>7
  <2>9. Bytes(L \cup {order[k]}) > Budget
    BY <2>4, <2>5, <2>6, <2>8
  <2>10. order[k] \in E
    BY <2>2
  <2>11. ASSUME NEW c \in E PROVE bins[c] <= bins[order[k]]
    <3>1. PICK m \in 1..N : c = order[m]
      BY <1>4
    <3>2. m <= k
      BY <2>2, <3>1
    <3>3. bins[order[k]] \in Nat
      BY <1>1, <2>2
    <3> QED
      BY <1>0, <1>1, <2>2, <3>1, <3>2, <3>3
  <2> QED
    BY <2>9, <2>10, <2>11
<1> QED
  BY <1>7, <1>8, <1>9, <1>10

-----------------------------------------------------------------------------
(* The directory of the server *)

\* The inductive invariant: only finitely many binaries, each with a time.
StoreInv ==
  /\ bins \in [Binaries -> Nat]
  /\ IsFiniteSet(OnDisk)
  /\ now \in Nat \ {0}

\* Deleting leaves the rest as it is.
LEMMA Unlinking ==
  ASSUME StoreInv, NEW B, bins' = Without(B)
  PROVE  /\ bins' \in [Binaries -> Nat]
         /\ \A b \in Binaries : bins'[b] = IF b \in B THEN 0 ELSE bins[b]
         /\ OnDisk' = OnDisk \ B
<1>1. /\ bins' \in [Binaries -> Nat]
      /\ \A b \in Binaries : bins'[b] = IF b \in B THEN 0 ELSE bins[b]
  BY DEF StoreInv, Without
<1> QED
  BY <1>1 DEF OnDisk

LEMMA UnlinkingStep ==
  ASSUME StoreInv, NEW B, bins' = Without(B), now' = now
  PROVE  StoreInv'
<1>1. bins' \in [Binaries -> Nat] /\ OnDisk' = OnDisk \ B
  BY Unlinking
<1>2. IsFiniteSet(OnDisk \ B)
  BY FS_Difference DEF StoreInv
<1> QED
  BY <1>1, <1>2 DEF StoreInv

LEMMA NextStoreInv ==
  ASSUME StoreInv, [StoreNext]_storeVars
  PROVE  StoreInv'
<1>1. ASSUME UNCHANGED <<bins, now>>
      PROVE  StoreInv'
  BY <1>1 DEF StoreInv, OnDisk
<1>2. ASSUME NEW j \in Jobs, NEW v \in Variants, Upload(j, v)
      PROVE  StoreInv'
  <2>1. now' = now /\ bins' = [bins EXCEPT ![<<j, v>>] = now] /\ <<j, v>> \in Binaries
    BY <1>2 DEF Upload, Binaries
  <2>2. bins' \in [Binaries -> Nat]
    BY <2>1 DEF StoreInv
  <2>3. OnDisk' \in SUBSET (OnDisk \cup {<<j, v>>})
    BY <2>1 DEF StoreInv, OnDisk
  <2>4. IsFiniteSet(OnDisk \cup {<<j, v>>})
    BY FS_AddElement DEF StoreInv
  <2>5. IsFiniteSet(OnDisk')
    BY <2>3, <2>4, FS_Subset
  <2> QED
    BY <2>1, <2>2, <2>5 DEF StoreInv
<1>3. ASSUME NEW j \in Jobs, Refuse(j)
      PROVE  StoreInv'
  BY <1>3, UnlinkingStep DEF Refuse
<1>4. ASSUME NEW j \in Jobs, NEW caller, Leave(j, caller)
      PROVE  StoreInv'
  <2>1. now' = now /\ (bins' = bins \/ bins' = Without(OfJob(j)))
    BY <1>4 DEF Leave
  <2> QED
    BY <1>1, <2>1, UnlinkingStep
<1>5. CASE Reconcile
  BY <1>5, UnlinkingStep DEF Reconcile
<1>6. CASE Enforce
  <2>1. now' = now /\ \E B : bins' = Without(B)
    BY <1>6 DEF Enforce
  <2> QED
    BY <2>1, UnlinkingStep
<1>7. ASSUME NEW n, Forget(n)
      PROVE  StoreInv'
  <2>1. now' = now /\ \E B : bins' = Without(B)
    BY <1>7 DEF Forget
  <2> QED
    BY <2>1, UnlinkingStep
<1>8. CASE Tick
  BY <1>8 DEF Tick, StoreInv, OnDisk
<1>9. ASSUME NEW j \in Jobs, Start(j) \/ End(j)
      PROVE  StoreInv'
  BY <1>1, <1>9 DEF Start, End
<1> QED
  BY <1>1, <1>2, <1>3, <1>4, <1>5, <1>6, <1>7, <1>8, <1>9 DEF StoreNext, storeVars

\* The inductive invariant of the directory.
THEOREM StoreInvariant == StoreSpec => []StoreInv
<1>1. ASSUME StoreInit PROVE StoreInv
  <2>1. bins = [b \in Binaries |-> 0] /\ now = 1
    BY <1>1 DEF StoreInit
  <2>2. OnDisk = {}
    BY <2>1 DEF OnDisk
  <2> QED
    BY <2>1, <2>2, FS_EmptySet DEF StoreInv
<1>2. StoreInv /\ [StoreNext]_storeVars => StoreInv'
  BY NextStoreInv
<1> QED
  BY <1>1, <1>2, PTL DEF StoreSpec

\* What a round of the enforcer leaves of the directory, with or without a budget.
LEMMA EnforceEffect ==
  ASSUME StoreInv, Enforce
  PROVE  LET gone == {b \in OnDisk : bins'[b] = 0}
             kept == {b \in OnDisk : bins'[b] # 0}
             lost == gone \ Expired(Announced)
             keep == Announced \cup Scan
         IN  /\ \A b \in gone : b[1] \notin Announced
             /\ Budget > 0 => Bytes(kept) <= Budget \/ \A b \in kept : b[1] \in keep
             /\ \A b \in gone, c \in kept : c[1] \notin keep => bins[b] <= bins[c]
             /\ lost # {} => \E b \in lost : /\ \A c \in lost : bins[c] <= bins[b]
                                           /\ Bytes(kept \cup {b}) > Budget
<1> DEFINE gone == {b \in OnDisk : bins'[b] = 0}
           kept == {b \in OnDisk : bins'[b] # 0}
           keep == Announced \cup Scan
           old  == Expired(Announced)
           rest == OnDisk \ old
<1> HIDE DEF keep
<1>1. Budget \in Nat /\ MaxAge \in Nat
  BY StoreAssumption
<1>2. /\ rest \in SUBSET Binaries /\ IsFiniteSet(rest)
      /\ old \subseteq OnDisk
      /\ \A b \in OnDisk : bins[b] \in Nat /\ bins[b] # 0 /\ b \in Binaries
  BY FS_Difference DEF StoreInv, OnDisk, Expired
<1>3. /\ \A b \in old : b[1] \notin Announced
      /\ \A b \in old, c \in rest : c[1] \notin keep => bins[b] <= bins[c]
  BY <1>1, <1>2 DEF Expired, keep, StoreInv
<1>4. ASSUME NEW E \in SUBSET rest, bins' = Without(old \cup E)
      PROVE  gone = old \cup E /\ kept = rest \ E
  <2>1. \A b \in OnDisk : bins'[b] = IF b \in old \cup E THEN 0 ELSE bins[b]
    BY <1>2, <1>4, Unlinking
  <2> QED
    BY <1>2, <2>1
<1>5. CASE Budget = 0
  <2>1. bins' = Without(old \cup {})
    BY <1>5 DEF Enforce
  <2>2. {} \in SUBSET rest
    OBVIOUS
  <2>3. gone = old \cup {} /\ kept = rest \ {}
    BY <1>4, <2>1, <2>2
  <2>4. gone \ old = {} /\ ~(Budget > 0)
    BY <1>1, <1>5, <2>3
  <2>5. /\ \A b \in gone : b[1] \notin Announced
        /\ \A b \in gone, c \in kept : c[1] \notin keep => bins[b] <= bins[c]
    BY <1>3, <2>3
  <2> QED
    BY <2>4, <2>5 DEF keep
<1>6. CASE Budget # 0
  <2>1. PICK order \in Sortings(rest) : bins' = Without(old \cup Evicted(order, keep))
    BY <1>6 DEF Enforce, keep
  <2> DEFINE E == Evicted(order, keep)
  <2>2. /\ E \in SUBSET rest /\ \A b \in E : b[1] \notin keep
        /\ Bytes(rest \ E) <= Budget \/ \A b \in rest \ E : b[1] \in keep
        /\ \A b \in E, c \in rest \ E : c[1] \notin keep => bins[b] <= bins[c]
        /\ E # {} => \E b \in E : /\ \A c \in E : bins[c] <= bins[b]
                                  /\ Bytes((rest \ E) \cup {b}) > Budget
    BY <1>1, <1>2, BudgetLoop
  <2>3. gone = old \cup E /\ kept = rest \ E
    BY <1>4, <2>1, <2>2
  <2> HIDE DEF E
  <2>4. gone \ old = E
    BY <2>2, <2>3
  <2>5. \A b \in gone : b[1] \notin Announced
    BY <1>3, <2>2, <2>3 DEF keep
  <2>6. \A b \in gone, c \in kept : c[1] \notin keep => bins[b] <= bins[c]
    BY <1>3, <2>2, <2>3
  <2> QED
    BY <2>2, <2>3, <2>4, <2>5, <2>6 DEF keep
<1> QED
  BY <1>5, <1>6

\* For any sizes, any budget and any history: after a round of the enforcer what is
\* left fits the budget, unless all of it belongs to jobs the round had to keep.
THEOREM RoundMeetsBudget == StoreSpec => BudgetHolds
<1>1. ASSUME StoreInv, Enforce, Budget > 0
      PROVE  \/ Bytes({b \in OnDisk : bins'[b] # 0}) <= Budget
             \/ \A b \in OnDisk : bins'[b] # 0 => b[1] \in Announced \cup Scan
  BY <1>1, EnforceEffect
<1>2. StoreInv /\ [StoreNext]_storeVars
      => [Enforce /\ Budget > 0
          => \/ Bytes({b \in OnDisk : bins'[b] # 0}) <= Budget
             \/ \A b \in OnDisk : bins'[b] # 0 => b[1] \in Announced \cup Scan]_storeVars
  BY <1>1
<1> QED
  BY <1>2, StoreInvariant, PTL DEF StoreSpec, BudgetHolds

\* A round deletes nothing a row of the queue announces, nothing newer than what
\* stays although it might have gone, and for the budget no more than it must:
\* with the newest of what it cost the directory would be too large.
THEOREM RoundEvictsOldest == StoreSpec => EvictsOldestAsNeeded
<1>1. StoreInv /\ [StoreNext]_storeVars
      => [Enforce =>
           LET gone == {b \in OnDisk : bins'[b] = 0}
               kept == {b \in OnDisk : bins'[b] # 0}
               lost == gone \ Expired(Announced)
           IN  /\ \A b \in gone : b[1] \notin Announced
               /\ \A b \in gone, c \in kept :
                    c[1] \notin Announced \cup Scan => bins[b] <= bins[c]
               /\ lost # {} => \E b \in lost : /\ \A c \in lost : bins[c] <= bins[b]
                                             /\ Bytes(kept \cup {b}) > Budget]_storeVars
  BY EnforceEffect
<1> QED
  BY <1>1, StoreInvariant, PTL DEF StoreSpec, EvictsOldestAsNeeded

=============================================================================
