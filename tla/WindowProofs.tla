---------------------------- MODULE WindowProofs ----------------------------
(* Proofs about JobRows, LogViewer and HistoryBrowser: what a row of the      *)
(* queue is called, which log a window shows and hands over, and what the     *)
(* windows on the compile history list while that changes.  The theorems hold *)
(* for any jobs, downloads, devices, page size and bounds.                    *)
EXTENDS LogViewer, HistoryBrowser, FiniteSetTheorems, TLAPS

-----------------------------------------------------------------------------
(* The rows of the queue. *)

\* A row of the queue is in progress, successful, failed or cancelled, and never
\* two of these: no job of jobState.ts is left without a class, which is what
\* the Clear, Cancel and Rerun buttons rely on.
THEOREM RowsPartition ==
  ASSUME NEW row \in JobStatusLike
  PROVE  /\ isJobInProgress(row) \/ isJobSuccessful(row) \/ isJobFailed(row) \/ isJobCancelled(row)
         /\ ~(isJobInProgress(row) /\ isJobSuccessful(row))
         /\ ~(isJobInProgress(row) /\ isJobFailed(row))
         /\ ~(isJobInProgress(row) /\ isJobCancelled(row))
         /\ ~(isJobSuccessful(row) /\ isJobFailed(row))
         /\ ~(isJobSuccessful(row) /\ isJobCancelled(row))
         /\ ~(isJobFailed(row) /\ isJobCancelled(row))
<1>1. row.state \in States /\ row.ota \in OtaResults /\ row.download_only \in BOOLEAN
  BY DEF JobStatusLike
<1>2. isJobCancelled(row) => ~isJobInProgress(row) /\ ~isJobSuccessful(row)
  BY DEF isJobCancelled, isJobInProgress, isJobSuccessful
<1>3. ~(isJobInProgress(row) /\ isJobSuccessful(row))
  BY DEF isJobInProgress, isJobSuccessful
<1> QED
  BY <1>2, <1>3 DEF isJobFailed, isJobCancelled

\* The colour a listed job shows in the Queue tab is the class its buttons go
\* by: green exactly for a successful job, red or orange for a failed one,
\* grey, blue or rose while it runs; the exception is a flash tried again,
\* which waits in orange.
THEOREM BadgeAgrees ==
  ASSUME NEW row \in Job, Listed(row)
  PROVE  /\ getJobBadge(row) = "success" <=> isJobSuccessful(row)
         /\ getJobBadge(row) = "cancelled" <=> isJobCancelled(row)
         /\ isJobFailed(row) => getJobBadge(row) \in {"failed", "timed_out"}
         /\ isJobInProgress(row) =>
              \/ getJobBadge(row) \in {"pending", "working", "blocked"}
              \/ getJobBadge(row) = "timed_out" /\ row.ota_only /\ row.state = "pending"
<1>1. /\ row.state \in States /\ row.ota \in OtaResults
      /\ row.download_only \in BOOLEAN /\ row.server_ota \in BOOLEAN
      /\ row.ota_only \in BOOLEAN /\ row.validate_only \in BOOLEAN
  BY DEF Job
<1>2. CASE row.state = "pending"
  <2>1. getJobBadge(row) \in {"pending", "timed_out"}
    BY <1>2 DEF getJobBadge
  <2>2. getJobBadge(row) = "timed_out" => row.ota_only
    BY <1>2 DEF getJobBadge
  <2> QED
    BY <1>2, <2>1, <2>2 DEF isJobSuccessful, isJobCancelled, isJobFailed, isJobInProgress
<1>3. CASE row.state = "success"
  <2>1. CASE row.download_only
    <3>1. getJobBadge(row) = "success"
      BY <1>1, <1>3, <2>1 DEF getJobBadge, Listed
    <3> QED
      BY <1>3, <2>1, <3>1 DEF isJobSuccessful, isJobCancelled, isJobFailed, isJobInProgress
  <2>2. CASE ~row.download_only
    <3>1. getJobBadge(row) = IF row.ota = "success" THEN "success"
                             ELSE IF row.ota = "failed" THEN "timed_out"
                             ELSE "working"
      BY <1>1, <1>3, <2>2 DEF getJobBadge, Listed
    <3>2. row.ota \in {"none", "success", "failed"}
      BY <1>1 DEF OtaResults
    <3> QED
      BY <1>3, <2>2, <3>1, <3>2 DEF isJobSuccessful, isJobCancelled, isJobFailed, isJobInProgress
  <2> QED
    BY <2>1, <2>2
<1>4. CASE row.state \notin {"pending", "success"}
  <2>1. getJobBadge(row) = row.state
    BY <1>4 DEF getJobBadge
  <2>2. row.state \in {"working", "blocked", "failed", "timed_out", "cancelled"}
    BY <1>1, <1>4 DEF States
  <2> QED
    BY <2>1, <2>2 DEF isJobSuccessful, isJobCancelled, isJobFailed, isJobInProgress
<1> QED
  BY <1>2, <1>3, <1>4

-----------------------------------------------------------------------------
(* The inductive invariant. What the window shows and how its sockets and     *)
(* polls go on has no part in it.                                             *)

JobStates == {"new", "gone", "pending", "working", "success", "failed"}
OpenWays == {"finished", "running"}
Watch == [job : Jobs \cup {None}, saw : BOOLEAN]

\* A job that has nothing more to do: it never runs again under its id.
Over(j, row) ==
  \/ row.state \in {"failed", "gone"}
  \/ row.state = "success" /\ (j \in Downloads \/ row.ota # "none")

JobsOK ==
  /\ job \in [Jobs -> [state : JobStates, ota : OtaResults, log : Int]]
  /\ view \in [Jobs -> [state : JobStates, ota : OtaResults]]
  /\ \A j \in Jobs : job[j].ota # "none" => job[j].state = "success"

\* What the page has read of a job stays true of it, or the job is gone.
ViewOK ==
  \A j \in Jobs :
    /\ Over(j, view[j]) => Over(j, job[j])
    /\ view[j].state = "success" /\ view[j].ota = "success" =>
         job[j].ota = "success" \/ job[j].state = "gone"

\* The watch is on the job whose log is open; one opened after the end was
\* never seen running.
WatchOK ==
  /\ log \in Sources \cup {None} /\ opens.how \in OpenWays /\ watch \in Watch
  /\ log \notin Jobs => watch = NoWatch
  /\ log \in Jobs => watch.job = log
  /\ log \in Jobs /\ opens.how = "finished" => Over(log, view[log]) /\ ~watch.saw

LiveOK == live.target = None => ~live.boot

LInv == JobsOK /\ ViewOK /\ WatchOK /\ LiveOK

-----------------------------------------------------------------------------
(* Rows. *)

LEMMA RowFacts ==
  ASSUME JobsOK, NEW j \in Jobs
  PROVE  /\ job[j] \in [state : JobStates, ota : OtaResults, log : Int]
         /\ view[j] \in [state : JobStates, ota : OtaResults]
         /\ Row(j) \in [state : JobStates, ota : OtaResults]
         /\ Row(j).state = job[j].state /\ Row(j).ota = job[j].ota
  BY DEF JobsOK, Row

\* A job that is over is not running, and one that is shown and not waiting is one of the two.
LEMMA OverOrRunning ==
  ASSUME NEW j \in Jobs, NEW row \in [state : JobStates, ota : OtaResults]
  PROVE  /\ Over(j, row) => ~Running(j, row)
         /\ Present(row) /\ ~Running(j, row) => Over(j, row)
<1>1. PICK d : d = (j \in Downloads)
  OBVIOUS
<1>2. Running(j, row) = isJobInProgress([state |-> row.state, ota |-> row.ota, download_only |-> d])
  BY <1>1 DEF Running
<1>3. row.state \in JobStates /\ row.ota \in {"none", "success", "failed"}
  BY DEF OtaResults
<1>4. Running(j, row) <=>
        \/ row.state \in {"pending", "working", "blocked"}
        \/ row.state = "success" /\ ~d /\ row.ota \notin {"success", "failed"}
  BY <1>2 DEF isJobInProgress
<1> QED
  BY <1>1, <1>3, <1>4 DEF Over, Present, JobStates

\* A log is handed over only when the job was seen running before.
LEMMA HandsOverFacts ==
  ASSUME NEW src, NEW v, NEW w, NEW ed, HandsOver(src, v, Watched(src, v, w), ed),
         src \in Jobs => v[src] \in [state : JobStates, ota : OtaResults],
         w \in Watch
  PROVE  /\ src \in Jobs \ Downloads /\ w.job = src /\ w.saw /\ ~ed
         /\ v[src].state = "success" /\ v[src].ota = "success"
<1>1. /\ src \in Jobs \ Downloads /\ Watched(src, v, w).saw /\ ~ed
      /\ v[src].state = "success" /\ v[src].ota = "success"
  BY DEF HandsOver
<1>2. Over(src, v[src]) /\ Present(v[src])
  BY <1>1 DEF Over, Present
<1>3. ~Running(src, v[src])
  BY <1>1, <1>2, OverOrRunning
<1>4. PICK own : own = IF w.job = src THEN w ELSE [job |-> src, saw |-> FALSE]
  OBVIOUS
<1>5. Watched(src, v, w) = [own EXCEPT !.saw = @ \/ Running(src, v[src])]
  BY <1>1, <1>2, <1>4 DEF Watched
<1>6. own.saw
  <2>1. own \in Watch
    BY <1>1, <1>4 DEF Watch
  <2> QED
    BY <1>1, <1>3, <1>5, <2>1 DEF Watch
<1> QED
  BY <1>1, <1>4, <1>6

\* The watch after a render.
LEMMA WatchedFacts ==
  ASSUME NEW src \in Sources \cup {None}, NEW v, NEW w \in Watch,
         src \in Jobs => v[src] \in [state : JobStates, ota : OtaResults],
         src \in Jobs => Present(v[src]) \/ w.job = src
  PROVE  LET s == Watched(src, v, w)
         IN /\ s \in Watch
            /\ src \notin Jobs => s = NoWatch
            /\ src \in Jobs => s.job = src
            /\ src \in Jobs /\ Over(src, v[src]) /\ (w.job = src => ~w.saw) => ~s.saw
<1>1. CASE src \notin Jobs
  BY <1>1 DEF Watched, NoWatch, Watch
<1>2. CASE src \in Jobs /\ ~Present(v[src])
  BY <1>2 DEF Watched
<1>3. CASE src \in Jobs /\ Present(v[src])
  <2>1. PICK own : own = IF w.job = src THEN w ELSE [job |-> src, saw |-> FALSE]
    OBVIOUS
  <2>2. own \in Watch /\ own.job = src /\ ((w.job = src => ~w.saw) => ~own.saw)
    BY <1>3, <2>1 DEF Watch
  <2>3. PICK b : b = (own.saw \/ Running(src, v[src]))
    OBVIOUS
  <2>4. b \in BOOLEAN /\ (Over(src, v[src]) /\ ~own.saw => ~b)
    BY <1>3, <2>3, OverOrRunning
  <2>5. Watched(src, v, w) = [own EXCEPT !.saw = b]
    BY <1>3, <2>1, <2>3 DEF Watched
  <2> QED
    BY <1>3, <2>2, <2>4, <2>5 DEF Watch
<1> QED
  BY <1>1, <1>2, <1>3

\* A render that knows what the invariant says keeps it, and hands a log over
\* only when that was earned.
LEMMA RenderStep ==
  ASSUME JobsOK', ViewOK', opens'.how \in OpenWays,
         NEW src \in Sources \cup {None}, NEW w \in Watch, NEW ed, NEW lv,
         lv.target = None => ~lv.boot,
         src \in Jobs => Present(view'[src]) \/ w.job = src,
         src \in Jobs /\ opens'.how = "finished" => Over(src, view'[src]) /\ (w.job = src => ~w.saw),
         Render(src, view', w, ed, lv)
  PROVE  /\ LInv'
         /\ \/ live' = lv
            \/ /\ src \in Jobs \ Downloads /\ live'.target = src /\ w.job = src /\ w.saw /\ ~ed
               /\ opens'.how = "running"
               /\ job'[src].ota = "success" \/ job'[src].state = "gone"
<1>1. src \in Jobs => view'[src] \in [state : JobStates, ota : OtaResults]
  BY DEF JobsOK
<1>2. PICK s : s = Watched(src, view', w)
  OBVIOUS
<1>3. /\ s \in Watch
      /\ src \notin Jobs => s = NoWatch
      /\ src \in Jobs => s.job = src
      /\ src \in Jobs /\ opens'.how = "finished" => ~s.saw
  BY <1>1, <1>2, WatchedFacts
<1>4. CASE HandsOver(src, view', s, ed)
  <2>1. log' = None /\ watch' = NoWatch /\ live' = [target |-> src, boot |-> TRUE, conn |-> "connecting"]
    BY <1>2, <1>4 DEF Render
  <2>2. /\ src \in Jobs \ Downloads /\ w.job = src /\ w.saw /\ ~ed
        /\ view'[src].state = "success" /\ view'[src].ota = "success"
    BY <1>1, <1>2, <1>4, HandsOverFacts
  <2>3. s.saw
    BY <1>4 DEF HandsOver
  <2>4. opens'.how = "running"
    BY <1>3, <2>2, <2>3 DEF OpenWays
  <2>5. job'[src].ota = "success" \/ job'[src].state = "gone"
    BY <2>2 DEF ViewOK
  <2>6. None \notin Jobs /\ src # None
    BY <2>2, LogAssumption
  <2>7. WatchOK' /\ LiveOK'
    BY <2>1, <2>4, <2>6 DEF WatchOK, LiveOK, NoWatch, Watch, OpenWays
  <2> QED
    BY <2>1, <2>2, <2>4, <2>5, <2>7 DEF LInv
<1>5. CASE ~HandsOver(src, view', s, ed)
  <2>1. log' = src /\ watch' = s /\ live' = lv
    BY <1>2, <1>5 DEF Render
  <2>2. WatchOK' /\ LiveOK'
    BY <1>3, <2>1 DEF WatchOK, LiveOK
  <2> QED
    BY <2>1, <2>2 DEF LInv
<1> QED
  BY <1>4, <1>5

-----------------------------------------------------------------------------
(* The steps. *)

\* What HandOverEarned says of a step.
Earned ==
  live'.boot /\ live'.target # live.target =>
    /\ log \in Jobs \ Downloads /\ live'.target = log
    /\ opens.how = "running" /\ ~editor'
    /\ job[log].ota = "success" \/ job[log].state = "gone"

\* One job of the queue changes: what is over stays over.
LEMMA JobStep ==
  ASSUME LInv, NEW j \in Jobs, NEW r \in [state : JobStates, ota : OtaResults, log : Int],
         job' = [job EXCEPT ![j] = r], Over(j, job[j]) => Over(j, r),
         job[j].ota = "success" \/ job[j].state = "gone" => r.ota = "success" \/ r.state = "gone",
         r.ota # "none" => r.state = "success",
         UNCHANGED <<view, log, watch, live, opens>>
  PROVE  LInv' /\ Earned
<1>1. JobsOK'
  BY DEF LInv, JobsOK
<1>2. ViewOK'
  BY DEF LInv, JobsOK, ViewOK
<1>3. WatchOK' /\ LiveOK'
  BY DEF LInv, WatchOK, LiveOK
<1> QED
  BY <1>1, <1>2, <1>3 DEF LInv, Earned

LEMMA ServerStep ==
  ASSUME LInv, NEW j \in Jobs,
         Start(j) \/ append_log(j) \/ Finish(j) \/ OtaEnds(j) \/ RemoveJob(j)
  PROVE  LInv' /\ Earned
<1>0. /\ job[j] \in [state : JobStates, ota : OtaResults, log : Int] /\ MaxLines \in Int
      /\ DOMAIN job = Jobs /\ (job[j].ota # "none" => job[j].state = "success")
  BY RowFacts, LogAssumption DEF LInv, JobsOK
<1>1. CASE Start(j)
  <2>1. PICK r : r = [job[j] EXCEPT !.state = "working"]
    OBVIOUS
  <2>2. /\ r \in [state : JobStates, ota : OtaResults, log : Int] /\ r.ota = job[j].ota
        /\ job[j].state = "pending"
    BY <1>0, <1>1, <2>1 DEF Start, JobStates
  <2>3. job' = [job EXCEPT ![j] = r] /\ UNCHANGED <<view, log, watch, live, opens>>
    BY <1>1, <2>1 DEF Start
  <2> QED
    BY <1>0, <2>2, <2>3, JobStep DEF Over
<1>2. CASE append_log(j)
  <2>1. PICK r : r = [job[j] EXCEPT !.log = @ + 1]
    OBVIOUS
  <2>2. /\ r \in [state : JobStates, ota : OtaResults, log : Int] /\ r.ota = job[j].ota
        /\ r.state = job[j].state
    BY <1>0, <2>1
  <2>3. job' = [job EXCEPT ![j] = r] /\ UNCHANGED <<view, log, watch, live, opens>>
    BY <1>2, <2>1 DEF append_log
  <2> QED
    BY <1>0, <2>2, <2>3, JobStep DEF Over
<1>3. CASE Finish(j)
  <2>1. PICK st \in {"success", "failed"}, ota \in OtaResults, n \in {job[j].log, MaxLines - 1} :
          (ota # "none" => st = "success") /\ job' = [job EXCEPT ![j] = [state |-> st, ota |-> ota, log |-> n]]
    BY <1>3 DEF Finish
  <2>2. PICK r : r = [state |-> st, ota |-> ota, log |-> n]
    OBVIOUS
  <2>3. /\ r \in [state : JobStates, ota : OtaResults, log : Int] /\ job[j].state = "working"
        /\ UNCHANGED <<view, log, watch, live, opens>>
    BY <1>0, <1>3, <2>1, <2>2 DEF Finish, JobStates
  <2> QED
    BY <1>0, <2>1, <2>2, <2>3, JobStep DEF Over
<1>4. CASE OtaEnds(j)
  <2>1. PICK ota \in {"success", "failed"} :
          job' = [job EXCEPT ![j].ota = ota, ![j].log = MaxLines]
    BY <1>4 DEF OtaEnds
  <2>2. PICK r : r = [job[j] EXCEPT !.ota = ota, !.log = MaxLines]
    OBVIOUS
  <2>3. /\ r \in [state : JobStates, ota : OtaResults, log : Int] /\ r.ota = ota
        /\ r.state = job[j].state /\ job[j].state = "success" /\ job[j].ota = "none"
        /\ UNCHANGED <<view, log, watch, live, opens>>
    BY <1>0, <1>4, <2>1, <2>2 DEF OtaEnds, OtaResults
  <2>4. job' = [job EXCEPT ![j] = r]
    BY <1>0, <2>1, <2>2
  <2>5. /\ Over(j, r) /\ job[j].ota # "success" /\ job[j].state # "gone"
        /\ r.ota # "none" => r.state = "success"
    BY <2>1, <2>3 DEF Over
  <2> QED
    BY <2>3, <2>4, <2>5, JobStep
<1>5. CASE RemoveJob(j)
  <2>1. PICK r : r = [state |-> "gone", ota |-> "none", log |-> 0]
    OBVIOUS
  <2>2. r \in [state : JobStates, ota : OtaResults, log : Int] /\ r.state = "gone" /\ r.ota = "none"
    BY <2>1 DEF JobStates, OtaResults
  <2>3. job' = [job EXCEPT ![j] = r] /\ UNCHANGED <<view, log, watch, live, opens>>
    BY <1>5, <2>1 DEF RemoveJob
  <2> QED
    BY <1>0, <2>2, <2>3, JobStep DEF Over
<1> QED
  BY <1>1, <1>2, <1>3, <1>4, <1>5

\* The page renders again, with what it knows.
LEMMA PageStep ==
  ASSUME LInv, Poll \/ CloseLog \/ EditFromLog \/ CloseEditor
  PROVE  LInv' /\ Earned
<1>0. /\ JobsOK /\ ViewOK /\ UNCHANGED <<job, opens>> /\ opens.how \in OpenWays /\ watch \in Watch
      /\ log \in Sources \cup {None} /\ None \in Sources \cup {None} /\ None \notin Jobs
      /\ live.target = None => ~live.boot
      /\ log \in Jobs => watch.job = log
      /\ log \in Jobs /\ opens.how = "finished" => Over(log, view[log]) /\ ~watch.saw
  BY LogAssumption DEF LInv, WatchOK, LiveOK, Poll, CloseLog, EditFromLog, CloseEditor
<1>1. CASE Poll
  <2>1. view' = Queue /\ UNCHANGED <<job, editor>> /\ Render(log, view', watch, editor, live)
    BY <1>1 DEF Poll
  <2>2. \A j \in Jobs : /\ view'[j] \in [state : JobStates, ota : OtaResults]
                        /\ view'[j].state = job[j].state /\ view'[j].ota = job[j].ota
    BY <1>0, <2>1, RowFacts DEF Queue
  <2>3. JobsOK' /\ ViewOK'
    <3>1. view' \in [Jobs -> [state : JobStates, ota : OtaResults]]
      BY <2>1, <2>2 DEF Queue
    <3> QED
      BY <1>0, <2>1, <2>2, <3>1 DEF JobsOK, ViewOK, Over
  <2>4. log \in Jobs /\ opens'.how = "finished" => Over(log, view'[log]) /\ (watch.job = log => ~watch.saw)
    BY <1>0, <2>2 DEF ViewOK, Over
  <2>5. /\ LInv'
        /\ \/ live' = live
           \/ /\ log \in Jobs \ Downloads /\ live'.target = log /\ ~editor
              /\ opens'.how = "running"
              /\ job'[log].ota = "success" \/ job'[log].state = "gone"
    BY <1>0, <2>1, <2>3, <2>4, RenderStep
  <2> QED
    BY <1>0, <2>1, <2>5 DEF Earned
<1>2. CASE CloseLog \/ EditFromLog
  <2>1. PICK ed : Render(None, view', watch, ed, live) /\ UNCHANGED view
    BY <1>2 DEF CloseLog, EditFromLog
  <2>2. JobsOK' /\ ViewOK'
    BY <1>0, <2>1 DEF JobsOK, ViewOK
  <2>3. LInv' /\ live' = live
    BY <1>0, <2>1, <2>2, RenderStep
  <2> QED
    BY <2>3 DEF Earned
<1>3. CASE CloseEditor
  <2>1. Render(log, view', watch, FALSE, live) /\ UNCHANGED view /\ editor' = FALSE
    BY <1>3 DEF CloseEditor
  <2>2. JobsOK' /\ ViewOK'
    BY <1>0, <2>1 DEF JobsOK, ViewOK
  <2>3. log \in Jobs /\ opens'.how = "finished" => Over(log, view'[log]) /\ (watch.job = log => ~watch.saw)
    BY <1>0, <2>1
  <2>4. /\ LInv'
        /\ \/ live' = live
           \/ /\ log \in Jobs \ Downloads /\ live'.target = log
              /\ opens'.how = "running"
              /\ job'[log].ota = "success" \/ job'[log].state = "gone"
    BY <1>0, <2>1, <2>2, <2>3, RenderStep
  <2> QED
    BY <1>0, <2>1, <2>4 DEF Earned
<1> QED
  BY <1>1, <1>2, <1>3

LEMMA OpenLogStep ==
  ASSUME LInv, NEW src \in Sources, OpenLog(src)
  PROVE  LInv' /\ Earned
<1>0. /\ JobsOK /\ ViewOK /\ UNCHANGED <<job, view>> /\ log = None /\ None \notin Jobs
      /\ watch \in Watch /\ watch = NoWatch /\ (live.target = None => ~live.boot)
      /\ opens' = Opened(IF src \in Jobs /\ ~Running(src, view[src]) THEN "finished" ELSE "running")
      /\ src \in Jobs => Present(view[src])
      /\ Render(src, view', watch, editor, live)
  BY LogAssumption DEF LInv, WatchOK, LiveOK, OpenLog, AtTabs
<1>1. opens'.how = IF src \in Jobs /\ ~Running(src, view[src]) THEN "finished" ELSE "running"
  BY <1>0 DEF Opened
<1>2. opens'.how \in OpenWays /\ watch.job = None
  BY <1>0, <1>1 DEF OpenWays, NoWatch
<1>3. JobsOK' /\ ViewOK'
  BY <1>0 DEF JobsOK, ViewOK
<1>4. src \in Jobs /\ opens'.how = "finished" => Over(src, view'[src]) /\ (watch.job = src => ~watch.saw)
  <2>1. src \in Jobs => view[src] \in [state : JobStates, ota : OtaResults]
    BY <1>0, RowFacts
  <2>2. src \in Jobs /\ opens'.how = "finished" => Over(src, view[src])
    BY <1>0, <1>1, <2>1, OverOrRunning
  <2> QED
    BY <1>0, <1>2, <2>2
<1>5. LInv' /\ live' = live
  BY <1>0, <1>2, <1>3, <1>4, RenderStep
<1> QED
  BY <1>5 DEF Earned

LEMMA UpgradeStep ==
  ASSUME LInv, NEW j \in Jobs, UpgradeConfirmed(j)
  PROVE  LInv' /\ Earned
<1>0. /\ JobsOK /\ ViewOK /\ job[j].state = "new" /\ opens' = Opened("running")
      /\ job' = [job EXCEPT ![j].state = "pending"] /\ view' = [Queue EXCEPT ![j].state = "pending"]
      /\ (live.target = None => ~live.boot)
      /\ Render(j, view', [job |-> j, saw |-> TRUE], editor, live)
  BY DEF LInv, LiveOK, UpgradeConfirmed
<1>1. opens'.how = "running" /\ opens'.how \in OpenWays
  BY <1>0 DEF Opened, OpenWays
<1>2. PICK w \in Watch : w = [job |-> j, saw |-> TRUE]
  BY DEF Watch
<1>3. /\ Queue \in [Jobs -> [state : JobStates, ota : OtaResults]]
      /\ \A k \in Jobs : Queue[k].state = job[k].state /\ Queue[k].ota = job[k].ota
  BY <1>0, RowFacts DEF Queue
<1>4. /\ view' \in [Jobs -> [state : JobStates, ota : OtaResults]]
      /\ job' \in [Jobs -> [state : JobStates, ota : OtaResults, log : Int]]
      /\ view'[j].state = "pending" /\ job'[j].state = "pending" /\ job'[j].ota = job[j].ota
      /\ view'[j].ota = job[j].ota
      /\ \A k \in Jobs \ {j} : job'[k] = job[k] /\ view'[k] = Queue[k]
  BY <1>0, <1>3 DEF JobsOK, JobStates
<1>5. JobsOK'
  BY <1>0, <1>4 DEF JobsOK
<1>6. ViewOK'
  <2> SUFFICES ASSUME NEW k \in Jobs
               PROVE  /\ Over(k, view'[k]) => Over(k, job'[k])
                      /\ view'[k].state = "success" /\ view'[k].ota = "success" =>
                           job'[k].ota = "success" \/ job'[k].state = "gone"
    BY DEF ViewOK
  <2>1. CASE k = j
    BY <1>4, <2>1 DEF Over
  <2>2. CASE k # j
    BY <1>3, <1>4, <2>2 DEF Over
  <2> QED
    BY <2>1, <2>2
<1>7. j \in Sources \cup {None} /\ Present(view'[j])
  BY <1>4 DEF Sources, Present
<1>8. /\ LInv'
      /\ \/ live' = live
         \/ /\ live'.target = j /\ (job'[j].ota = "success" \/ job'[j].state = "gone")
  BY <1>0, <1>1, <1>2, <1>5, <1>6, <1>7, RenderStep
<1>9. job'[j].ota # "success" /\ job'[j].state # "gone"
  BY <1>0, <1>4, <1>5 DEF JobsOK
<1> QED
  BY <1>8, <1>9 DEF Earned

\* The live window, and the sockets and polls of the log window.
LEMMA BesideStep ==
  ASSUME LInv, UNCHANGED <<job, view, log, watch>>, opens'.how \in OpenWays,
         UNCHANGED opens \/ log = None,
         live'.target = None => ~live'.boot,
         live'.boot /\ live'.target # live.target => FALSE
  PROVE  LInv' /\ Earned
<1>0. None \notin Jobs
  BY LogAssumption
<1>1. WatchOK'
  BY <1>0 DEF LInv, WatchOK
<1> QED
  BY <1>1 DEF LInv, JobsOK, ViewOK, LiveOK, Earned

LEMMA LiveStep ==
  ASSUME LInv, LiveStreams \/ LiveDrops \/ LiveRetries \/ CloseLive \/ \E t \in Jobs : OpenLive(t)
  PROVE  LInv' /\ Earned
<1>0. UNCHANGED <<job, view, log, watch>> /\ opens.how \in OpenWays /\ (live.target = None => ~live.boot)
  BY DEF LInv, WatchOK, LiveOK, LiveStreams, LiveDrops, LiveRetries, CloseLive, OpenLive
<1>1. ASSUME NEW c, live' = [live EXCEPT !.conn = c], UNCHANGED opens
      PROVE  LInv' /\ Earned
  <2>1. live'.target = live.target /\ live'.boot = live.boot
    BY <1>1
  <2> QED
    BY <1>0, <1>1, <2>1, BesideStep
<1>2. CASE LiveStreams \/ LiveDrops \/ LiveRetries
  BY <1>1, <1>2 DEF LiveStreams, LiveDrops, LiveRetries
<1>3. CASE CloseLive
  BY <1>0, <1>3, BesideStep DEF CloseLive, NoLive
<1>4. ASSUME NEW t \in Jobs, OpenLive(t)
      PROVE  LInv' /\ Earned
  <2>1. live.target = None /\ log = None /\ opens' = Opened("running")
        /\ live' = [live EXCEPT !.target = t, !.conn = "connecting"]
    BY <1>4 DEF OpenLive, AtTabs
  <2>2. live'.boot = live.boot /\ opens'.how = "running"
    BY <2>1 DEF Opened
  <2> QED
    BY <1>0, <2>1, <2>2, BesideStep DEF OpenWays
<1> QED
  BY <1>2, <1>3, <1>4

LEMMA CallbackStep ==
  ASSUME LInv,
         \/ \E s \in Sockets : WsHydrates(s) \/ WsSubscribes(s) \/ WsFails(s) \/ WsDrops(s)
                                \/ WsAborted(s) \/ WsCloses(s)
         \/ \E c \in Chains : PollAnswered(c) \/ PollLost(c) \/ PollAgain(c)
  PROVE  LInv' /\ Earned
<1>1. UNCHANGED <<job, view, log, watch, live, opens>>
  BY DEF WsHydrates, WsSubscribes, WsFails, WsDrops, WsAborted, WsCloses, onerror, onclose,
         PollAnswered, PollLost, PollAgain
<1>2. opens.how \in OpenWays /\ (live.target = None => ~live.boot)
  BY DEF LInv, WatchOK, LiveOK
<1> QED
  BY <1>1, <1>2, BesideStep

LEMMA LNext == LInv /\ [Next]_vars => LInv' /\ (Earned \/ UNCHANGED vars)
<1> SUFFICES ASSUME LInv, [Next]_vars
             PROVE  LInv' /\ (Earned \/ UNCHANGED vars)
  OBVIOUS
<1>1. CASE Server
  BY <1>1, ServerStep DEF Server
<1>2. CASE User
  BY <1>2, OpenLogStep, UpgradeStep, PageStep, LiveStep DEF User
<1>3. CASE Callbacks
  BY <1>3, CallbackStep, LiveStep DEF Callbacks
<1>4. CASE Poll
  BY <1>4, PageStep
<1>5. CASE UNCHANGED vars
  BY <1>5 DEF vars, LInv, JobsOK, ViewOK, WatchOK, LiveOK
<1> QED
  BY <1>1, <1>2, <1>3, <1>4, <1>5 DEF Next

-----------------------------------------------------------------------------
(* The theorems. *)

LEMMA InitLInv == Init => LInv
<1> SUFFICES ASSUME Init
             PROVE  LInv
  OBVIOUS
<1>1. PICK i \in Jobs : job = [k \in Jobs |-> IF k = i THEN Fresh ELSE Done]
  BY DEF Init
<1>2. /\ Fresh \in [state : JobStates, ota : OtaResults, log : Int] /\ Fresh.ota = "none"
      /\ Done \in [state : JobStates, ota : OtaResults, log : Int] /\ Done.state = "success"
  BY LogAssumption DEF Fresh, Done, JobStates, OtaResults
<1>3. job \in [Jobs -> [state : JobStates, ota : OtaResults, log : Int]]
  BY <1>1, <1>2
<1>4. /\ view \in [Jobs -> [state : JobStates, ota : OtaResults]]
      /\ \A j \in Jobs : view[j].state = job[j].state /\ view[j].ota = job[j].ota
  BY <1>3 DEF Init, Queue, Row
<1>5. JobsOK /\ ViewOK
  BY <1>1, <1>2, <1>3, <1>4 DEF JobsOK, ViewOK, Over
<1>6. WatchOK /\ LiveOK
  BY LogAssumption DEF Init, WatchOK, LiveOK, NoWatch, NoLive, Watch, OpenWays
<1> QED
  BY <1>5, <1>6 DEF LInv

\* LInv holds in every reachable state: what the page has read of a finished
\* job stays true until it is gone, the watch of App.tsx is on the job whose log
\* is open, and a log opened after the end was never seen running.
THEOREM LogInvariant == Spec => []LInv
<1>1. Init => LInv
  BY InitLInv
<1>2. LInv /\ [Next]_vars => LInv'
  BY LNext
<1> QED
  BY <1>1, <1>2, PTL DEF Spec

\* The effect of App.tsx that hands a build log over to the live log of the
\* device does so only for a job whose log was opened while it ran and that has
\* been flashed since, whatever was opened, closed, polled or removed in between.
THEOREM HandOversAreEarned == Spec => HandOverEarned
<1>1. LInv /\ [Next]_vars =>
        [live'.boot /\ live'.target # live.target =>
           /\ log \in Jobs \ Downloads /\ live'.target = log
           /\ opens.how = "running" /\ ~editor'
           /\ job[log].ota = "success" \/ job[log].state = "gone"]_vars
  BY LNext DEF Earned
<1> QED
  BY <1>1, LogInvariant, PTL DEF Spec, HandOverEarned

-----------------------------------------------------------------------------
(* The history windows *)

RecordedRow == [target : Targets, state : Verdicts]

Views == [target : Targets \cup {Null}, state : Verdicts \cup {Null},
          since : Int \cup {Null}, until : Int \cup {Null}, sort : Sorts]

\* Every row ever recorded.
Rows == DOMAIN table.rows

TableTyped ==
  /\ table = [rows |-> table.rows, first |-> table.first]
  /\ table.rows \in Seq(RecordedRow) /\ Len(table.rows) <= MaxRows
  /\ table.first \in Nat \ {0}

DialogTyped ==
  /\ dlg \in [open : BOOLEAN, q : Targets \cup {Null}, pages : Seq(Seq(Nat)),
              hasMore : BOOLEAN, loading : BOOLEAN, view : Views]
  /\ call # Null => call \in [view : Views, offset : Nat]
  /\ since \in [ids : SUBSET Nat, calm : BOOLEAN, purged : BOOLEAN]

PanelTyped ==
  panel \in [target : Targets \cup {Null}, offset : Offsets,
             cache : [Keys -> Seq(Nat) \cup {Null}], asked : SUBSET Keys]

\* A list is begun with the rows its filter lets through, of those that are kept.
BegunWith ==
  /\ \A i \in since.ids : i \in Rows /\ Matches(i, dlg.view)
  /\ ~since.purged => since.ids \subseteq Ids

\* In a list that was begun with no other answer on its way, the answer that is
\* under way now is the next page.
CallFits == call # Null => call.view = dlg.view /\ call.offset = Len(dlg.pages) * PageSize

RowsFit == \A i \in ListRows : i \in Rows /\ Matches(i, dlg.view)

\* What of the beginning would now be on the pages that are loaded, is in the list.
Filled ==
  \A i \in since.ids \cap Ids :
    Rank(i, Matching(dlg.view), dlg.view.sort) < Len(dlg.pages) * PageSize => i \in ListRows

\* Nothing of the beginning is missing at the end.
Complete == ~dlg.hasMore => since.ids \cap Ids \subseteq ListRows

\* Retention takes rows from the end of the list at most.
Kept == dlg.view.sort = "newest" \/ ~since.purged

ListInv ==
  dlg.open /\ since.calm =>
    /\ CallFits /\ RowsFit
    /\ Kept => InOrder /\ Filled /\ Complete

\* Every page the panel keeps.
CacheInv ==
  \A k \in Keys : panel.cache[k] # Null =>
    LET c == panel.cache[k]
    IN  /\ \A m \in DOMAIN c : c[m] \in Rows /\ Matches(c[m], PanelView(k[1]))
        /\ Ordered(c, "newest")
        /\ c # <<>> => k[2] + Len(c) <= Len(table.rows)

HInv == TableTyped /\ DialogTyped /\ PanelTyped /\ BegunWith /\ ListInv /\ CacheInv

-----------------------------------------------------------------------------
(* The order of the query and the place of a row in it *)

LEMMA BeforeOrder ==
  ASSUME TableTyped, NEW sort \in Sorts
  PROVE  /\ \A i \in Rows : ~Before(sort, i, i)
         /\ \A i, j \in Rows : i # j => Before(sort, i, j) \/ Before(sort, j, i)
         /\ \A i, j, k \in Rows : Before(sort, i, j) /\ Before(sort, j, k) => Before(sort, i, k)
<1>1. \A i \in Rows : i \in Int /\ table.rows[i].target \in Int
  <2>1. \A i \in Rows : i \in Int /\ table.rows[i] \in RecordedRow
    BY DEF TableTyped, Rows
  <2>2. \A x \in Targets : x \in Int
    BY HistoryAssumption
  <2> QED
    BY <2>1, <2>2 DEF RecordedRow
<1>2. CASE sort = "newest"
  BY <1>1, <1>2 DEF Before
<1>3. CASE sort = "oldest"
  BY <1>1, <1>3 DEF Before
<1>4. CASE sort = "device"
  BY <1>1, <1>4 DEF Before
<1> QED
  BY <1>2, <1>3, <1>4 DEF Sorts

\* The rows that precede i.
Preceding(i, M, sort) == {j \in M : Before(sort, j, i)}

LEMMA RowSets ==
  ASSUME TableTyped, NEW M \in SUBSET Rows
  PROVE  /\ IsFiniteSet(M) /\ Cardinality(M) \in Nat /\ Cardinality(M) <= Len(table.rows)
         /\ Rows = 1..Len(table.rows) /\ Len(table.rows) \in Nat
<1>1. Rows = 1..Len(table.rows) /\ Len(table.rows) \in Nat
  BY DEF TableTyped, Rows
<1>2. IsFiniteSet(Rows) /\ Cardinality(Rows) = Len(table.rows)
  BY <1>1, FS_Interval
<1> QED
  BY <1>1, <1>2, FS_Subset, FS_CardinalityType

\* Ranks count from 0, follow the order, and leave none out.
LEMMA Ranks ==
  ASSUME TableTyped, NEW sort \in Sorts, NEW M \in SUBSET Rows
  PROVE  /\ \A i \in Rows : Rank(i, M, sort) \in Nat
         /\ \A i \in M : Rank(i, M, sort) < Cardinality(M)
         /\ \A i \in M, j \in Rows : Before(sort, i, j) => Rank(i, M, sort) < Rank(j, M, sort)
         /\ \A i, j \in M : Rank(i, M, sort) = Rank(j, M, sort) => i = j
         /\ \A i, j \in M : Rank(i, M, sort) < Rank(j, M, sort) => Before(sort, i, j)
         /\ \A r \in 0..(Cardinality(M) - 1) : \E i \in M : Rank(i, M, sort) = r
<1> DEFINE R(i) == Rank(i, M, sort)
           N == Cardinality(M)
<1>1. \A i \in Rows : R(i) = Cardinality(Preceding(i, M, sort))
  BY DEF Rank, Preceding
<1>2. IsFiniteSet(M) /\ N \in Nat
  BY RowSets
<1>3. \A i \in Rows : Preceding(i, M, sort) \in SUBSET M
  BY DEF Preceding
<1>4. \A i \in Rows : IsFiniteSet(Preceding(i, M, sort)) /\ R(i) \in Nat
  BY <1>1, <1>2, <1>3, FS_Subset, FS_CardinalityType
<1>5. ASSUME NEW i \in M
      PROVE  R(i) < N
  <2>1. i \in Rows /\ i \notin Preceding(i, M, sort)
    BY BeforeOrder DEF Preceding
  <2>2. Preceding(i, M, sort) \in SUBSET M /\ Preceding(i, M, sort) # M
    BY <2>1, <1>3
  <2>3. R(i) <= N /\ R(i) # N
    BY <1>1, <1>2, <2>1, <2>2, FS_Subset
  <2> QED
    BY <1>2, <1>4, <2>1, <2>3
<1>6. ASSUME NEW i \in M, NEW j \in Rows, Before(sort, i, j)
      PROVE  R(i) < R(j)
  <2>1. i \in Rows
    OBVIOUS
  <2>2. /\ Preceding(i, M, sort) \in SUBSET Preceding(j, M, sort)
        /\ i \in Preceding(j, M, sort) /\ i \notin Preceding(i, M, sort)
    BY <1>6, <2>1, BeforeOrder DEF Preceding
  <2>3. R(i) <= R(j) /\ R(i) # R(j)
    BY <1>1, <1>4, <2>1, <2>2, FS_Subset
  <2> QED
    BY <1>4, <2>1, <2>3
<1>7. ASSUME NEW i \in M, NEW j \in M
      PROVE  /\ R(i) = R(j) => i = j
             /\ R(i) < R(j) => Before(sort, i, j)
  <2>1. i \in Rows /\ j \in Rows
    OBVIOUS
  <2>2. i = j \/ Before(sort, i, j) \/ Before(sort, j, i)
    BY <2>1, BeforeOrder
  <2>3. R(i) \in Nat /\ R(j) \in Nat
    BY <1>4, <2>1
  <2> HIDE DEF R
  <2> QED
    BY <1>6, <2>1, <2>2, <2>3
<1>8. ASSUME NEW r \in 0..(N - 1)
      PROVE  \E i \in M : R(i) = r
  <2> DEFINE f == [i \in M |-> R(i)]
  <2>1. f \in [M -> 0..(N - 1)]
    BY <1>2, <1>4, <1>5
  <2>2. f \in Injection(M, 0..(N - 1))
    BY <1>7, <2>1 DEF Injection, IsInjective
  <2>3. IsFiniteSet(0..(N - 1)) /\ Cardinality(0..(N - 1)) = N
    BY <1>2, FS_Interval
  <2>4. f \in Surjection(M, 0..(N - 1))
    BY <2>2, <2>3, FS_Injection
  <2> QED
    BY <1>8, <2>4 DEF Surjection
<1> QED
  BY <1>4, <1>5, <1>6, <1>7, <1>8

LEMMA MinOfTwo ==
  ASSUME NEW a \in Int, NEW b \in Int
  PROVE  Min({a, b}) = IF a <= b THEN a ELSE b
  BY DEF Min

LEMMA MaxOfTwo ==
  ASSUME NEW a \in Int, NEW b \in Int
  PROVE  Max({a, b}) = IF a <= b THEN b ELSE a
  BY DEF Max

\* A page of the query: the rows of the next ranks, as many as there are.
LEMMA QueryPage ==
  ASSUME TableTyped, NEW v \in Views, NEW offset \in Nat
  PROVE  LET M == Matching(v)
             P == Query(v, offset)
         IN  /\ M \in SUBSET Rows
             /\ P \in Seq(Nat) /\ Len(P) <= PageSize
             /\ \A k \in DOMAIN P : P[k] \in M /\ Rank(P[k], M, v.sort) = offset + k - 1
             /\ \A i \in M : offset <= Rank(i, M, v.sort) /\ Rank(i, M, v.sort) < offset + PageSize
                             => \E k \in DOMAIN P : P[k] = i
             /\ Len(P) < PageSize => Cardinality(M) < offset + PageSize
             /\ P # <<>> => offset + Len(P) <= Len(table.rows)
<1> DEFINE M == Matching(v)
           P == Query(v, offset)
           N == Cardinality(M)
           n == Max({0, Min({PageSize, N - offset})})
           R(i) == Rank(i, M, v.sort)
<1>1. v.sort \in Sorts /\ PageSize \in Nat \ {0}
  BY HistoryAssumption DEF Views
<1>2. M \in SUBSET Rows
  BY DEF Matching, Ids, Rows, TableTyped
<1>3. N \in Nat /\ N <= Len(table.rows) /\ Len(table.rows) \in Nat /\ Rows \in SUBSET Nat
  BY <1>2, RowSets
<1>4. n = IF N <= offset THEN 0 ELSE IF PageSize <= N - offset THEN PageSize ELSE N - offset
  <2>1. N - offset \in Int /\ PageSize \in Int
    BY <1>1, <1>3
  <2>2. Min({PageSize, N - offset}) = IF PageSize <= N - offset THEN PageSize ELSE N - offset
    BY <2>1, MinOfTwo
  <2>3. Min({PageSize, N - offset}) \in Int
    BY <2>1, <2>2
  <2>4. n = IF 0 <= Min({PageSize, N - offset}) THEN Min({PageSize, N - offset}) ELSE 0
    BY <2>3, MaxOfTwo
  <2> QED
    BY <1>1, <1>3, <2>2, <2>4
<1>5. n \in Nat /\ n <= PageSize /\ (n > 0 => offset + n <= N)
  BY <1>1, <1>3, <1>4
<1>6. P = [k \in 1..n |-> CHOOSE i \in M : R(i) = offset + k - 1]
  BY DEF Query
<1> HIDE DEF n, P, M
<1>7. ASSUME NEW k \in 1..n
      PROVE  P[k] \in M /\ R(P[k]) = offset + k - 1
  <2>1. offset + k - 1 \in 0..(N - 1)
    BY <1>3, <1>5
  <2>2. \E i \in M : R(i) = offset + k - 1
    BY <1>1, <1>2, <2>1, Ranks
  <2> HIDE DEF R
  <2>3. P[k] = CHOOSE i \in M : R(i) = offset + k - 1
    BY <1>6
  <2> QED
    BY <2>2, <2>3
<1>8. DOMAIN P = 1..n /\ P \in [1..n -> Nat]
  BY <1>2, <1>3, <1>6, <1>7
<1>9. P \in Seq(Nat) /\ Len(P) = n
  BY <1>5, <1>8
<1>10. ASSUME NEW i \in M, offset <= R(i), R(i) < offset + PageSize
       PROVE  \E k \in DOMAIN P : P[k] = i
  <2>1. R(i) \in Nat /\ R(i) < N
    BY <1>1, <1>2, Ranks
  <2>2. R(i) - offset + 1 \in 1..n
    BY <1>1, <1>3, <1>4, <1>10, <2>1
  <2> DEFINE k == R(i) - offset + 1
  <2>3. P[k] \in M /\ R(P[k]) = offset + k - 1
    BY <1>7, <2>2
  <2>4. R(P[k]) = R(i)
    BY <2>1, <2>3
  <2>5. P[k] = i
    <3>1. \A j, l \in M : R(j) = R(l) => j = l
      BY <1>1, <1>2, Ranks
    <3> HIDE DEF R
    <3> QED
      BY <2>3, <2>4, <3>1
  <2> QED
    BY <1>8, <2>2, <2>5
<1>11. n < PageSize => N < offset + PageSize
  BY <1>1, <1>3, <1>4
<1>12. P # <<>> => offset + n <= Len(table.rows)
  <2>1. P # <<>> => n > 0
    BY <1>5, <1>9
  <2> QED
    BY <1>3, <1>5, <2>1
<1> QED
  BY <1>2, <1>5, <1>7, <1>8, <1>9, <1>10, <1>11, <1>12 DEF P, M

-----------------------------------------------------------------------------
(* What the table may do under a list that is on the screen *)

\* Rows are only added; old ones are hidden, never changed.
Grown ==
  /\ Rows \subseteq Rows' /\ \A i \in Rows : table'.rows[i] = table.rows[i]
  /\ table.first <= table'.first

LEMMA RowsStay ==
  ASSUME Grown
  PROVE  /\ \A i \in Rows, v \in Views : Matches(i, v)' <=> Matches(i, v)
         /\ \A i, j \in Rows, s \in Sorts : Before(s, i, j)' <=> Before(s, i, j)
<1>1. ASSUME NEW i \in Rows, NEW v \in Views
      PROVE  Matches(i, v)' <=> Matches(i, v)
  BY DEF Grown, Matches
<1>2. ASSUME NEW i \in Rows, NEW j \in Rows, NEW s \in Sorts
      PROVE  Before(s, i, j)' <=> Before(s, i, j)
  BY DEF Grown, Before
<1> QED
  BY <1>1, <1>2

\* As long as nothing before it goes, a row does not move up.
LEMMA RankStays ==
  ASSUME TableTyped, TableTyped', Grown, NEW v \in Views, NEW i \in Rows,
         Preceding(i, Matching(v), v.sort) \subseteq Ids'
  PROVE  /\ Rank(i, Matching(v), v.sort) \in Nat
         /\ Rank(i, Matching(v), v.sort)' \in Nat
         /\ Rank(i, Matching(v), v.sort) <= Rank(i, Matching(v), v.sort)'
<1> DEFINE A == Preceding(i, Matching(v), v.sort)
           B == {j \in Matching(v)' : Before(v.sort, j, i)'}
<1>1. v.sort \in Sorts /\ i \in Rows'
  BY DEF Views, Grown
<1>2. Matching(v) \in SUBSET Rows /\ Matching(v)' \in SUBSET Rows'
  BY DEF Matching, Ids, Rows, TableTyped
<1>3. IsFiniteSet(Rows') /\ Rows' = 1..Len(table'.rows)
  <2>1. Rows' = 1..Len(table'.rows) /\ Len(table'.rows) \in Nat
    BY DEF TableTyped, Rows
  <2> QED
    BY <2>1, FS_Interval
<1>4. A \subseteq B
  <2> SUFFICES ASSUME NEW j \in A
               PROVE  j \in B
    OBVIOUS
  <2>1. j \in Rows /\ j \in Ids' /\ Matches(j, v) /\ Before(v.sort, j, i)
    BY <1>2 DEF Preceding, Matching
  <2>2. Matches(j, v)' /\ Before(v.sort, j, i)'
    BY <1>1, <2>1, RowsStay
  <2> QED
    BY <2>1, <2>2 DEF Matching
<1>5. IsFiniteSet(B)
  BY <1>2, <1>3, FS_Subset
<1>6. Rank(i, Matching(v), v.sort) = Cardinality(A)
  BY DEF Rank, Preceding
<1>7. Rank(i, Matching(v), v.sort)' = Cardinality(B)
  BY DEF Rank
<1> QED
  BY <1>4, <1>5, <1>6, <1>7, FS_Subset, FS_CardinalityType

\* The places of a list, one by one.
LEMMA Places ==
  /\ \A a : a \in ListPlaces <=>
             \E p \in DOMAIN dlg.pages : \E k \in DOMAIN dlg.pages[p] : a = <<p, k>>
  /\ \A a : a \in ListPlaces' <=>
             \E p \in DOMAIN dlg'.pages : \E k \in DOMAIN dlg'.pages[p] : a = <<p, k>>
  BY DEF ListPlaces

\* The same pages are the same list.
LEMMA ListSame ==
  ASSUME dlg'.pages = dlg.pages
  PROVE  ListPlaces' = ListPlaces /\ ListRows' = ListRows /\ \A a : RowAt(a)' = RowAt(a)
<1>1. ListPlaces' = ListPlaces
  BY DEF ListPlaces
<1>2. \A a : RowAt(a)' = RowAt(a)
  BY DEF RowAt
<1> QED
  BY <1>1, <1>2 DEF ListRows

\* One page more.
LEMMA ListExtended ==
  ASSUME dlg.pages \in Seq(Seq(Nat)), NEW P \in Seq(Nat), dlg'.pages = Append(dlg.pages, P)
  PROVE  /\ \A a \in ListPlaces : a \in ListPlaces' /\ RowAt(a)' = RowAt(a)
                                   /\ a[1] \in 1..Len(dlg.pages)
         /\ \A k \in DOMAIN P : \A a : a = <<Len(dlg.pages) + 1, k>> =>
              a \in ListPlaces' /\ RowAt(a)' = P[k]
         /\ \A a \in ListPlaces' : a \in ListPlaces \/
              \E k \in DOMAIN P : a = <<Len(dlg.pages) + 1, k>>
<1>0. PICK L : L = Len(dlg.pages)
  OBVIOUS
<1>1. /\ L \in Nat /\ DOMAIN dlg.pages = 1..L /\ DOMAIN dlg'.pages = 1..(L + 1)
      /\ \A p \in 1..L : dlg'.pages[p] = dlg.pages[p]
      /\ dlg'.pages[L + 1] = P
  BY <1>0
<1>2. ASSUME NEW a \in ListPlaces
      PROVE  a \in ListPlaces' /\ RowAt(a)' = RowAt(a) /\ a[1] \in 1..L
  <2>1. PICK p \in DOMAIN dlg.pages : \E k \in DOMAIN dlg.pages[p] : a = <<p, k>>
    BY Places
  <2>2. p \in DOMAIN dlg'.pages /\ dlg'.pages[p] = dlg.pages[p] /\ a[1] = p
    BY <1>1, <2>1
  <2> QED
    BY <1>1, <2>1, <2>2, Places DEF RowAt
<1>3. ASSUME NEW k \in DOMAIN P
      PROVE  <<L + 1, k>> \in ListPlaces' /\ RowAt(<<L + 1, k>>)' = P[k]
  <2>1. L + 1 \in DOMAIN dlg'.pages /\ k \in DOMAIN dlg'.pages[L + 1]
    BY <1>1
  <2>2. <<L + 1, k>> \in ListPlaces'
    BY <2>1, Places
  <2>3. RowAt(<<L + 1, k>>)' = dlg'.pages[L + 1][k]
    BY DEF RowAt
  <2> QED
    BY <1>1, <2>2, <2>3
<1>4. ASSUME NEW a \in ListPlaces', a \notin ListPlaces
      PROVE  \E k \in DOMAIN P : a = <<L + 1, k>>
  <2>1. PICK p \in DOMAIN dlg'.pages : \E k \in DOMAIN dlg'.pages[p] : a = <<p, k>>
    BY Places
  <2>2. p \notin 1..L
    BY <1>1, <1>4, <2>1, Places
  <2>3. p = L + 1
    BY <1>1, <2>2
  <2> QED
    BY <1>1, <2>1, <2>3
<1> QED
  BY <1>0, <1>2, <1>3, <1>4

\* Steps that leave the list alone, whatever they do to the request.
LEMMA ListStays ==
  ASSUME TableTyped, TableTyped', DialogTyped, BegunWith, ListInv, Grown,
         dlg'.open = dlg.open, dlg'.pages = dlg.pages, dlg'.hasMore = dlg.hasMore,
         dlg'.view = dlg.view, dlg.open /\ since.calm /\ CallFits => CallFits',
         since'.ids = since.ids, since'.calm = since.calm,
         Kept' => /\ Kept
                  /\ \A i \in Rows : i \in Ids' =>
                       Preceding(i, Matching(dlg.view), dlg.view.sort) \subseteq Ids'
  PROVE  ListInv'
<1> SUFFICES ASSUME dlg.open, since.calm
             PROVE  CallFits' /\ RowsFit' /\ (Kept' => InOrder' /\ Filled' /\ Complete')
  BY DEF ListInv
<1> DEFINE v == dlg.view
<1>1. v \in Views /\ v.sort \in Sorts /\ dlg'.view = v
  BY DEF DialogTyped, Views
<1>2. /\ ListPlaces' = ListPlaces /\ ListRows' = ListRows
      /\ \A a : RowAt(a)' = RowAt(a)
  BY ListSame
<1>3. CallFits /\ RowsFit
  BY DEF ListInv
<1>4. CallFits'
  BY <1>3
<1>5. RowsFit'
  <2> SUFFICES ASSUME NEW i \in ListRows
               PROVE  i \in Rows' /\ Matches(i, dlg.view)'
    BY <1>2 DEF RowsFit
  <2>1. i \in Rows /\ Matches(i, v)
    BY <1>3 DEF RowsFit
  <2> QED
    BY <1>1, <2>1 DEF Grown, Matches
<1>6. ASSUME Kept'
      PROVE  InOrder' /\ Filled' /\ Complete'
  <2>1. InOrder /\ Filled /\ Complete
    BY <1>6 DEF ListInv
  <2>2. \A i \in since.ids : i \in Rows /\ (i \in Ids' => i \in Ids)
    <3>1. \A i \in since.ids : i \in Rows
      BY DEF BegunWith
    <3>2. /\ Rows = 1..Len(table.rows) /\ Len(table.rows) \in Nat
          /\ table.first \in Nat /\ table'.first \in Nat /\ table.first <= table'.first
      BY DEF TableTyped, Rows, Grown
    <3> QED
      BY <3>1, <3>2 DEF Ids
  <2>3. InOrder'
    <3> SUFFICES ASSUME NEW a \in ListPlaces, NEW i \in since.ids,
                        Before(dlg.view.sort, i, RowAt(a))'
                 PROVE  \E c \in ListPlaces : Above(c, a) /\ RowAt(c) = i
      BY <1>2 DEF InOrder, Above
    <3>1. RowAt(a) \in Rows /\ i \in Rows /\ RowAt(a)' = RowAt(a)
      BY <1>2, <1>3, <2>2 DEF RowsFit, ListRows
    <3>2. Before(v.sort, i, RowAt(a))
      BY <1>1, <3>1 DEF Before, Grown
    <3> QED
      BY <2>1, <3>2 DEF InOrder
  <2>4. Filled'
    <3> SUFFICES ASSUME NEW i \in since.ids, i \in Ids',
                        Rank(i, Matching(dlg.view), dlg.view.sort)' < Len(dlg.pages) * PageSize
                 PROVE  i \in ListRows
      BY <1>2 DEF Filled
    <3>1. i \in Rows /\ i \in Ids
      BY <2>2
    <3>2. /\ Rank(i, Matching(v), v.sort) \in Nat
          /\ Rank(i, Matching(v), v.sort)' \in Nat
          /\ Rank(i, Matching(v), v.sort) <= Rank(i, Matching(v), v.sort)'
      <4>1. PICK w \in Views : w = v
        BY <1>1
      <4>2. Preceding(i, Matching(w), w.sort) \subseteq Ids'
        BY <1>6, <3>1, <4>1
      <4>3. /\ Rank(i, Matching(w), w.sort) \in Nat
            /\ Rank(i, Matching(w), w.sort)' \in Nat
            /\ Rank(i, Matching(w), w.sort) <= Rank(i, Matching(w), w.sort)'
        BY <3>1, <4>2, RankStays
      <4>4. Rank(i, Matching(w), w.sort)' = Rank(i, Matching(v), v.sort)'
        BY <1>1, <4>1 DEF Rank, Matching, Matches, Before
      <4> QED
        BY <4>1, <4>3, <4>4
    <3>3. Len(dlg.pages) * PageSize \in Nat
      BY HistoryAssumption DEF DialogTyped
    <3> QED
      BY <2>1, <3>1, <3>2, <3>3 DEF Filled
  <2>5. Complete'
    BY <1>2, <2>1, <2>2 DEF Complete
  <2> QED
    BY <2>3, <2>4, <2>5
<1> QED
  BY <1>4, <1>5, <1>6

LEMMA Distribute ==
  ASSUME NEW L \in Nat, NEW S \in Nat
  PROVE  L * S \in Nat /\ (L + 1) * S = L * S + S
  OBVIOUS

LEMMA PageArrives ==
  ASSUME TableTyped, DialogTyped, BegunWith, ListInv, Loaded
  PROVE  ListInv'
<1> SUFFICES ASSUME dlg.open, since.calm
             PROVE  CallFits' /\ RowsFit' /\ (Kept' => InOrder' /\ Filled' /\ Complete')
  BY DEF ListInv, Loaded
<1>1. PICK v \in Views : v = dlg.view
  BY DEF DialogTyped
<1>2. PICK L \in Nat : L = Len(dlg.pages)
  BY DEF DialogTyped
<1>3. PICK P : P = Query(v, L * PageSize)
  OBVIOUS
<1> DEFINE M == Matching(v)
           R(i) == Rank(i, M, v.sort)
<1>4. /\ v.sort \in Sorts /\ PageSize \in Nat \ {0} /\ L * PageSize \in Nat
      /\ (L + 1) * PageSize = L * PageSize + PageSize
  BY HistoryAssumption, Distribute DEF Views
<1>5. /\ CallFits /\ RowsFit
      /\ call # Null /\ call' = Null /\ table' = table /\ since' = since
  BY DEF ListInv, Loaded
<1>6. /\ dlg'.pages = Append(dlg.pages, P) /\ dlg'.view = v
      /\ dlg'.hasMore = (dlg.hasMore /\ Len(P) = PageSize)
  BY <1>1, <1>2, <1>3, <1>5 DEF Loaded, CallFits, DialogTyped
<1>7. /\ M \in SUBSET Rows
      /\ P \in Seq(Nat) /\ Len(P) <= PageSize
      /\ \A k \in DOMAIN P : P[k] \in M /\ R(P[k]) = L * PageSize + k - 1
      /\ \A i \in M : L * PageSize <= R(i) /\ R(i) < L * PageSize + PageSize
                      => \E k \in DOMAIN P : P[k] = i
      /\ Len(P) < PageSize => Cardinality(M) < L * PageSize + PageSize
  BY <1>3, <1>4, QueryPage
<1> HIDE DEF R, M
<1>8. /\ \A a \in ListPlaces : a \in ListPlaces' /\ RowAt(a)' = RowAt(a) /\ a[1] \in 1..L
      /\ \A k \in DOMAIN P : \A a : a = <<L + 1, k>> => a \in ListPlaces' /\ RowAt(a)' = P[k]
      /\ \A a \in ListPlaces' : a \in ListPlaces \/ \E k \in DOMAIN P : a = <<L + 1, k>>
  <2>1. dlg.pages \in Seq(Seq(Nat)) /\ dlg'.pages = Append(dlg.pages, P)
    BY <1>6 DEF DialogTyped
  <2>2. P \in Seq(Nat)
    BY <1>7
  <2> QED
    BY <1>2, <2>1, <2>2, ListExtended
<1>9. /\ ListRows \subseteq ListRows' /\ \A k \in DOMAIN P : P[k] \in ListRows'
      /\ \A i \in ListRows' : i \in ListRows \/ \E k \in DOMAIN P : P[k] = i
  <2>1. ListRows' = {RowAt(a)' : a \in ListPlaces'} /\ ListRows = {RowAt(a) : a \in ListPlaces}
    BY DEF ListRows
  <2>2. ListRows \subseteq ListRows'
    BY <1>8, <2>1
  <2>3. ASSUME NEW k \in DOMAIN P
        PROVE  P[k] \in ListRows'
    BY <1>8, <2>1
  <2>4. ASSUME NEW i \in ListRows'
        PROVE  i \in ListRows \/ \E k \in DOMAIN P : P[k] = i
    <3>1. PICK a \in ListPlaces' : RowAt(a)' = i
      BY <2>1
    <3> QED
      BY <1>8, <2>1, <3>1
  <2> QED
    BY <2>2, <2>3, <2>4
<1>10. \A i \in M : i \in Rows /\ i \in Ids /\ Matches(i, v)
  BY <1>7 DEF M, Matching
<1>11. /\ Rows' = Rows /\ Ids' = Ids
       /\ \A i : Matches(i, dlg.view)' = Matches(i, v)
       /\ \A i, j : Before(dlg.view.sort, i, j)' = Before(v.sort, i, j)
       /\ \A i : Rank(i, Matching(dlg.view), dlg.view.sort)' = R(i)
  BY <1>5, <1>6 DEF Rows, Ids, Matches, Before, Rank, Matching, M, R
<1>12. CallFits'
  BY <1>5 DEF CallFits
<1>13. RowsFit'
  <2> SUFFICES ASSUME NEW i \in ListRows'
               PROVE  i \in Rows /\ Matches(i, v)
    BY <1>11 DEF RowsFit
  <2>1. CASE i \in ListRows
    BY <1>1, <1>5, <2>1 DEF RowsFit
  <2>2. CASE \E k \in DOMAIN P : P[k] = i
    BY <1>7, <1>10, <2>2
  <2> QED
    BY <1>9, <2>1, <2>2
<1>14. ASSUME Kept'
       PROVE  InOrder' /\ Filled' /\ Complete'
  <2>1. InOrder /\ Filled /\ Complete
    BY <1>1, <1>5, <1>6, <1>14 DEF Kept, ListInv
  <2>2. \A i \in since.ids : i \in Rows /\ (i \in Ids => i \in M)
    BY <1>1 DEF BegunWith, M, Matching
  <2>3. \A i \in since.ids : i \in Ids /\ R(i) < L * PageSize => i \in ListRows
    BY <1>1, <1>2, <2>1 DEF Filled, R, M
  <2>4. Filled'
    <3> SUFFICES ASSUME NEW i \in since.ids, i \in Ids, R(i) < Len(dlg'.pages) * PageSize
                 PROVE  i \in ListRows'
      BY <1>5, <1>11 DEF Filled
    <3>1. Len(dlg'.pages) = L + 1
      BY <1>2, <1>6 DEF DialogTyped
    <3>2. i \in M /\ R(i) \in Nat
      BY <1>4, <1>7, <2>2, Ranks DEF R
    <3>3. CASE R(i) < L * PageSize
      BY <1>9, <2>3, <3>3
    <3>4. CASE L * PageSize <= R(i)
      BY <1>4, <1>7, <1>9, <3>1, <3>2, <3>4
    <3> QED
      BY <1>4, <3>2, <3>3, <3>4
  <2>5. Complete'
    <3> SUFFICES ASSUME ~dlg'.hasMore, NEW i \in since.ids, i \in Ids
                 PROVE  i \in ListRows'
      BY <1>5, <1>11 DEF Complete
    <3>1. CASE ~dlg.hasMore
      BY <1>9, <2>1, <3>1 DEF Complete
    <3>2. CASE dlg.hasMore
      <4>1. Len(P) \in Nat /\ Len(P) < PageSize
        <5>1. Len(P) # PageSize
          BY <1>6, <3>2, Zenon
        <5> QED
          BY <1>4, <1>7, <5>1
      <4>2. i \in M /\ R(i) \in Nat /\ R(i) < Cardinality(M)
        BY <1>4, <1>7, <2>2, Ranks DEF R
      <4>3. Cardinality(M) \in Nat
        BY <1>7, RowSets
      <4>4. R(i) < L * PageSize + PageSize
        BY <1>4, <1>7, <4>1, <4>2, <4>3
      <4>5. Len(dlg'.pages) = L + 1
        BY <1>2, <1>6 DEF DialogTyped
      <4> QED
        BY <1>4, <1>5, <1>11, <2>4, <4>4, <4>5 DEF Filled
    <3> QED
      BY <3>1, <3>2
  <2>6. InOrder'
    <3> SUFFICES ASSUME NEW a \in ListPlaces', NEW i \in since.ids,
                        Before(v.sort, i, RowAt(a)')
                 PROVE  \E c \in ListPlaces' : Above(c, a) /\ RowAt(c)' = i
      BY <1>5, <1>6 DEF InOrder, Above, Before
    <3>1. CASE a \in ListPlaces
      <4>1. Before(dlg.view.sort, i, RowAt(a))
        BY <1>1, <1>8, <3>1 DEF Before
      <4>2. PICK c \in ListPlaces : Above(c, a) /\ RowAt(c) = i
        BY <2>1, <3>1, <4>1 DEF InOrder
      <4> QED
        BY <1>8, <4>2
    <3>2. CASE \E k \in DOMAIN P : a = <<L + 1, k>>
      <4>1. PICK k \in DOMAIN P : a = <<L + 1, k>>
        BY <3>2
      <4>2. RowAt(a)' = P[k] /\ k \in Nat /\ P[k] \in M /\ R(P[k]) = L * PageSize + k - 1
        <5>1. RowAt(<<L + 1, k>>)' = P[k]
          BY <1>8
        <5>2. DOMAIN P = 1..Len(P) /\ Len(P) \in Nat
          BY <1>7
        <5> QED
          BY <1>7, <4>1, <5>1, <5>2
      <4>3. i \in Ids
        <5>1. CASE ~since.purged
          BY <5>1 DEF BegunWith
        <5>2. CASE v.sort = "newest"
          <6>1. i > P[k] /\ P[k] \in Ids
            BY <1>10, <4>2, <5>2 DEF Before
          <6>2. i \in Nat /\ i <= Len(table.rows) /\ Len(table.rows) \in Nat /\ table.first \in Nat
            BY <2>2 DEF Rows, TableTyped
          <6> QED
            BY <6>1, <6>2 DEF Ids
        <5> QED
          BY <1>5, <1>6, <1>14, <5>1, <5>2 DEF Kept
      <4>4. i \in M /\ R(i) \in Nat /\ R(i) < L * PageSize + k - 1
        <5>1. i \in M /\ P[k] \in Rows
          BY <1>10, <2>2, <4>2, <4>3
        <5>2. Before(v.sort, i, P[k])
          BY <4>2
        <5>3. R(i) \in Nat /\ R(i) < R(P[k])
          BY <1>4, <1>7, <5>1, <5>2, Ranks DEF R
        <5> QED
          BY <4>2, <5>1, <5>3
      <4>5. CASE R(i) < L * PageSize
        <5>1. PICK c \in ListPlaces : RowAt(c) = i
          BY <2>3, <4>3, <4>5 DEF ListRows
        <5>2. c \in ListPlaces' /\ RowAt(c)' = i /\ c[1] < L + 1
          BY <1>8, <5>1
        <5> QED
          BY <4>1, <5>2 DEF Above
      <4>6. CASE L * PageSize <= R(i)
        <5>1. k <= PageSize
          BY <1>4, <1>7, <4>2
        <5>2. PICK m \in DOMAIN P : P[m] = i
          BY <1>4, <1>7, <4>2, <4>4, <4>6, <5>1
        <5>3. m \in Nat /\ m < k
          BY <1>4, <1>7, <4>2, <4>4, <5>2
        <5>4. <<L + 1, m>> \in ListPlaces' /\ RowAt(<<L + 1, m>>)' = i
          BY <1>8, <5>2
        <5> QED
          BY <4>1, <5>3, <5>4 DEF Above
      <4> QED
        BY <1>4, <4>4, <4>5, <4>6
    <3> QED
      BY <1>8, <3>1, <3>2
  <2> QED
    BY <2>4, <2>5, <2>6
<1> QED
  BY <1>12, <1>13, <1>14

LEMMA ListBegins ==
  ASSUME TableTyped, NEW v \in Views, Wiped(v)
  PROVE  BegunWith' /\ ListInv'
<1>1. /\ dlg'.view = v /\ dlg'.pages = <<>> /\ dlg'.hasMore = TRUE /\ table' = table /\ call' = call
      /\ since' = [ids |-> Matching(v), calm |-> call = Null, purged |-> FALSE]
  <2>1. table' = table /\ call' = call
        /\ since' = [ids |-> Matching(v), calm |-> call = Null, purged |-> FALSE]
    BY DEF Wiped
  <2> QED
    BY <2>1 DEF Wiped
<1>2. BegunWith'
  BY <1>1 DEF BegunWith, Matching, Ids, Rows, Matches, TableTyped
<1>3. ListPlaces' = {} /\ ListRows' = {}
  BY <1>1 DEF ListPlaces, ListRows
<1>4. ASSUME since'.calm
      PROVE  CallFits'
  BY <1>1, <1>4 DEF CallFits
<1>5. RowsFit' /\ InOrder' /\ Complete'
  BY <1>1, <1>3 DEF RowsFit, InOrder, Complete
<1>6. Filled'
  <2> SUFFICES ASSUME NEW i \in Matching(v)
               PROVE  ~(Rank(i, Matching(dlg.view), dlg.view.sort)' < Len(dlg'.pages) * PageSize)
    BY <1>1 DEF Filled
  <2>1. v.sort \in Sorts /\ Matching(v) \in SUBSET Rows
    BY DEF Views, Matching, Ids, Rows, TableTyped
  <2>2. Rank(i, Matching(v), v.sort) \in Nat
    BY <2>1, Ranks
  <2>3. Rank(i, Matching(dlg.view), dlg.view.sort)' = Rank(i, Matching(v), v.sort)
    BY <1>1 DEF Rank, Matching, Ids, Matches, Before
  <2>4. Len(dlg'.pages) * PageSize = 0
    BY <1>1, HistoryAssumption
  <2> QED
    BY <2>2, <2>3, <2>4
<1> QED
  BY <1>2, <1>4, <1>5, <1>6 DEF ListInv

LEMMA BegunStays ==
  ASSUME TableTyped, TableTyped', DialogTyped, BegunWith, Grown,
         dlg'.view = dlg.view, since'.ids = since.ids,
         ~since'.purged => ~since.purged /\ table'.first = table.first
  PROVE  BegunWith'
<1>1. ASSUME NEW i \in since.ids
      PROVE  i \in Rows' /\ Matches(i, dlg.view)'
  <2>1. i \in Rows /\ Matches(i, dlg.view)
    BY DEF BegunWith
  <2> QED
    BY <2>1 DEF Grown, Matches
<1>2. ASSUME ~since'.purged, NEW i \in since.ids
      PROVE  i \in Ids'
  <2>1. i \in Ids /\ table'.first = table.first
    BY <1>2 DEF BegunWith
  <2>2. /\ Rows = 1..Len(table.rows) /\ Len(table.rows) \in Nat
        /\ Rows' = 1..Len(table'.rows) /\ Len(table'.rows) \in Nat
        /\ Rows \subseteq Rows'
    BY DEF TableTyped, Rows, Grown
  <2>3. table.first \in Nat \ {0}
    BY DEF TableTyped
  <2> QED
    BY <2>1, <2>2, <2>3 DEF Ids
<1> QED
  BY <1>1, <1>2 DEF BegunWith

LEMMA CacheStays ==
  ASSUME TableTyped, TableTyped', PanelTyped, CacheInv, Grown, panel'.cache = panel.cache
  PROVE  CacheInv'
<1> SUFFICES ASSUME NEW k \in Keys, panel.cache[k] # Null, NEW c, c = panel.cache[k]
             PROVE  /\ \A m \in DOMAIN c : c[m] \in Rows' /\ Matches(c[m], PanelView(k[1]))'
                    /\ Ordered(c, "newest")'
                    /\ c # <<>> => k[2] + Len(c) <= Len(table'.rows)
  BY DEF CacheInv
<1>1. /\ \A m \in DOMAIN c : c[m] \in Rows /\ Matches(c[m], PanelView(k[1]))
      /\ Ordered(c, "newest")
      /\ c # <<>> => k[2] + Len(c) <= Len(table.rows)
  BY DEF CacheInv
<1>2. k[1] \in Targets /\ k[2] \in Nat /\ c \in Seq(Nat)
  BY HistoryAssumption DEF Keys, Offsets, PanelTyped
<1>3. PanelView(k[1]) \in Views
  BY <1>2 DEF PanelView, Views, Sorts
<1>4. \A m \in DOMAIN c : c[m] \in Rows' /\ Matches(c[m], PanelView(k[1]))'
  BY <1>1, <1>3, RowsStay DEF Grown
<1>5. Ordered(c, "newest")'
  BY <1>1 DEF Ordered, Before
<1>6. Len(table.rows) \in Nat /\ Len(table'.rows) \in Nat /\ Len(table.rows) <= Len(table'.rows)
  BY DEF TableTyped, Rows, Grown
<1> QED
  BY <1>1, <1>2, <1>4, <1>5, <1>6

\* What it takes when the table stays as it is.
LEMMA SameTable ==
  ASSUME TableTyped, table' = table
  PROVE  /\ TableTyped' /\ Grown
         /\ \A M \in SUBSET Ids : \A i, s : Preceding(i, M, s) \subseteq Ids'
<1>1. TableTyped'
  BY DEF TableTyped
<1>2. Grown
  BY DEF Grown, Rows, TableTyped
<1> QED
  BY <1>1, <1>2 DEF Preceding, Ids

-----------------------------------------------------------------------------
(* The steps *)

LEMMA JobEndsKeeps ==
  ASSUME HInv, NEW t \in Targets, NEW s \in Verdicts, JobEnds(t, s)
  PROVE  HInv'
<1> DEFINE r == [target |-> t, state |-> s]
<1>1. /\ UNCHANGED <<dlg, call, since, panel>> /\ Len(table.rows) < MaxRows
      /\ table'.rows = Append(table.rows, r) /\ table'.first = table.first
      /\ table' = [rows |-> table'.rows, first |-> table'.first]
  BY DEF JobEnds, HInv, TableTyped
<1>2. r \in RecordedRow /\ table.rows \in Seq(RecordedRow)
  BY DEF RecordedRow, HInv, TableTyped
<1>3. /\ Len(table'.rows) = Len(table.rows) + 1 /\ table'.rows \in Seq(RecordedRow)
      /\ \A i \in 1..Len(table.rows) : table'.rows[i] = table.rows[i]
  BY <1>1, <1>2
<1>4. TableTyped'
  BY <1>1, <1>3, HistoryAssumption DEF HInv, TableTyped
<1>5. Grown /\ Ids \subseteq Ids'
  BY <1>1, <1>2, <1>3 DEF Grown, Rows, Ids, HInv, TableTyped
<1>6. DialogTyped' /\ PanelTyped'
  BY <1>1 DEF HInv, DialogTyped, PanelTyped
<1>7. BegunWith'
  BY <1>1, <1>4, <1>5, BegunStays DEF HInv
<1>8. ListInv'
  <2>1. Kept' => Kept
    BY <1>1 DEF Kept
  <2>2. \A i \in Rows : Preceding(i, Matching(dlg.view), dlg.view.sort) \subseteq Ids'
    BY <1>5 DEF Preceding, Matching
  <2>3. CallFits => CallFits'
    BY <1>1 DEF CallFits
  <2> QED
    BY <1>1, <1>4, <1>5, <2>1, <2>2, <2>3, ListStays DEF HInv
<1>9. CacheInv'
  BY <1>1, <1>4, <1>5, CacheStays DEF HInv
<1> QED
  BY <1>4, <1>6, <1>7, <1>8, <1>9 DEF HInv

LEMMA RetentionKeeps ==
  ASSUME HInv, NEW n \in 1..(MaxRows + 1), Retention(n)
  PROVE  HInv'
<1>1. /\ UNCHANGED <<dlg, call, panel>>
      /\ since' = [since EXCEPT !.purged = TRUE]
      /\ n > table.first /\ table'.rows = table.rows /\ table'.first = n
      /\ table' = [rows |-> table'.rows, first |-> table'.first]
  BY DEF Retention, HInv, TableTyped
<1>2. TableTyped'
  BY <1>1, HistoryAssumption DEF HInv, TableTyped
<1>3. Grown
  BY <1>1, <1>2 DEF Grown, Rows, HInv, TableTyped
<1>4. since'.ids = since.ids /\ since'.calm = since.calm /\ since'.purged = TRUE
  BY <1>1 DEF HInv, DialogTyped
<1>5. DialogTyped' /\ PanelTyped'
  BY <1>1 DEF HInv, DialogTyped, PanelTyped
<1>6. BegunWith'
  BY <1>1, <1>2, <1>3, <1>4, BegunStays DEF HInv
<1>7. ListInv'
  <2>1. Kept' => dlg.view.sort = "newest"
    BY <1>1, <1>4 DEF Kept
  <2>2. ASSUME dlg.view.sort = "newest", NEW i \in Rows, i \in Ids'
        PROVE  Preceding(i, Matching(dlg.view), dlg.view.sort) \subseteq Ids'
    <3> SUFFICES ASSUME NEW j \in Ids, j > i
                 PROVE  j \in Ids'
      BY <2>2 DEF Preceding, Matching, Before
    <3>1. /\ i \in Nat /\ table.first \in Nat /\ table'.first \in Nat
          /\ Len(table.rows) \in Nat /\ table'.first <= i
      BY <1>1, <1>2, <2>2 DEF Rows, Ids, HInv, TableTyped
    <3> QED
      BY <1>1, <3>1 DEF Ids
  <2>3. CallFits => CallFits'
    BY <1>1 DEF CallFits
  <2> QED
    BY <1>1, <1>2, <1>3, <1>4, <2>1, <2>2, <2>3, ListStays DEF HInv, Kept
<1>8. CacheInv'
  BY <1>1, <1>2, <1>3, CacheStays DEF HInv
<1> QED
  BY <1>2, <1>5, <1>6, <1>7, <1>8 DEF HInv

\* Clicks that begin the list anew.
Begins ==
  \/ OpenDialog \/ AllTime
  \/ \E s \in Verdicts \cup {Null} : FilterState(s)
  \/ \E c \in Sorts : SortBy(c)
  \/ \E n \in Presets : PickPreset(n)
  \/ \E r \in Ranges : applyAbsolute(r)

LEMMA BeginsWipes ==
  ASSUME TableTyped, DialogTyped, Begins
  PROVE  \E v \in Views : Wiped(v)
<1>1. dlg.view \in Views
  BY DEF DialogTyped
<1>2. CASE OpenDialog
  BY <1>1, <1>2 DEF OpenDialog
<1>3. CASE AllTime
  <2> DEFINE v == [dlg.view EXCEPT !.since = Null, !.until = Null]
  <2>1. v \in Views
    BY <1>1 DEF Views
  <2> QED
    BY <1>3, <2>1 DEF AllTime, SetView
<1>4. ASSUME NEW s \in Verdicts \cup {Null}, FilterState(s)
      PROVE  \E v \in Views : Wiped(v)
  <2> DEFINE v == [dlg.view EXCEPT !.state = s]
  <2>1. v \in Views
    BY <1>1 DEF Views
  <2> QED
    BY <1>4, <2>1 DEF FilterState, SetView
<1>5. ASSUME NEW c \in Sorts, SortBy(c)
      PROVE  \E v \in Views : Wiped(v)
  <2> DEFINE v == [dlg.view EXCEPT !.sort = c]
  <2>1. v \in Views
    BY <1>1 DEF Views
  <2> QED
    BY <1>5, <2>1 DEF SortBy, SetView
<1>6. ASSUME NEW n \in Presets, PickPreset(n)
      PROVE  \E v \in Views : Wiped(v)
  <2> DEFINE v == [dlg.view EXCEPT !.since = QuickSince(n), !.until = Null]
  <2>1. n \in Nat
    BY HistoryAssumption
  <2>2. QuickSince(n) \in Int
    BY <2>1 DEF QuickSince, TableTyped
  <2>3. v \in Views
    BY <1>1, <2>2 DEF Views
  <2> QED
    BY <1>6, <2>3 DEF PickPreset, SetView
<1>7. ASSUME NEW r \in Ranges, applyAbsolute(r)
      PROVE  \E v \in Views : Wiped(v)
  <2> DEFINE v == [dlg.view EXCEPT !.since = r[1], !.until = RangeEnd(r)]
  <2>1. r \in Nat \X (Nat \cup {Null})
    BY HistoryAssumption
  <2>2. r[1] \in Int /\ RangeEnd(r) \in Int
    BY <2>1 DEF RangeEnd
  <2>3. v \in Views
    BY <1>1, <2>2 DEF Views
  <2> QED
    BY <1>7, <2>3 DEF applyAbsolute, SetView
<1> QED
  BY <1>2, <1>3, <1>4, <1>5, <1>6, <1>7 DEF Begins

LEMMA WipedKeeps ==
  ASSUME HInv, NEW v \in Views, Wiped(v)
  PROVE  HInv'
<1>1. /\ UNCHANGED <<table, call, panel>>
      /\ dlg' = [dlg EXCEPT !.open = TRUE, !.view = v, !.pages = <<>>, !.hasMore = TRUE]
      /\ since' = [ids |-> Matching(v), calm |-> call = Null, purged |-> FALSE]
  BY DEF Wiped
<1>2. Matching(v) \in SUBSET Nat
  BY DEF Matching, Ids, HInv, TableTyped
<1>3. <<>> \in Seq(Seq(Nat))
  OBVIOUS
<1>4. dlg' \in [open : BOOLEAN, q : Targets \cup {Null}, pages : Seq(Seq(Nat)),
                hasMore : BOOLEAN, loading : BOOLEAN, view : Views]
  BY <1>1, <1>3 DEF HInv, DialogTyped
<1>5. DialogTyped'
  BY <1>1, <1>2, <1>4 DEF HInv, DialogTyped
<1>6. BegunWith' /\ ListInv'
  BY ListBegins DEF HInv
<1>7. TableTyped' /\ Grown
  BY <1>1, SameTable DEF HInv
<1>8. PanelTyped' /\ CacheInv'
  BY <1>1, <1>7, CacheStays DEF HInv, PanelTyped
<1> QED
  BY <1>5, <1>6, <1>7, <1>8 DEF HInv

\* Everything else the dialog does leaves the history and the panel alone.
LEMMA DialogKeeps ==
  ASSUME HInv, table' = table, since' = since, panel' = panel, DialogTyped',
         dlg'.view = dlg.view,
         dlg'.open => ListInv'
  PROVE  HInv'
<1>1. TableTyped' /\ Grown
  BY SameTable DEF HInv
<1>2. BegunWith'
  BY <1>1, BegunStays DEF HInv
<1>3. PanelTyped' /\ CacheInv'
  BY <1>1, CacheStays DEF HInv, PanelTyped
<1> QED
  BY <1>1, <1>2, <1>3 DEF HInv, ListInv

LEMMA SameList ==
  ASSUME HInv, table' = table, since' = since,
         dlg'.open = dlg.open, dlg'.pages = dlg.pages, dlg'.hasMore = dlg.hasMore,
         dlg'.view = dlg.view, dlg.open /\ since.calm /\ CallFits => CallFits'
  PROVE  ListInv'
<1>1. /\ TableTyped' /\ Grown
      /\ \A M \in SUBSET Ids : \A i, s : Preceding(i, M, s) \subseteq Ids'
  BY SameTable DEF HInv
<1>2. Matching(dlg.view) \in SUBSET Ids
  BY DEF Matching
<1>3. Kept' => Kept
  BY DEF Kept
<1> QED
  BY <1>1, <1>2, <1>3, ListStays DEF HInv

LEMMA DialogStepKeeps ==
  ASSUME HInv,
         CloseDialog \/ (\E t \in Targets \cup {Null} : setQ(t)) \/ fetchNextPage
         \/ Loaded \/ LoadFails
  PROVE  HInv'
<1>1. DialogTyped
  BY DEF HInv
<1>2. CASE CloseDialog
  <2>1. <<>> \in Seq(Seq(Nat))
    OBVIOUS
  <2>2. dlg' \in [open : BOOLEAN, q : Targets \cup {Null}, pages : Seq(Seq(Nat)),
                  hasMore : BOOLEAN, loading : BOOLEAN, view : Views]
        /\ dlg'.view = dlg.view /\ dlg'.open = FALSE
    BY <1>1, <1>2, <2>1 DEF CloseDialog, DialogTyped
  <2>3. DialogTyped' /\ UNCHANGED <<table, since, panel>>
    BY <1>1, <1>2, <2>2 DEF CloseDialog, DialogTyped
  <2> QED
    BY <2>2, <2>3, DialogKeeps
<1>3. ASSUME NEW t \in Targets \cup {Null}, setQ(t)
      PROVE  HInv'
  <2>1. /\ dlg' = [dlg EXCEPT !.q = t] /\ UNCHANGED <<table, call, since, panel>>
    BY <1>3 DEF setQ
  <2>2. DialogTyped'
    BY <1>1, <2>1 DEF DialogTyped
  <2>3. ListInv'
    BY <1>1, <2>1, SameList DEF DialogTyped, CallFits
  <2> QED
    BY <1>1, <2>1, <2>2, <2>3, DialogKeeps DEF DialogTyped
<1>4. CASE fetchNextPage
  <2>1. /\ dlg' = [dlg EXCEPT !.loading = TRUE] /\ UNCHANGED <<table, since, panel>>
        /\ call' = [view |-> dlg.view, offset |-> Len(dlg.pages) * PageSize]
    BY <1>4 DEF fetchNextPage
  <2>2. Len(dlg.pages) * PageSize \in Nat
    BY <1>1, HistoryAssumption DEF DialogTyped
  <2>3. /\ DialogTyped' /\ dlg'.view = dlg.view /\ dlg'.pages = dlg.pages
        /\ dlg'.open = dlg.open /\ dlg'.hasMore = dlg.hasMore
    BY <1>1, <2>1, <2>2 DEF DialogTyped
  <2>4. CallFits'
    BY <2>1, <2>3 DEF CallFits
  <2>5. ListInv'
    BY <2>1, <2>3, <2>4, SameList
  <2> QED
    BY <2>1, <2>3, <2>5, DialogKeeps
<1>5. CASE Loaded
  <2>1. /\ call # Null /\ call' = Null /\ UNCHANGED <<table, since, panel>>
        /\ dlg' = [dlg EXCEPT !.pages = Append(@, Query(call.view, call.offset)),
                              !.loading = FALSE,
                              !.hasMore = @ /\ Len(Query(call.view, call.offset)) = PageSize]
    BY <1>5 DEF Loaded
  <2>2. Query(call.view, call.offset) \in Seq(Nat)
    BY <1>1, <2>1, QueryPage DEF HInv, DialogTyped
  <2>3. Append(dlg.pages, Query(call.view, call.offset)) \in Seq(Seq(Nat))
    BY <1>1, <2>2 DEF DialogTyped
  <2>4. DialogTyped' /\ dlg'.view = dlg.view
    BY <1>1, <2>1, <2>3 DEF DialogTyped
  <2>5. ListInv'
    BY <1>5, PageArrives DEF HInv
  <2> QED
    BY <2>1, <2>4, <2>5, DialogKeeps
<1>6. CASE LoadFails
  <2>1. call' = Null /\ dlg' = [dlg EXCEPT !.loading = FALSE] /\ UNCHANGED <<table, since, panel>>
    BY <1>6 DEF LoadFails
  <2>2. DialogTyped'
    BY <1>1, <2>1 DEF DialogTyped
  <2>3. ListInv'
    BY <1>1, <2>1, SameList DEF DialogTyped, CallFits
  <2> QED
    BY <1>1, <2>1, <2>2, <2>3, DialogKeeps DEF DialogTyped
<1> QED
  BY <1>2, <1>3, <1>4, <1>5, <1>6

\* What the panel does leaves the history and the dialog alone.
LEMMA PanelKeeps ==
  ASSUME HInv, UNCHANGED <<table, dlg, call, since>>, PanelTyped', CacheInv'
  PROVE  HInv'
<1>1. TableTyped' /\ Grown
  BY SameTable DEF HInv
<1>2. DialogTyped'
  BY DEF HInv, DialogTyped
<1>3. BegunWith'
  BY <1>1, BegunStays DEF HInv
<1>4. ListInv'
  BY SameList DEF CallFits
<1> QED
  BY <1>1, <1>2, <1>3, <1>4 DEF HInv

LEMMA KeyShown ==
  ASSUME HInv, UNCHANGED <<table, dlg, call, since>>,
         NEW t \in Targets, NEW offset \in Offsets, ShowKey(t, offset)
  PROVE  HInv'
<1> DEFINE k == historyKey(t, offset)
<1>1. k \in Keys
  BY DEF historyKey, Keys
<1>2. PICK asked : /\ asked = panel.asked \cup {k} \/ asked = panel.asked
                   /\ panel' = [panel EXCEPT !.target = t, !.offset = offset, !.asked = asked]
  BY DEF ShowKey
<1>3. asked \in SUBSET Keys
  BY <1>1, <1>2 DEF HInv, PanelTyped
<1>4. PanelTyped' /\ panel'.cache = panel.cache
  BY <1>2, <1>3 DEF HInv, PanelTyped
<1>5. CacheInv'
  BY <1>4, SameTable, CacheStays DEF HInv
<1> QED
  BY <1>4, <1>5, PanelKeeps

\* A page of the history is in order.
LEMMA PageOrdered ==
  ASSUME TableTyped, NEW v \in Views, NEW offset \in Nat
  PROVE  Ordered(Query(v, offset), v.sort)
<1> DEFINE P == Query(v, offset)
           M == Matching(v)
<1>1. /\ M \in SUBSET Rows /\ P \in Seq(Nat) /\ v.sort \in Sorts
      /\ \A k \in DOMAIN P : P[k] \in M /\ Rank(P[k], M, v.sort) = offset + k - 1
  BY QueryPage DEF Views
<1> HIDE DEF P, M
<1> SUFFICES ASSUME NEW k \in 1..(Len(P) - 1), Before(v.sort, P[k + 1], P[k])
             PROVE  FALSE
  BY DEF Ordered, P
<1>2. k \in DOMAIN P /\ k + 1 \in DOMAIN P /\ k \in Nat
  BY <1>1
<1>3. P[k] \in Rows /\ P[k + 1] \in M
  BY <1>1, <1>2
<1>4. Rank(P[k + 1], M, v.sort) < Rank(P[k], M, v.sort)
  BY <1>1, <1>3, Ranks
<1>5. /\ Rank(P[k], M, v.sort) = offset + k - 1
      /\ Rank(P[k + 1], M, v.sort) = offset + (k + 1) - 1
  BY <1>1, <1>2
<1> QED
  BY <1>2, <1>4, <1>5

LEMMA PanelStepKeeps ==
  ASSUME HInv,
         (\E t \in Targets : OpenPanel(t)) \/ LoadMore \/ ClosePanel
         \/ \E k \in Keys : PanelLoaded(k) \/ PanelFails(k)
  PROVE  HInv'
<1>1. PanelTyped /\ CacheInv /\ TableTyped
  BY DEF HInv
<1>2. ASSUME NEW t \in Targets, OpenPanel(t)
      PROVE  HInv'
  <2>1. panel.offset \in Offsets
    BY <1>1 DEF PanelTyped
  <2> QED
    BY <1>2, <2>1, KeyShown DEF OpenPanel
<1>3. CASE LoadMore
  <2>1. /\ panel.target \in Targets /\ panel.offset \in Offsets /\ UNCHANGED <<table, dlg, call, since>>
        /\ PanelRows # Null /\ Len(PanelRows) = PageSize
        /\ ShowKey(panel.target, panel.offset + PageSize)
    BY <1>1, <1>3 DEF LoadMore, PanelTyped
  <2> DEFINE k == <<panel.target, panel.offset>>
  <2>2. k \in Keys /\ PanelRows = panel.cache[k] /\ PanelRows \in Seq(Nat)
    BY <1>1, <2>1 DEF Keys, PanelRows, historyKey, PanelTyped
  <2>3. PanelRows # <<>>
    BY <2>1, HistoryAssumption
  <2>4. panel.offset + PageSize <= Len(table.rows)
    <3>1. k[2] = panel.offset
      OBVIOUS
    <3> QED
      BY <1>1, <2>1, <2>2, <2>3, <3>1 DEF CacheInv
  <2>5. panel.offset + PageSize \in Offsets
    BY <1>1, <2>1, <2>4, HistoryAssumption DEF TableTyped, Offsets
  <2> QED
    BY <2>1, <2>5, KeyShown
<1>4. CASE ClosePanel
  <2>1. /\ UNCHANGED <<table, dlg, call, since>>
        /\ panel' = [panel EXCEPT !.target = Null, !.offset = 0]
    BY <1>4 DEF ClosePanel
  <2>2. 0 \in Offsets
    BY HistoryAssumption DEF Offsets
  <2>3. PanelTyped' /\ panel'.cache = panel.cache
    BY <1>1, <2>1, <2>2 DEF PanelTyped
  <2>4. CacheInv'
    BY <1>1, <2>1, <2>3, SameTable, CacheStays
  <2> QED
    BY <2>1, <2>3, <2>4, PanelKeeps
<1>5. ASSUME NEW k \in Keys, PanelLoaded(k)
      PROVE  HInv'
  <2> DEFINE v == PanelView(k[1])
             P == Query(v, k[2])
  <2>1. /\ UNCHANGED <<table, dlg, call, since>>
        /\ panel' = [panel EXCEPT !.asked = @ \ {k}, !.cache[k] = P]
    BY <1>5 DEF PanelLoaded
  <2>2. k[1] \in Targets /\ k[2] \in Nat
    BY HistoryAssumption DEF Keys, Offsets
  <2>3. v \in Views /\ v.sort = "newest"
    BY <2>2 DEF PanelView, Views, Sorts
  <2>4. /\ P \in Seq(Nat) /\ \A m \in DOMAIN P : P[m] \in Matching(v)
        /\ Matching(v) \in SUBSET Rows
        /\ P # <<>> => k[2] + Len(P) <= Len(table.rows)
    BY <1>1, <2>2, <2>3, QueryPage
  <2>5. Ordered(P, "newest")
    BY <1>1, <2>2, <2>3, PageOrdered
  <2> HIDE DEF P
  <2>6. /\ PanelTyped' /\ panel'.cache[k] = P
        /\ \A j \in Keys \ {k} : panel'.cache[j] = panel.cache[j]
    BY <1>1, <2>1, <2>4 DEF PanelTyped
  <2>7. CacheInv'
    <3> SUFFICES ASSUME NEW j \in Keys, panel'.cache[j] # Null, NEW c, c = panel'.cache[j]
                 PROVE  /\ \A m \in DOMAIN c : c[m] \in Rows /\ Matches(c[m], PanelView(j[1]))
                        /\ Ordered(c, "newest")
                        /\ c # <<>> => j[2] + Len(c) <= Len(table.rows)
      BY <2>1 DEF CacheInv, Rows, Matches, Ordered, Before
    <3>1. CASE j = k
      BY <2>4, <2>5, <2>6, <3>1 DEF Matching
    <3>2. CASE j # k
      BY <1>1, <2>6, <3>2 DEF CacheInv
    <3> QED
      BY <3>1, <3>2
  <2> QED
    BY <2>1, <2>6, <2>7, PanelKeeps
<1>6. ASSUME NEW k \in Keys, PanelFails(k)
      PROVE  HInv'
  <2>1. /\ UNCHANGED <<table, dlg, call, since>> /\ panel' = [panel EXCEPT !.asked = @ \ {k}]
    BY <1>6 DEF PanelFails
  <2>2. PanelTyped' /\ panel'.cache = panel.cache
    BY <1>1, <2>1 DEF PanelTyped
  <2>3. CacheInv'
    BY <1>1, <2>1, <2>2, SameTable, CacheStays
  <2> QED
    BY <2>1, <2>2, <2>3, PanelKeeps
<1> QED
  BY <1>2, <1>3, <1>4, <1>5, <1>6

-----------------------------------------------------------------------------
(* Results *)

LEMMA HistoryStarts ==
  ASSUME HistoryInit
  PROVE  HInv
<1>1. PICK rows \in Recorded : table = [rows |-> rows, first |-> 1]
  BY DEF HistoryInit
<1>2. TableTyped
  <2>1. rows \in Seq(RecordedRow) /\ Len(rows) <= MaxRows
    BY HistoryAssumption DEF RecordedRow
  <2> QED
    BY <1>1, <2>1 DEF TableTyped
<1>3. DialogTyped
  <2>1. <<>> \in Seq(Seq(Nat)) /\ 1 \in Int
    OBVIOUS
  <2> QED
    BY <2>1 DEF HistoryInit, DialogTyped, Views, Sorts
<1>4. PanelTyped
  BY HistoryAssumption DEF HistoryInit, PanelTyped, Offsets
<1>5. BegunWith /\ ListInv
  BY DEF HistoryInit, BegunWith, ListInv
<1>6. CacheInv
  BY DEF HistoryInit, CacheInv
<1> QED
  BY <1>2, <1>3, <1>4, <1>5, <1>6 DEF HInv

LEMMA HistoryStep ==
  ASSUME HInv, [HistoryNext]_historyVars
  PROVE  HInv'
<1>1. CASE UNCHANGED historyVars
  <2>1. UNCHANGED <<table, dlg, call, since, panel>>
    BY <1>1 DEF historyVars
  <2>2. PanelTyped' /\ CacheInv'
    BY <2>1, SameTable, CacheStays DEF HInv, PanelTyped
  <2> QED
    BY <2>1, <2>2, PanelKeeps
<1>2. ASSUME NEW t \in Targets, NEW s \in Verdicts, JobEnds(t, s)
      PROVE  HInv'
  BY <1>2, JobEndsKeeps
<1>3. ASSUME NEW n \in 1..(MaxRows + 1), Retention(n)
      PROVE  HInv'
  BY <1>3, RetentionKeeps
<1>4. CASE Begins
  BY <1>4, BeginsWipes, WipedKeeps DEF HInv
<1>5. CASE CloseDialog \/ (\E t \in Targets \cup {Null} : setQ(t)) \/ fetchNextPage
           \/ Loaded \/ LoadFails
  BY <1>5, DialogStepKeeps
<1>6. CASE (\E t \in Targets : OpenPanel(t)) \/ LoadMore \/ ClosePanel
           \/ \E k \in Keys : PanelLoaded(k) \/ PanelFails(k)
  BY <1>6, PanelStepKeeps
<1>7. CASE HistoryNext
  BY <1>2, <1>3, <1>4, <1>5, <1>6, <1>7 DEF HistoryNext, Begins, LoadFirst, Sentinel
<1> QED
  BY <1>1, <1>7

\* The state of both windows is well-formed, and while the list is read its next
\* answer is the next page, nothing of the beginning is missing among the rows
\* that would now be on the pages loaded, and the panel keeps only pages in order.
THEOREM HistoryInvariant ==
  HistorySpec => []HInv
<1>1. HistoryInit => HInv
  BY HistoryStarts
<1>2. HInv /\ [HistoryNext]_historyVars => HInv'
  BY HistoryStep
<1> QED
  BY <1>1, <1>2, PTL DEF HistorySpec

\* Both windows show what was asked for, in order and without a gap, whatever
\* happens to the history between two pages (QueryHistoryDialog fetchNextPage,
\* CompileHistoryPanel).
THEOREM ListsAnswerTheirView ==
  HistorySpec => []RowsAnswerView
<1>1. HInv => RowsAnswerView
  <2> SUFFICES ASSUME HInv
               PROVE  RowsAnswerView
    OBVIOUS
  <2>1. ASSUME dlg.open, since.calm
        PROVE  /\ \A i \in ListRows : Matches(i, dlg.view)
               /\ dlg.view.sort = "newest" \/ ~since.purged =>
                    /\ InOrder
                    /\ ~dlg.hasMore => since.ids \cap Ids \subseteq ListRows
    BY <2>1 DEF HInv, ListInv, RowsFit, Kept, Complete
  <2>2. ASSUME panel.target # Null, PanelRows # Null
        PROVE  /\ \A i \in ToSet(PanelRows) : Matches(i, PanelView(panel.target))
               /\ Ordered(PanelRows, "newest")
    <3> DEFINE k == <<panel.target, panel.offset>>
    <3>1. k \in Keys /\ PanelRows = panel.cache[k] /\ k[1] = panel.target
      BY <2>2 DEF HInv, PanelTyped, Keys, PanelRows, historyKey
    <3> QED
      BY <2>2, <3>1 DEF HInv, CacheInv, ToSet
  <2> QED
    BY <2>1, <2>2 DEF RowsAnswerView
<1> QED
  BY <1>1, HistoryInvariant, PTL

=============================================================================
