-------------------------- MODULE FleetPageProofs --------------------------
(* Proofs about FleetPage for any devices, workers, versions, rules and       *)
(* budgets: what the page does with rows, versions and devices it has read    *)
(* some time ago, while jobs go on and others edit.                           *)
EXTENDS FleetPage, FiniteSetTheorems, TLAPS

----------------------------------------------------------------------------
(* The inductive invariant: types, and what an operation under way may rely on. *)

Seed == [pin : Workers \cup {None}, filter : Clause \cup {NoFilter}]
DeviceMeta ==
  [tags : SUBSET DeviceTags, pin : Versions \cup {None}, cron : BOOLEAN, once : BOOLEAN]
WorkerInfo ==
  [tags : SUBSET WorkerTags, online : BOOLEAN, slots : 0..MaxSlots, want : 0..MaxSlots \cup {None}]
Table == [JobIds -> Row \cup {NoRow}]

\* Ids that were not given out have no row.
Unborn(R) == \A i \in JobIds : i >= next => R[i] = NoRow

ServerOK ==
  /\ rows \in Table /\ next \in 1..(MaxJobs + 1) /\ Unborn(rows)
  /\ dev \in [Targets -> DeviceMeta] /\ fleet \in [Workers -> WorkerInfo]
  /\ default \in Versions

\* What the page has read, at some time or other.
SeenOK ==
  /\ DOMAIN seen = {"rows", "dev", "fleet", "rules", "default"}
  /\ seen.rows \in Table /\ Unborn(seen.rows)
  /\ seen.dev \in [Targets -> DeviceMeta] /\ seen.fleet \in [Workers -> WorkerInfo]
  /\ seen.default \in Versions

UpgradeDlg ==
  [kind : {"upgrade"}, targets : (SUBSET Targets) \ {{}}, fetch : BOOLEAN, seed : Seed]
BulkDlg == [kind : {"bulk"}, targets : (SUBSET Targets) \ {{}}]
InstallDlg == [kind : {"install"}, targets : (SUBSET Targets) \ {{}}, confirming : BOOLEAN]

DlgOK ==
  \/ dlg = NoDlg \/ dlg \in UpgradeDlg \/ dlg \in BulkDlg \/ dlg \in InstallDlg
  \/ dlg.kind = "rules" /\ DOMAIN dlg = {"kind", "link", "mode", "rule", "fetch"}

\* Functions that give a value of V to some of the devices.
PerDevice(V) == UNION {[S -> V] : S \in SUBSET Targets}

Question ==
  [pin : Workers \cup {None}, filter : Clause \cup {NoFilter}, version : Versions \cup {None},
   download_only : BOOLEAN, address : BOOLEAN, bypass : BOOLEAN]
ClearTask == [kind : {"clear"}, ids : SUBSET JobIds, stage : {"cancel", "clear"}]
CompileTask ==
  [kind : {"compile"}, stage : {"pin", "post", "loop"}, targets : (SUBSET Targets) \ {{}},
   todo : SUBSET Targets, pinTo : Versions \cup {None}, base : Versions \cup {None},
   chosen : Versions \cup {None}, q : Question, fresh : BOOLEAN]
FanTask ==
  [kind : {"fan"}, op : {"cron", "once", "unschedule", "tags"},
   st : PerDevice({"version", "write", "done", "failed"}),
   arg : Versions \cup {None} \cup PerDevice(SUBSET DeviceTags), apply : BOOLEAN,
   pins : PerDevice(Versions \cup {None}), touched : SUBSET Targets]

\* Clear Entire Queue: the jobs it is about exist or existed, and none of them runs
\* after the first request.
ClearOK ==
  task \in ClearTask =>
    \A i \in task.ids : /\ i < next
                        /\ task.stage = "clear" => rows[i].state \in Terminal \cup {"none"}

\* Some device of the selection must not be built by the worker w.
Excluded(targets, w) == \E s \in targets : ~IsEligible(dev[s].tags, fleet[w].tags, rules)

\* A device that "Current" or the default would build with its pin, and the window
\* does not move the pin.
KeepsPin(k) == k.q.download_only \/ Cardinality(k.targets) > 1

CompileOK ==
  task \in CompileTask =>
    /\ task.todo \subseteq task.targets
    /\ task.stage = "pin" => task.pinTo = task.chosen /\ task.chosen # None
                             /\ Cardinality(task.targets) = 1
    /\ task.stage = "loop" => task.base \in Versions
    /\ task.fresh =>
         /\ task.q.pin # None => (task.q.bypass <=> Excluded(task.targets, task.q.pin))
         /\ task.stage = "loop" => task.base = default
         /\ task.chosen # None /\ task.q.version # None => task.q.version = task.chosen
         /\ task.chosen # None /\ task.q.version = None =>
              /\ task.chosen = default
              /\ \/ task.stage = "pin" \/ KeepsPin(task)
                 \/ \A t \in task.targets : dev[t].pin \in {None, task.chosen}

\* What device t has once its chain of requests is through.
Asked(t) ==
  CASE task.op = "unschedule" -> ~dev[t].cron /\ ~dev[t].once
    [] task.op = "tags" -> dev[t].tags = task.arg[t]
    [] task.op = "cron" -> dev[t].cron
    [] task.op = "once" -> dev[t].once

FanOK ==
  task \in FanTask =>
    /\ DOMAIN task.pins = DOMAIN task.st
    /\ task.op = "tags" => task.arg \in [DOMAIN task.st -> SUBSET DeviceTags]
    /\ task.apply => task.arg \in Versions \cup {None}
    /\ \A t \in DOMAIN task.st : task.st[t] = "version" => task.apply
    /\ \A t \in DOMAIN task.st \ task.touched :
         /\ task.st[t] = "version" => dev[t].pin = task.pins[t]
         /\ task.st[t] \in {"write", "done"} /\ task.apply => dev[t].pin = task.arg
         /\ task.st[t] = "done" => Asked(t)

TaskOK == task \in {NoTask} \cup ClearTask \cup CompileTask \cup FanTask

PageInv ==
  /\ ServerOK /\ SeenOK /\ DlgOK /\ TaskOK
  /\ FinishedStays /\ ClearOK /\ CompileOK /\ FanOK

----------------------------------------------------------------------------
(* What a step may do to the rows of the queue. *)

Ended == Terminal \cup {"none"}

\* A row that has ended, for the queue or for the page, stays that way or goes.
Steady(a, b) ==
  /\ ~isJobInProgress(a) => ~isJobInProgress(b)
  /\ a.state \in Ended => b.state \in Ended

RowStep ==
  /\ rows' \in Table /\ next' \in 1..(MaxJobs + 1) /\ next <= next'
  /\ Unborn(rows)'
  /\ \A i \in JobIds : i < next => Steady(rows[i], rows'[i])

LEMMA Numbers == JobIds \subseteq Nat /\ MaxJobs \in Nat /\ (ServerOK => next \in Nat)
  BY ServerAssumption DEF JobIds, ServerOK

LEMMA NoRowFacts ==
  /\ NoRow.state = "none" /\ ~isJobInProgress(NoRow)
  /\ \A a : Steady(a, NoRow) /\ Steady(a, a)
  BY DEF NoRow, isJobInProgress, Steady, Ended

\* Only rows with a place change, one by one, and no id is given out.
LEMMA RowsChange ==
  ASSUME ServerOK, UNCHANGED next, rows' \in Table,
         \A i \in JobIds : \/ rows'[i] \in {rows[i], NoRow}
                           \/ rows[i].state # "none" /\ Steady(rows[i], rows'[i])
  PROVE  RowStep
<1>0. \A i \in JobIds : i >= next => rows[i] = NoRow /\ rows[i].state = "none"
  BY NoRowFacts DEF Unborn, ServerOK
<1>1. Unborn(rows)'
  BY <1>0 DEF Unborn
<1>2. \A i \in JobIds : Steady(rows[i], rows'[i])
  BY NoRowFacts
<1>3. next' \in 1..(MaxJobs + 1) /\ next <= next'
  BY ServerAssumption DEF ServerOK
<1> QED
  BY <1>1, <1>2, <1>3 DEF RowStep

LEMMA RowsStay ==
  ASSUME ServerOK, UNCHANGED <<rows, next>>
  PROVE  RowStep
  BY RowsChange DEF ServerOK

\* Rows that are taken out.
LEMMA RemovedRows ==
  ASSUME ServerOK, NEW ids, rows' = Removed(rows, ids), UNCHANGED next
  PROVE  RowStep
<1>1. rows' \in Table /\ \A i \in JobIds : rows'[i] \in {rows[i], NoRow}
  BY DEF Removed, Table, ServerOK
<1> QED
  BY <1>1, RowsChange

LEMMA CancelRows ==
  ASSUME ServerOK, NEW ids, rows' = Cancel(ids), UNCHANGED next
  PROVE  /\ RowStep
         /\ \A i \in ids \cap JobIds : rows'[i].state \in Ended
<1>1. ASSUME NEW i \in JobIds
      PROVE  /\ rows'[i] \in Row \cup {NoRow}
             /\ \/ rows'[i] = rows[i]
                \/ rows[i].state # "none" /\ Steady(rows[i], rows'[i])
             /\ i \in ids => rows'[i].state \in Ended
  <2>1. rows[i] \in Row \cup {NoRow}
    BY DEF ServerOK, Table
  <2>2. CASE i \in ids /\ rows[i].state \in {"pending", "working", "blocked"}
    <3>1. rows'[i] = [rows[i] EXCEPT !.state = "cancelled"]
      BY <2>2 DEF Cancel
    <3>2. rows[i] \in Row
      BY <2>1, <2>2, NoRowFacts
    <3>3. rows'[i] \in Row /\ rows'[i].state = "cancelled"
      BY <3>1, <3>2 DEF Row, States
    <3> QED
      BY <2>2, <3>3 DEF Steady, isJobInProgress, Ended, Terminal
  <2>3. CASE ~(i \in ids /\ rows[i].state \in {"pending", "working", "blocked"})
    <3>1. rows'[i] = rows[i]
      BY <2>3 DEF Cancel
    <3>2. rows[i].state \in {"pending", "working", "blocked"} \cup Ended
      BY <2>1, NoRowFacts DEF Row, States, Ended, Terminal
    <3> QED
      BY <2>1, <2>3, <3>1, <3>2
  <2> QED
    BY <2>2, <2>3
<1>2. rows' \in Table
  BY <1>1 DEF Cancel, Table
<1> QED
  BY <1>1, <1>2, RowsChange

\* One row is replaced.
LEMMA OneRow ==
  ASSUME ServerOK, UNCHANGED next, NEW i \in JobIds, NEW b \in Row,
         rows' = [rows EXCEPT ![i] = b], rows[i].state # "none", Steady(rows[i], b)
  PROVE  RowStep
<1>1. rows' \in Table /\ \A k \in JobIds : rows'[k] = IF k = i THEN b ELSE rows[k]
  BY DEF ServerOK, Table
<1> QED
  BY <1>1, RowsChange

LEMMA RowThere ==
  ASSUME ServerOK, NEW i \in JobIds, rows[i].state # "none"
  PROVE  rows[i] \in Row
  BY NoRowFacts DEF ServerOK, Table

LEMMA ClaimRows ==
  ASSUME ServerOK, NEW i \in JobIds, Claim(i)
  PROVE  RowStep
<1>1. PICK w \in Workers : rows' = [rows EXCEPT ![i].state = "working", ![i].followup = FALSE,
                                                ![i].worker = w]
  BY DEF Claim
<1> DEFINE b == [rows[i] EXCEPT !.state = "working", !.followup = FALSE, !.worker = w]
<1>2. rows[i].state = "pending" /\ rows[i] \in Row /\ UNCHANGED next
  BY RowThere DEF Claim
<1>3. b \in Row
  BY <1>2 DEF Row, States
<1>4. Steady(rows[i], b)
  BY <1>2 DEF Steady, isJobInProgress, Ended, Terminal
<1>5. rows' = [rows EXCEPT ![i] = b]
  BY <1>1
<1> HIDE DEF b
<1> QED
  BY <1>2, <1>3, <1>4, <1>5, OneRow

LEMMA FinishRows ==
  ASSUME ServerOK, NEW i \in JobIds, Finish(i)
  PROVE  RowStep
<1>1. rows[i].state = "working" /\ rows[i] \in Row /\ UNCHANGED next
  BY RowThere DEF Finish
<1>2. \A b : Steady(rows[i], b)
  BY <1>1 DEF Steady, isJobInProgress, Ended, Terminal
<1>3. \E b \in Row : rows' = [rows EXCEPT ![i] = b]
  <2>1. CASE rows' = [rows EXCEPT ![i].state = "failed"]
    <3>1. [rows[i] EXCEPT !.state = "failed"] \in Row
      BY <1>1 DEF Row, States
    <3> QED
      BY <2>1, <3>1
  <2>2. CASE rows' = [rows EXCEPT ![i].state = "timed_out"]
    <3>1. [rows[i] EXCEPT !.state = "timed_out"] \in Row
      BY <1>1 DEF Row, States
    <3> QED
      BY <2>2, <3>1
  <2>3. ASSUME NEW ota \in OtaResults, rows' = [rows EXCEPT ![i].state = "success", ![i].ota = ota]
        PROVE  \E b \in Row : rows' = [rows EXCEPT ![i] = b]
    <3>1. [rows[i] EXCEPT !.state = "success", !.ota = ota] \in Row
      BY <1>1 DEF Row, States
    <3> QED
      BY <2>3, <3>1
  <2> QED
    BY <2>1, <2>2, <2>3 DEF Finish
<1> QED
  BY <1>1, <1>2, <1>3, OneRow

LEMMA OtaRows ==
  ASSUME ServerOK, NEW i \in JobIds, OtaEnds(i)
  PROVE  RowStep
<1>1. /\ rows[i].state = "success" /\ rows[i].ota = "none" /\ ~rows[i].download_only
      /\ rows[i] \in Row /\ UNCHANGED next
  BY RowThere DEF OtaEnds
<1>2. PICK ota \in {"success", "failed"} : rows' = [rows EXCEPT ![i].ota = ota]
  BY DEF OtaEnds
<1> DEFINE b == [rows[i] EXCEPT !.ota = ota]
<1>3. b \in Row /\ b.state = "success"
  BY <1>1, <1>2 DEF Row, OtaResults
<1>4. Steady(rows[i], b)
  BY <1>1, <1>3 DEF Steady, isJobInProgress, Ended, Terminal
<1>5. rows' = [rows EXCEPT ![i] = b]
  BY <1>2
<1> HIDE DEF b
<1> QED
  BY <1>1, <1>3, <1>4, <1>5, OneRow

LEMMA SweepRows ==
  ASSUME ServerOK, Sweep
  PROVE  RowStep
<1>1. UNCHANGED next
  BY DEF Sweep
<1>2. ASSUME NEW i \in JobIds
      PROVE  /\ rows'[i] \in Row \cup {NoRow}
             /\ rows'[i] = rows[i] \/ (rows[i].state # "none" /\ Steady(rows[i], rows'[i]))
  <2>1. rows[i] \in Row \cup {NoRow}
    BY DEF ServerOK, Table
  <2>2. CASE rows[i].state \notin {"pending", "blocked"}
    BY <2>1, <2>2 DEF Sweep
  <2>3. CASE rows[i].state \in {"pending", "blocked"}
    <3>1. PICK st \in {"pending", "blocked"} : rows'[i] = [rows[i] EXCEPT !.state = st]
      BY <2>3 DEF Sweep
    <3>2. rows[i] \in Row
      BY <2>3, RowThere
    <3>3. rows'[i] \in Row
      BY <3>1, <3>2 DEF Row, States
    <3> QED
      BY <2>3, <3>3 DEF Steady, isJobInProgress, Ended, Terminal
  <2> QED
    BY <2>2, <2>3
<1>3. rows' \in Table
  BY <1>2 DEF Sweep, Table
<1> QED
  BY <1>1, <1>2, <1>3, RowsChange

LEMMA EffectiveType ==
  ASSUME ServerOK, NEW t \in Targets, NEW o \in Versions \cup {None}, NEW base \in Versions
  PROVE  EffectiveVersion(t, o, base) \in Versions
  BY DEF EffectiveVersion, ServerOK, DeviceMeta

\* A request for one device changes at most one row, and that row is for the device and
\* of the version that counts for it.
LEMMA EnqueueRows ==
  ASSUME ServerOK, NEW t \in Targets, NEW q \in Question, NEW base \in Versions,
         Enqueue(t, q, base)
  PROVE  /\ RowStep
         /\ rows' # rows =>
              \E i \in JobIds : /\ rows'[i] # rows[i] /\ rows'[i].target = t
                                /\ rows'[i].version = EffectiveVersion(t, q.version, base)
<1> DEFINE mine == OfTarget(t)
           followups == {i \in mine : rows[i].state = "pending" /\ rows[i].followup}
           active == {i \in mine : rows[i].state \in {"pending", "working"} /\ i \notin followups}
           stale == {i \in mine : rows[i].state \in Terminal \cup {"blocked"}}
           version == EffectiveVersion(t, q.version, base)
           row == [target |-> t, state |-> "pending", ota |-> "none",
                   download_only |-> q.download_only, version |-> version,
                   pin |-> q.pin, filter |-> q.filter, bypass |-> q.bypass,
                   followup |-> active # {}, address |-> q.address, worker |-> None]
<1>1. version \in Versions
  BY EffectiveType DEF Question
<1>2. ASSUME UNCHANGED next, NEW f \in followups,
             rows' = [rows EXCEPT ![f].version = version, ![f].pin = q.pin,
                                  ![f].filter = q.filter, ![f].bypass = q.bypass,
                                  ![f].address = q.address]
      PROVE  /\ RowStep
             /\ rows' # rows => \E i \in JobIds : /\ rows'[i] # rows[i] /\ rows'[i].target = t
                                                  /\ rows'[i].version = version
  <2> HIDE DEF version
  <2> DEFINE b == [rows[f] EXCEPT !.version = version, !.pin = q.pin, !.filter = q.filter,
                                  !.bypass = q.bypass, !.address = q.address]
  <2>1. f \in JobIds /\ rows[f].state = "pending" /\ rows[f].target = t
    BY DEF OfTarget
  <2>2. rows[f] \in Row
    BY <2>1, RowThere
  <2>3. b \in Row /\ b.state = "pending" /\ b.version = version /\ b.target = t
    BY <1>1, <2>1, <2>2 DEF Row, Question
  <2>4. rows' = [rows EXCEPT ![f] = b]
    BY <1>2
  <2> HIDE DEF b
  <2>5. Steady(rows[f], b)
    BY <2>1, <2>3 DEF Steady, isJobInProgress, Ended, Terminal
  <2>6. RowStep
    BY <1>2, <2>1, <2>3, <2>4, <2>5, OneRow
  <2>7. rows'[f] = b /\ (b = rows[f] => rows' = rows)
    BY <2>1, <2>4 DEF ServerOK, Table
  <2> QED
    BY <2>1, <2>3, <2>6, <2>7
<1>3. ASSUME next <= MaxJobs, next' = next + 1,
             rows' = [i \in JobIds |-> IF i = next THEN row
                                       ELSE IF i \in stale THEN NoRow ELSE rows[i]]
      PROVE  /\ RowStep
             /\ \E i \in JobIds : /\ rows'[i] # rows[i] /\ rows'[i].target = t
                                  /\ rows'[i].version = version
  <2>1. row \in Row /\ row.target = t /\ row.version = version /\ row.state = "pending"
    BY <1>1 DEF Row, Question, States, OtaResults
  <2> HIDE DEF row, version, stale
  <2>2. next \in JobIds /\ next \in Nat /\ next' \in 1..(MaxJobs + 1)
    BY <1>3, ServerAssumption DEF ServerOK, JobIds
  <2>3. rows'[next] = row /\ rows[next] = NoRow
    BY <1>3, <2>2 DEF ServerOK, Unborn
  <2>4. \A i \in JobIds : i = next \/ rows'[i] \in {rows[i], NoRow}
    BY <1>3
  <2>5. rows' \in Table
    BY <1>3, <2>1 DEF Table, ServerOK
  <2>6. \A i \in JobIds : i >= next => rows[i] = NoRow
    BY DEF ServerOK, Unborn
  <2>7. \A i \in JobIds : i >= next' => i # next /\ i >= next
    BY <1>3, <2>2, Numbers
  <2>8. Unborn(rows)'
    BY <2>4, <2>6, <2>7 DEF Unborn
  <2>9. \A i \in JobIds : i < next => Steady(rows[i], rows'[i])
    BY <2>2, <2>4, NoRowFacts, Numbers
  <2>10. next <= next'
    BY <1>3, <2>2
  <2>11. RowStep
    BY <2>2, <2>5, <2>8, <2>9, <2>10 DEF RowStep
  <2>12. rows'[next] # rows[next]
    BY <2>1, <2>3, NoRowFacts
  <2> QED
    BY <2>1, <2>2, <2>3, <2>11, <2>12
<1>4. CASE UNCHANGED <<rows, next>>
  BY <1>4, RowsStay
<1>5. \/ \E f \in followups :
             /\ rows' = [rows EXCEPT ![f].version = version, ![f].pin = q.pin,
                                     ![f].filter = q.filter, ![f].bypass = q.bypass,
                                     ![f].address = q.address]
             /\ UNCHANGED next
      \/ UNCHANGED <<rows, next>>
      \/ /\ next <= MaxJobs /\ next' = next + 1
         /\ rows' = [i \in JobIds |-> IF i = next THEN row
                                      ELSE IF i \in stale THEN NoRow ELSE rows[i]]
  BY DEF Enqueue
<1> QED
  BY <1>2, <1>3, <1>4, <1>5

\* The rows that take the place of the jobs that are run again get ids of their own.
LEMMA ListOf ==
  ASSUME NEW S, IsFiniteSet(S)
  PROVE  SetToSeq(S) \in [1..Cardinality(S) -> S] /\ Cardinality(S) \in Nat
<1>1. \E f \in [1..Cardinality(S) -> S] : IsInjective(f)
  BY FS_CardinalityType DEF ExistsBijection, Bijection, Injection
<1> QED
  BY <1>1, FS_CardinalityType DEF SetToSeq

LEMMA RetryRows ==
  ASSUME ServerOK, NEW ids, ids \subseteq JobIds, Retry(ids)
  PROVE  RowStep
<1> DEFINE ended == {i \in ids : rows[i].state \in Terminal}
           Same(a, b) == rows[a].target = rows[b].target
           Fresh(old) == [NoRow EXCEPT !.target = old.target, !.state = "pending",
                            !.version = EffectiveVersion(old.target, None, default),
                            !.pin = IF old.state = "success" /\ old.ota = "failed"
                                    THEN old.worker ELSE old.pin]
<1>1. PICK again \in SUBSET ended :
        /\ next + Cardinality(again) <= MaxJobs + 1
        /\ rows' = [i \in JobIds |->
             IF rows[i].state \in Terminal /\ \E a \in again : Same(i, a) THEN NoRow
             ELSE IF i - next + 1 \in DOMAIN SetToSeq(again)
                  THEN Fresh(rows[SetToSeq(again)[i - next + 1]])
             ELSE rows[i]]
        /\ next' = next + Cardinality(again)
  BY DEF Retry
<1>2. IsFiniteSet(JobIds)
  BY FS_Interval, ServerAssumption DEF JobIds
<1>3. IsFiniteSet(again)
  BY <1>2, FS_Subset
<1> DEFINE new == SetToSeq(again)
           n == Cardinality(again)
<1>4. new \in [1..n -> again] /\ n \in Nat
  BY <1>3, ListOf
<1>5. ASSUME NEW i \in JobIds, rows[i].state \in Terminal
      PROVE  Fresh(rows[i]) \in Row
  <2>1. rows[i] \in Row /\ default \in Versions /\ None \in Versions \cup {None}
    BY <1>5, RowThere DEF Terminal, ServerOK
  <2>2. EffectiveVersion(rows[i].target, None, default) \in Versions
    BY <2>1, EffectiveType DEF Row
  <2>3. PICK pin \in Workers \cup {None}, v \in Versions :
          Fresh(rows[i]) = [NoRow EXCEPT !.target = rows[i].target, !.state = "pending",
                                         !.version = v, !.pin = pin]
    BY <2>1, <2>2 DEF Row
  <2> HIDE DEF Fresh
  <2> DEFINE Blank == [target : Targets \cup {None}, state : States \cup {"none"}, ota : OtaResults,
                       download_only : BOOLEAN, version : Versions \cup {None},
                       pin : Workers \cup {None}, filter : Clause \cup {NoFilter}, bypass : BOOLEAN,
                       followup : BOOLEAN, address : BOOLEAN, worker : Workers \cup {None}]
  <2>4. NoRow \in Blank
    BY DEF NoRow, OtaResults
  <2>5. rows[i].target \in Targets /\ "pending" \in States
    BY <2>1 DEF Row, States
  <2> QED
    BY <2>3, <2>4, <2>5 DEF Row
<1> HIDE DEF Fresh, Same, new, n
<1>6. \A k \in 1..n : Fresh(rows[new[k]]) \in Row
  BY <1>4, <1>5
<1>7. next \in Nat /\ MaxJobs \in Nat /\ next' = next + n /\ next + n <= MaxJobs + 1 /\ next >= 1
  BY <1>1, <1>4, ServerAssumption DEF ServerOK, n
<1>8. ASSUME NEW i \in JobIds
      PROVE  /\ rows'[i] \in Row \cup {NoRow}
             /\ i < next \/ i >= next + n => rows'[i] \in {rows[i], NoRow}
  <2>1. i \in Nat /\ DOMAIN new = 1..n
    BY <1>4, Numbers
  <2>2. rows'[i] = IF rows[i].state \in Terminal /\ \E a \in again : Same(i, a) THEN NoRow
                   ELSE IF i - next + 1 \in 1..n THEN Fresh(rows[new[i - next + 1]])
                   ELSE rows[i]
    BY <1>1, <2>1 DEF new
  <2>3. i < next \/ i >= next + n => i - next + 1 \notin 1..n
    BY <1>4, <1>7, <2>1
  <2>4. rows[i] \in Row \cup {NoRow}
    BY DEF ServerOK, Table
  <2>5. rows'[i] \in Row \cup {NoRow}
    BY <1>6, <2>2, <2>4
  <2> QED
    BY <2>2, <2>3, <2>5
<1>9. rows' \in Table
  BY <1>1, <1>8 DEF Table
<1>10. \A i \in JobIds : i >= next => rows[i] = NoRow
  BY DEF ServerOK, Unborn
<1>11. \A i \in JobIds : i >= next' => i >= next /\ i >= next + n
  BY <1>4, <1>7, Numbers
<1>12. Unborn(rows)'
  BY <1>8, <1>10, <1>11 DEF Unborn
<1>13. \A i \in JobIds : i < next => Steady(rows[i], rows'[i])
  BY <1>8, NoRowFacts
<1>14. next' \in 1..(MaxJobs + 1) /\ next <= next'
  BY <1>4, <1>7
<1> QED
  BY <1>9, <1>12, <1>13, <1>14 DEF RowStep

----------------------------------------------------------------------------
(* What the page has seen. *)

SeenStep ==
  /\ DOMAIN seen' = DOMAIN seen
  /\ seen'.rows \in {seen.rows, rows'} /\ seen'.dev \in {seen.dev, dev'}
  /\ seen'.fleet \in {seen.fleet, fleet'} /\ seen'.default \in {seen.default, default'}

MetaStep ==
  /\ dev' \in [Targets -> DeviceMeta] /\ fleet' \in [Workers -> WorkerInfo]
  /\ default' \in Versions

\* A job the page shows as finished stays so, whichever rows are read again.
LEMMA SeenAfter ==
  ASSUME ServerOK, SeenOK, FinishedStays, RowStep, SeenStep, MetaStep
  PROVE  ServerOK' /\ SeenOK' /\ FinishedStays'
<1>1. ServerOK'
  BY DEF ServerOK, RowStep, MetaStep
<1>2. next \in Nat /\ next' \in Nat /\ next <= next' /\ \A i \in JobIds : i \in Nat
  BY ServerAssumption, Numbers DEF ServerOK, RowStep
<1>3. ASSUME NEW i \in JobIds, i >= next'
      PROVE  seen'.rows[i] = NoRow
  <2>1. i >= next
    BY <1>2, <1>3
  <2>2. seen.rows[i] = NoRow /\ rows'[i] = NoRow
    BY <1>3, <2>1 DEF SeenOK, Unborn, RowStep
  <2> QED
    BY <2>2 DEF SeenStep
<1>4. SeenOK'
  <2>1. Unborn(seen.rows)'
    BY <1>3 DEF Unborn
  <2>2. seen'.rows \in Table
    BY DEF SeenStep, SeenOK, RowStep
  <2> QED
    BY <2>1, <2>2 DEF SeenOK, SeenStep, MetaStep, ServerOK, Table
<1>5. ASSUME NEW i \in JobIds, seen'.rows[i].state # "none", isJobFinished(seen'.rows[i])
      PROVE  isJobFinished(rows'[i])
  <2>1. CASE seen'.rows = rows'
    BY <1>5, <2>1
  <2>2. CASE seen'.rows = seen.rows
    <3>1. i < next
      BY <1>2, <1>5, <2>2, NoRowFacts DEF SeenOK, Unborn
    <3>2. rows[i].state = "none" \/ isJobFinished(rows[i])
      BY <1>5, <2>2 DEF FinishedStays, Ids
    <3>3. ~isJobInProgress(rows[i])
      BY <3>2 DEF isJobFinished, isJobInProgress
    <3> QED
      BY <3>1, <3>3 DEF RowStep, Steady, isJobFinished
  <2> QED
    BY <2>1, <2>2 DEF SeenStep
<1>6. FinishedStays'
  BY <1>5 DEF FinishedStays, Ids
<1> QED
  BY <1>1, <1>4, <1>6

\* Seeing nothing new, or one thing.
LEMMA SeenSame ==
  ASSUME SeenOK, UNCHANGED seen
  PROVE  SeenStep
  BY DEF SeenStep

LEMMA SeenOne ==
  ASSUME SeenOK, NEW R, NEW k \in DOMAIN seen, seen' \in {seen, [seen EXCEPT ![k] = R]},
         \/ k = "rows" /\ R = rows'
         \/ k = "dev" /\ R = dev'
         \/ k = "fleet" /\ R = fleet'
         \/ k = "default" /\ R = default'
         \/ k = "rules"
  PROVE  SeenStep
  BY DEF SeenStep, SeenOK

LEMMA MetaSame ==
  ASSUME ServerOK, UNCHANGED <<dev, fleet, default>>
  PROVE  MetaStep
  BY DEF ServerOK, MetaStep

----------------------------------------------------------------------------
(* What an operation under way relies on. *)

Tasks == TaskOK /\ ClearOK /\ CompileOK /\ FanOK

LEMMA Kinds ==
  /\ \A k : k \in ClearTask => k.kind = "clear"
  /\ \A k : k \in CompileTask => k.kind = "compile"
  /\ \A k : k \in FanTask => k.kind = "fan"
  /\ NoTask.kind = "none"
  BY DEF ClearTask, CompileTask, FanTask, NoTask

\* It ends.
LEMMA TaskEnds ==
  ASSUME task' = NoTask
  PROVE  Tasks'
<1>1. task' \notin ClearTask /\ task' \notin CompileTask /\ task' \notin FanTask
  BY Kinds
<1> QED
  BY <1>1 DEF Tasks, TaskOK, ClearOK, CompileOK, FanOK

\* Jobs and slots go on meanwhile.
LEMMA TaskStays ==
  ASSUME ServerOK, Tasks, RowStep, UNCHANGED <<task, dev, rules, default>>,
         \A w \in Workers : fleet'[w].tags = fleet[w].tags
  PROVE  Tasks'
<1>1. ClearOK'
  <2>1. next \in Nat /\ next' \in Nat /\ next <= next' /\ \A i \in JobIds : i \in Nat
    BY ServerAssumption, Numbers DEF ServerOK, RowStep
  <2> QED
    BY <2>1 DEF Tasks, ClearOK, ClearTask, RowStep, Steady, Ended
<1>2. CompileOK'
  <2>1. \A targets, w : w \in Workers => (Excluded(targets, w) <=> Excluded(targets, w)')
    BY DEF Excluded
  <2>2. task \in CompileTask => task.q.pin \in Workers \cup {None}
    BY DEF CompileTask, Question
  <2> QED
    BY <2>1, <2>2 DEF Tasks, CompileOK, KeepsPin
<1>3. FanOK'
  BY DEF Tasks, FanOK, Asked
<1> QED
  BY <1>1, <1>2, <1>3 DEF Tasks, TaskOK

\* Somebody edits the devices ts, or anything that is no device.
LEMMA TaskDisturbed ==
  ASSUME ServerOK, Tasks, NEW ts \in SUBSET Targets, UNCHANGED <<rows, next>>,
         task' = Disturbed(ts), \A t \in Targets \ ts : dev'[t] = dev[t]
  PROVE  Tasks'
<1>1. CASE task = NoTask
  BY <1>1, TaskEnds, Kinds DEF Disturbed
<1>2. CASE task \in ClearTask
  <2>1. task' = task /\ task \notin CompileTask /\ task \notin FanTask
    BY <1>2, Kinds DEF Disturbed
  <2> QED
    BY <1>2, <2>1 DEF Tasks, TaskOK, ClearOK, CompileOK, FanOK
<1>3. CASE task \in CompileTask
  <2>1. task' = [task EXCEPT !.fresh = FALSE]
    BY <1>3, Kinds DEF Disturbed
  <2>2. task' \in CompileTask /\ ~task'.fresh /\ task'.todo = task.todo
        /\ task'.targets = task.targets /\ task'.stage = task.stage /\ task'.pinTo = task.pinTo
        /\ task'.chosen = task.chosen /\ task'.base = task.base
    BY <1>3, <2>1 DEF CompileTask
  <2>3. task' \notin ClearTask /\ task' \notin FanTask
    BY <2>2, Kinds
  <2> QED
    BY <1>3, <2>2, <2>3 DEF Tasks, TaskOK, ClearOK, CompileOK, FanOK
<1>4. CASE task \in FanTask
  <2>1. task' = [task EXCEPT !.touched = @ \cup (ts \cap DOMAIN task.st)]
    BY <1>4, Kinds DEF Disturbed
  <2>2. /\ task' \in FanTask /\ task'.touched = task.touched \cup (ts \cap DOMAIN task.st)
        /\ task'.st = task.st /\ task'.op = task.op /\ task'.arg = task.arg
        /\ task'.apply = task.apply /\ task'.pins = task.pins
    BY <1>4, <2>1 DEF FanTask
  <2>3. task' \notin ClearTask /\ task' \notin CompileTask
    BY <2>2, Kinds
  <2>4. DOMAIN task.st \subseteq Targets
    BY <1>4 DEF FanTask, PerDevice
  <2>5. \A t \in DOMAIN task'.st \ task'.touched :
          t \in DOMAIN task.st \ task.touched /\ dev'[t] = dev[t]
    BY <2>2, <2>4
  <2>6. FanOK
    BY DEF Tasks
  <2>7. \A t \in DOMAIN task'.st \ task'.touched : Asked(t) => Asked(t)'
    BY <2>2, <2>5 DEF Asked
  <2>8. \A t \in DOMAIN task'.st \ task'.touched :
          /\ task'.st[t] = "version" => dev'[t].pin = task'.pins[t]
          /\ task'.st[t] \in {"write", "done"} /\ task'.apply => dev'[t].pin = task'.arg
          /\ task'.st[t] = "done" => Asked(t)'
    BY <1>4, <2>2, <2>5, <2>6, <2>7 DEF FanOK
  <2>9. FanOK'
    BY <1>4, <2>2, <2>6, <2>8 DEF FanOK
  <2> QED
    BY <2>2, <2>3, <2>9 DEF Tasks, TaskOK, ClearOK, CompileOK
<1> QED
  BY <1>1, <1>2, <1>3, <1>4 DEF Tasks, TaskOK

\* Clear Entire Queue begins.
LEMMA ClearAllTask ==
  ASSUME ServerOK, SeenOK, ClearAll
  PROVE  Tasks'
<1> DEFINE active == {i \in JobIds : seen.rows[i].state \in {"pending", "working"}}
<1>1. /\ task' = [kind |-> "clear", ids |-> active,
                  stage |-> IF active = {} THEN "clear" ELSE "cancel"]
      /\ UNCHANGED <<rows, next>>
  BY DEF ClearAll, server
<1>2. task' \in ClearTask /\ task'.ids = active /\ (task'.stage = "clear" => active = {})
  BY <1>1 DEF ClearTask
<1>3. \A i \in active : i < next'
  BY <1>1, Numbers, NoRowFacts DEF SeenOK, Unborn
<1>4. task' \notin CompileTask /\ task' \notin FanTask
  BY <1>2, Kinds
<1> QED
  BY <1>2, <1>3, <1>4 DEF Tasks, TaskOK, ClearOK, CompileOK, FanOK

\* After the first request nothing it was about runs.
LEMMA ClearAllCancelsTask ==
  ASSUME ServerOK, Tasks, ClearAllCancels
  PROVE  Tasks' /\ RowStep
<1>1. /\ task.kind = "clear" /\ rows' = Cancel(task.ids) /\ UNCHANGED next
      /\ task' = [task EXCEPT !.stage = "clear"]
  BY DEF ClearAllCancels
<1>2. task \in ClearTask
  BY <1>1, Kinds DEF Tasks, TaskOK
<1>3. task' \in ClearTask /\ task'.ids = task.ids /\ task.ids \subseteq JobIds
  BY <1>1, <1>2 DEF ClearTask
<1>4. RowStep /\ \A i \in task.ids : rows'[i].state \in Ended
  BY <1>1, <1>3, CancelRows
<1>5. task' \notin CompileTask /\ task' \notin FanTask
  BY <1>3, Kinds
<1>6. ClearOK'
  BY <1>1, <1>2, <1>3, <1>4 DEF Tasks, ClearOK, Ended
<1> QED
  BY <1>3, <1>4, <1>5, <1>6 DEF Tasks, TaskOK, CompileOK, FanOK

----------------------------------------------------------------------------
(* The Upgrade window. *)

\* One device, or several.
LEMMA OneOrMore ==
  ASSUME NEW S \in SUBSET Targets, S # {}
  PROVE  Cardinality(S) > 1 \/ (Cardinality(S) = 1 /\ \E x : S = {x})
<1>1. IsFiniteSet(S)
  BY ServerAssumption, FS_Subset
<1>2. Cardinality(S) \in Nat /\ Cardinality(S) # 0
  BY <1>1, FS_CardinalityType, FS_EmptySet
<1> QED
  BY <1>1, <1>2, FS_Singleton

\* The window asks for the override exactly when the rules exclude the worker it pins,
\* and sends the version or moves the pin so that the version counts.
LEMMA ConfirmTask ==
  ASSUME ServerOK, SeenOK, dlg \in UpgradeDlg, NEW choice \in WorkerChoices,
         NEW version \in VersionChoices, NEW download \in BOOLEAN,
         ConfirmNow(choice, version, download)
  PROVE  Tasks'
<1> DEFINE targets == dlg.targets
           pinTo == updatePin(targets, version, download)
           bypass == hasConflict(choice, targets)
           fresh == [View EXCEPT !.rows = <<>>] = [seen EXCEPT !.rows = <<>>]
           q == [pin |-> choice.pin, filter |-> choice.filter,
                 version |-> IF version = seen.default THEN None ELSE version,
                 download_only |-> download, address |-> FALSE, bypass |-> bypass]
           k == [kind |-> "compile", stage |-> IF pinTo = None THEN "post" ELSE "pin",
                 targets |-> targets, todo |-> targets, pinTo |-> pinTo,
                 base |-> None, chosen |-> version, q |-> q, fresh |-> fresh]
<1>1. task' = k /\ UNCHANGED <<rows, next, dev, fleet, rules, default>>
  BY DEF ConfirmNow, server
<1>2. targets \in (SUBSET Targets) \ {{}} /\ dlg.seed \in Seed
  BY DEF UpgradeDlg
<1>3. choice.pin \in Workers \cup {None} /\ choice.filter \in Clause \cup {NoFilter}
      /\ (choice.pin # None => choice.filter = NoFilter)
  BY <1>2, PageAssumption DEF WorkerChoices, NoSeed, eligibleWorkers, Seed
<1>4. version \in Versions \cup {None} /\ None \notin Versions
  BY ServerAssumption DEF VersionChoices
<1>5. pinTo \in Versions \cup {None} /\ bypass \in BOOLEAN /\ fresh \in BOOLEAN
  BY <1>4 DEF updatePin, hasConflict
<1>6. fresh => seen.dev = dev /\ seen.fleet = fleet /\ seen.rules = rules /\ seen.default = default
  <2>1. /\ [View EXCEPT !.rows = <<>>].dev = dev /\ [View EXCEPT !.rows = <<>>].fleet = fleet
        /\ [View EXCEPT !.rows = <<>>].rules = rules /\ [View EXCEPT !.rows = <<>>].default = default
    BY DEF View
  <2>2. /\ [seen EXCEPT !.rows = <<>>].dev = seen.dev
        /\ [seen EXCEPT !.rows = <<>>].fleet = seen.fleet
        /\ [seen EXCEPT !.rows = <<>>].rules = seen.rules
        /\ [seen EXCEPT !.rows = <<>>].default = seen.default
    BY DEF SeenOK
  <2> QED
    BY <2>1, <2>2
<1>7. fresh /\ choice.pin # None => (bypass <=> Excluded(targets, choice.pin))
  BY <1>3, <1>6 DEF hasConflict, Excluded, IsEligible, EvaluateRule
<1>8. pinTo # None => pinTo = version /\ version # None /\ Cardinality(targets) = 1
  BY DEF updatePin
<1>0. Cardinality(targets) > 1 \/ (Cardinality(targets) = 1 /\ \E x : targets = {x})
  <2>1. targets \in SUBSET Targets /\ targets # {}
    BY <1>2
  <2> HIDE DEF targets
  <2> QED
    BY <2>1, OneOrMore
<1>9. fresh /\ version # None /\ pinTo = None =>
        \/ download \/ Cardinality(targets) > 1 \/ \A t \in targets : dev[t].pin \in {None, version}
  <2> SUFFICES ASSUME fresh, version # None, pinTo = None, ~download, ~(Cardinality(targets) > 1)
               PROVE  \A t \in targets : dev[t].pin \in {None, version}
    OBVIOUS
  <2>1. Cardinality(targets) = 1 /\ \E x : targets = {x}
    BY <1>0
  <2>2. \E t \in targets : seen.dev[t].pin \in {None, version}
    BY <2>1 DEF updatePin
  <2> QED
    BY <1>6, <2>1, <2>2
<1> HIDE DEF pinTo, bypass, fresh, targets
<1>10. q \in Question
  BY <1>3, <1>4, <1>5 DEF Question
<1>11. k \in CompileTask
  BY <1>2, <1>4, <1>5, <1>10 DEF CompileTask
<1>12. task' \in CompileTask /\ task' \notin ClearTask /\ task' \notin FanTask
  BY <1>1, <1>11, Kinds
<1>13. /\ task'.stage = IF pinTo = None THEN "post" ELSE "pin"
       /\ task'.targets = targets /\ task'.todo = targets /\ task'.pinTo = pinTo
       /\ task'.chosen = version /\ task'.fresh = fresh
       /\ task'.q.pin = choice.pin /\ task'.q.bypass = bypass /\ task'.q.download_only = download
       /\ task'.q.version = IF version = seen.default THEN None ELSE version
  BY <1>1
<1>14. Excluded(targets, choice.pin) <=> \E s \in targets :
                                           ~IsEligible(dev'[s].tags, fleet'[choice.pin].tags, rules')
  BY <1>1 DEF Excluded
<1> HIDE DEF k, q
<1>15. CompileOK'
  BY <1>1, <1>4, <1>6, <1>7, <1>8, <1>9, <1>13, <1>14 DEF CompileOK, KeepsPin, Excluded
<1> QED
  BY <1>12, <1>15 DEF Tasks, TaskOK, ClearOK, FanOK

LEMMA InstallTask ==
  ASSUME dlg \in InstallDlg, NEW edited, fireInstall(edited)
  PROVE  Tasks'
<1> DEFINE q == [pin |-> None, filter |-> NoFilter, version |-> None,
                 download_only |-> FALSE, address |-> TRUE, bypass |-> FALSE]
           k == [kind |-> "compile", stage |-> "post", targets |-> dlg.targets,
                 todo |-> dlg.targets, pinTo |-> None, base |-> None, chosen |-> None,
                 q |-> q, fresh |-> FALSE]
<1>1. task' = k
  BY DEF fireInstall
<1>2. dlg.targets \in (SUBSET Targets) \ {{}}
  BY DEF InstallDlg
<1>3. q \in Question
  BY DEF Question
<1>4. k \in CompileTask
  BY <1>2, <1>3 DEF CompileTask
<1>5. task' \in CompileTask /\ task' \notin ClearTask /\ task' \notin FanTask
  BY <1>1, <1>4, Kinds
<1>6. task'.stage = "post" /\ task'.todo = task'.targets /\ ~task'.fresh
  BY <1>1
<1> QED
  BY <1>5, <1>6 DEF Tasks, TaskOK, ClearOK, CompileOK, FanOK

LEMMA CompileKind ==
  ASSUME Tasks, task.kind = "compile"
  PROVE  task \in CompileTask /\ CompileOK
  BY Kinds DEF Tasks, TaskOK

\* The pin of the only device becomes the version that was picked.
LEMMA CompilePinsTask ==
  ASSUME ServerOK, Tasks, CompilePins
  PROVE  Tasks' /\ dev' \in [Targets -> DeviceMeta]
<1>1. /\ task.kind = "compile" /\ task.stage = "pin" /\ task' = [task EXCEPT !.stage = "post"]
      /\ UNCHANGED <<rows, next, fleet, rules, default>>
  BY DEF CompilePins
<1>2. PICK t \in task.targets : dev' = [dev EXCEPT ![t].pin = task.pinTo]
  BY DEF CompilePins, PinVersion
<1>3. task \in CompileTask /\ CompileOK
  BY <1>1, CompileKind
<1>4. /\ task' \in CompileTask /\ task'.stage = "post" /\ task'.targets = task.targets
      /\ task'.todo = task.todo /\ task'.pinTo = task.pinTo /\ task'.chosen = task.chosen
      /\ task'.q = task.q /\ task'.fresh = task.fresh
  BY <1>1, <1>3 DEF CompileTask
<1>5. task' \notin ClearTask /\ task' \notin FanTask
  BY <1>4, Kinds
<1>6. /\ task.targets \subseteq Targets /\ task.targets # {} /\ task.pinTo \in Versions \cup {None}
      /\ task.pinTo = task.chosen /\ Cardinality(task.targets) = 1
  BY <1>1, <1>3 DEF CompileOK, CompileTask
<1>7. task.targets = {t}
  <2>1. IsFiniteSet(task.targets)
    BY <1>6, ServerAssumption, FS_Subset
  <2> QED
    BY <1>2, <1>6, <2>1, FS_Singleton
<1>8. /\ dev' \in [Targets -> DeviceMeta] /\ dev'[t].pin = task.chosen
      /\ \A n \in Targets : dev'[n].tags = dev[n].tags
  <2>1. [dev[t] EXCEPT !.pin = task.pinTo] \in DeviceMeta
    BY <1>6 DEF ServerOK, DeviceMeta
  <2>2. dev' = [dev EXCEPT ![t] = [dev[t] EXCEPT !.pin = task.pinTo]]
    BY <1>2
  <2>3. \A n \in Targets : dev[n] \in DeviceMeta
    BY DEF ServerOK
  <2>4. [dev[t] EXCEPT !.pin = task.pinTo].pin = task.chosen
        /\ [dev[t] EXCEPT !.pin = task.pinTo].tags = dev[t].tags
    BY <1>6, <2>3 DEF DeviceMeta
  <2> QED
    BY <1>6, <2>1, <2>2, <2>4 DEF ServerOK
<1>9. \A w : Excluded(task.targets, w)' <=> Excluded(task'.targets, w)
  BY <1>1, <1>4, <1>6, <1>8 DEF Excluded
<1>10. CompileOK'
  BY <1>1, <1>3, <1>4, <1>7, <1>8, <1>9 DEF CompileOK
<1> QED
  BY <1>4, <1>5, <1>8, <1>10 DEF Tasks, TaskOK, ClearOK, FanOK

LEMMA CompileArrivesTask ==
  ASSUME ServerOK, Tasks, CompileArrives
  PROVE  Tasks'
<1>1. /\ task.kind = "compile" /\ task.stage = "post"
      /\ task' = [task EXCEPT !.stage = "loop", !.base = default]
      /\ UNCHANGED <<dev, fleet, rules, default>>
  BY DEF CompileArrives, server
<1>2. task \in CompileTask /\ CompileOK
  BY <1>1, CompileKind
<1>3. default \in Versions
  BY DEF ServerOK
<1>4. /\ task' \in CompileTask /\ task'.stage = "loop" /\ task'.base = default
      /\ task'.targets = task.targets /\ task'.todo = task.todo /\ task'.chosen = task.chosen
      /\ task'.q = task.q /\ task'.fresh = task.fresh
  BY <1>1, <1>2, <1>3 DEF CompileTask
<1>5. task' \notin ClearTask /\ task' \notin FanTask
  BY <1>4, Kinds
<1>6. CompileOK'
  BY <1>1, <1>2, <1>3, <1>4 DEF CompileOK, Excluded, KeepsPin
<1> QED
  BY <1>4, <1>5, <1>6 DEF Tasks, TaskOK, ClearOK, FanOK

LEMMA CompileEnqueuesTask ==
  ASSUME ServerOK, Tasks, NEW t \in Targets, CompileEnqueues(t)
  PROVE  /\ Tasks' /\ RowStep
         /\ task \in CompileTask /\ CompileOK /\ task.stage = "loop" /\ t \in task.targets
         /\ rows' # rows =>
              \E i \in JobIds : /\ rows'[i] # rows[i] /\ rows'[i].target = t
                                /\ rows'[i].version = EffectiveVersion(t, task.q.version, task.base)
<1>1. /\ task.kind = "compile" /\ task.stage = "loop" /\ t \in task.todo
      /\ Enqueue(t, task.q, task.base) /\ task' = [task EXCEPT !.todo = @ \ {t}]
      /\ UNCHANGED <<dev, fleet, rules, default>>
  BY DEF CompileEnqueues
<1>2. task \in CompileTask /\ CompileOK
  BY <1>1, CompileKind
<1>3. task.q \in Question /\ task.base \in Versions /\ t \in task.targets
  BY <1>1, <1>2 DEF CompileOK, CompileTask
<1>4. /\ task' \in CompileTask /\ task'.stage = task.stage /\ task'.base = task.base
      /\ task'.targets = task.targets /\ task'.todo \subseteq task.todo
      /\ task'.chosen = task.chosen /\ task'.q = task.q /\ task'.fresh = task.fresh
      /\ task'.pinTo = task.pinTo
  BY <1>1, <1>2 DEF CompileTask
<1>5. task' \notin ClearTask /\ task' \notin FanTask
  BY <1>4, Kinds
<1>6. CompileOK'
  BY <1>1, <1>2, <1>4 DEF CompileOK, Excluded, KeepsPin
<1> QED
  BY <1>1, <1>2, <1>3, <1>4, <1>5, <1>6, EnqueueRows DEF Tasks, TaskOK, ClearOK, FanOK

----------------------------------------------------------------------------
(* Operations on several devices. *)

LEMMA FanStarts ==
  ASSUME ServerOK, SeenOK, NEW op \in {"cron", "once", "unschedule", "tags"},
         NEW targets \in SUBSET Targets, NEW first \in {"version", "write"},
         NEW arg \in Versions \cup {None} \cup PerDevice(SUBSET DeviceTags),
         op = "tags" => arg \in [targets -> SUBSET DeviceTags],
         first = "version" => arg \in Versions \cup {None},
         Fan(op, targets, first, arg), UNCHANGED dev
  PROVE  Tasks'
<1> DEFINE st == [t \in targets |-> first]
           pins == [t \in targets |-> seen.dev[t].pin]
           touched == {t \in targets : seen.dev[t] # dev[t]}
           apply == first = "version"
<1>1. task' = [kind |-> "fan", op |-> op, st |-> st, arg |-> arg, apply |-> apply,
               pins |-> pins, touched |-> touched]
  BY DEF Fan
<1>2. st \in [targets -> {"version", "write", "done", "failed"}]
  OBVIOUS
<1>3. pins \in [targets -> Versions \cup {None}]
  BY DEF SeenOK, DeviceMeta
<1>4. st \in PerDevice({"version", "write", "done", "failed"})
      /\ pins \in PerDevice(Versions \cup {None})
  BY <1>2, <1>3 DEF PerDevice
<1>5. \A t \in targets : st[t] = first /\ pins[t] = seen.dev[t].pin
  OBVIOUS
<1>6. touched \in SUBSET Targets /\ apply \in BOOLEAN /\ DOMAIN st = targets /\ DOMAIN pins = targets
      /\ \A t \in targets \ touched : seen.dev[t] = dev[t]
  OBVIOUS
<1> HIDE DEF st, pins, touched
<1>7. /\ task' \in FanTask /\ task'.op = op /\ task'.st = st /\ task'.arg = arg
      /\ task'.apply = apply /\ task'.pins = pins /\ task'.touched = touched
  BY <1>1, <1>4, <1>6 DEF FanTask
<1>8. task' \notin ClearTask /\ task' \notin CompileTask
  BY <1>7, Kinds
<1>9. FanOK'
  BY <1>5, <1>6, <1>7 DEF FanOK
<1> QED
  BY <1>7, <1>8, <1>9 DEF Tasks, TaskOK, ClearOK, CompileOK

\* The requests on the metadata of one device leave the others alone.
LEMMA DeviceWrites ==
  ASSUME ServerOK, NEW t \in Targets, NEW v \in Versions \cup {None},
         NEW tags \in SUBSET DeviceTags, NEW d,
         d \in {dev, PinVersion(t, v), SetSchedule(t), SetOnce(t), DeleteSchedule(t), SetTags(t, tags)}
  PROVE  /\ d \in [Targets -> DeviceMeta]
         /\ \A n \in Targets \ {t} : d[n] = dev[n]
         /\ d = PinVersion(t, v) => d[t].pin = v
         /\ d = SetSchedule(t) => d[t].cron /\ d[t].pin = dev[t].pin
         /\ d = SetOnce(t) => d[t].once /\ d[t].pin = dev[t].pin
         /\ d = DeleteSchedule(t) => ~d[t].cron /\ ~d[t].once /\ d[t].pin = dev[t].pin
         /\ d = SetTags(t, tags) => d[t].tags = tags /\ d[t].pin = dev[t].pin
<1>1. dev \in [Targets -> DeviceMeta] /\ dev[t] \in DeviceMeta
  BY DEF ServerOK
<1> DEFINE m1 == [dev[t] EXCEPT !.pin = v]
           m2 == [dev[t] EXCEPT !.cron = TRUE]
           m3 == [dev[t] EXCEPT !.once = TRUE]
           m4 == [dev[t] EXCEPT !.cron = FALSE, !.once = FALSE]
           m5 == [dev[t] EXCEPT !.tags = tags]
<1>2. /\ m1 \in DeviceMeta /\ m1.pin = v
      /\ m2 \in DeviceMeta /\ m2.cron /\ m2.pin = dev[t].pin
      /\ m3 \in DeviceMeta /\ m3.once /\ m3.pin = dev[t].pin
      /\ m4 \in DeviceMeta /\ ~m4.cron /\ ~m4.once /\ m4.pin = dev[t].pin
      /\ m5 \in DeviceMeta /\ m5.tags = tags /\ m5.pin = dev[t].pin
  BY <1>1 DEF DeviceMeta
<1>3. /\ PinVersion(t, v) = [dev EXCEPT ![t] = m1] /\ SetSchedule(t) = [dev EXCEPT ![t] = m2]
      /\ SetOnce(t) = [dev EXCEPT ![t] = m3] /\ DeleteSchedule(t) = [dev EXCEPT ![t] = m4]
      /\ SetTags(t, tags) = [dev EXCEPT ![t] = m5]
  BY DEF PinVersion, SetSchedule, SetOnce, DeleteSchedule, SetTags
<1> HIDE DEF m1, m2, m3, m4, m5
<1>4. PICK m \in DeviceMeta : d = [dev EXCEPT ![t] = m]
  BY <1>1, <1>2, <1>3
<1> QED
  BY <1>1, <1>2, <1>3, <1>4

LEMMA FanKind ==
  ASSUME Tasks, task.kind = "fan"
  PROVE  task \in FanTask /\ FanOK /\ DOMAIN task.st \subseteq Targets
<1>1. task \in FanTask /\ FanOK
  BY Kinds DEF Tasks, TaskOK
<1> QED
  BY <1>1 DEF FanTask, PerDevice

\* One chain of requests gets on; the other devices are left alone.
LEMMA FanMoves ==
  ASSUME ServerOK, Tasks, task.kind = "fan", NEW t \in DOMAIN task.st,
         NEW s \in {"write", "done", "failed"}, task' = [task EXCEPT !.st[t] = s],
         dev' \in [Targets -> DeviceMeta], \A n \in Targets \ {t} : dev'[n] = dev[n],
         t \notin task.touched =>
           /\ s \in {"write", "done"} /\ task.apply => dev'[t].pin = task.arg
           /\ s = "done" => Asked(t)'
  PROVE  Tasks'
<1>1. task \in FanTask /\ FanOK /\ DOMAIN task.st \subseteq Targets
  BY FanKind
<1> DEFINE st2 == [task.st EXCEPT ![t] = s]
<1>2. PICK S \in SUBSET Targets : task.st \in [S -> {"version", "write", "done", "failed"}]
  BY <1>1 DEF FanTask, PerDevice
<1>3. /\ st2 \in [S -> {"version", "write", "done", "failed"}]
      /\ DOMAIN st2 = DOMAIN task.st /\ st2[t] = s
      /\ \A n \in DOMAIN task.st : n # t => st2[n] = task.st[n]
  BY <1>2
<1>4. st2 \in PerDevice({"version", "write", "done", "failed"})
  BY <1>3 DEF PerDevice
<1>5. task' = [task EXCEPT !.st = st2]
  OBVIOUS
<1> HIDE DEF st2
<1>6. /\ task' \in FanTask /\ task'.st = st2 /\ task'.op = task.op /\ task'.arg = task.arg
      /\ task'.apply = task.apply /\ task'.pins = task.pins /\ task'.touched = task.touched
  BY <1>1, <1>4, <1>5 DEF FanTask
<1>7. task' \notin ClearTask /\ task' \notin CompileTask
  BY <1>6, Kinds
<1>8. ASSUME NEW n \in DOMAIN task.st \ task.touched, n # t
      PROVE  /\ st2[n] = "version" => dev'[n].pin = task.pins[n]
             /\ st2[n] \in {"write", "done"} /\ task.apply => dev'[n].pin = task.arg
             /\ st2[n] = "done" => Asked(n)'
  <2>1. dev'[n] = dev[n] /\ st2[n] = task.st[n]
    BY <1>1, <1>3, <1>8
  <2>2. Asked(n) => Asked(n)'
    BY <1>6, <2>1 DEF Asked
  <2> QED
    BY <1>1, <2>1, <2>2 DEF FanOK
<1>9. FanOK'
  <2>1. \A n \in DOMAIN task'.st : task'.st[n] = "version" => task'.apply
    BY <1>1, <1>3, <1>6 DEF FanOK
  <2>2. \A n \in DOMAIN task'.st \ task'.touched :
          /\ task'.st[n] = "version" => dev'[n].pin = task'.pins[n]
          /\ task'.st[n] \in {"write", "done"} /\ task'.apply => dev'[n].pin = task'.arg
          /\ task'.st[n] = "done" => Asked(n)'
    BY <1>3, <1>6, <1>8
  <2>3. /\ DOMAIN task'.pins = DOMAIN task'.st
        /\ task'.op = "tags" => task'.arg \in [DOMAIN task'.st -> SUBSET DeviceTags]
        /\ task'.apply => task'.arg \in Versions \cup {None}
    BY <1>1, <1>3, <1>6 DEF FanOK
  <2> QED
    BY <2>1, <2>2, <2>3 DEF FanOK
<1> QED
  BY <1>6, <1>7, <1>9 DEF Tasks, TaskOK, ClearOK, CompileOK

\* The request that moves the pin leaves the device with the version asked for.
LEMMA VersionRequest ==
  ASSUME ServerOK, Tasks, task.kind = "fan", NEW t \in DOMAIN task.st, task.st[t] = "version",
         NEW d, d = applyScheduleVersion(t)
  PROVE  /\ d \in [Targets -> DeviceMeta] /\ \A n \in Targets \ {t} : d[n] = dev[n]
         /\ t \notin task.touched => d[t].pin = task.arg
<1>1. task \in FanTask /\ FanOK /\ t \in Targets
  BY FanKind
<1>2. task.arg \in Versions \cup {None}
  BY <1>1 DEF FanOK
<1>3. CASE task.arg # task.pins[t]
  <2>1. d = PinVersion(t, task.arg)
    BY <1>3 DEF applyScheduleVersion
  <2>2. d \in [Targets -> DeviceMeta] /\ (\A n \in Targets \ {t} : d[n] = dev[n]) /\ d[t].pin = task.arg
    BY <1>1, <1>2, <2>1, DeviceWrites
  <2> QED
    BY <2>2
<1>4. CASE task.arg = task.pins[t]
  <2>1. d = dev
    BY <1>4 DEF applyScheduleVersion
  <2>2. t \notin task.touched => dev[t].pin = task.pins[t]
    BY <1>1 DEF FanOK
  <2> QED
    BY <1>4, <2>1, <2>2 DEF ServerOK
<1> QED
  BY <1>3, <1>4

\* The request that writes does what was asked for.
LEMMA WriteRequest ==
  ASSUME ServerOK, Tasks, task.kind = "fan", NEW t \in DOMAIN task.st, task.st[t] = "write",
         NEW d, d = Written(t)
  PROVE  /\ d \in [Targets -> DeviceMeta] /\ \A n \in Targets \ {t} : d[n] = dev[n]
         /\ t \notin task.touched /\ task.apply => d[t].pin = task.arg
         /\ CASE task.op = "unschedule" -> ~d[t].cron /\ ~d[t].once
              [] task.op = "tags" -> d[t].tags = task.arg[t]
              [] task.op = "cron" -> d[t].cron
              [] task.op = "once" -> d[t].once
<1>1. task \in FanTask /\ FanOK /\ t \in Targets
  BY FanKind
<1>2. task.op \in {"cron", "once", "unschedule", "tags"}
  BY <1>1 DEF FanTask
<1>3. t \notin task.touched /\ task.apply => dev[t].pin = task.arg
  BY <1>1 DEF FanOK
<1>4. PICK tags \in SUBSET DeviceTags : task.op = "tags" => task.arg[t] = tags
  <2>1. {} \in SUBSET DeviceTags
    OBVIOUS
  <2> QED
    BY <1>1, <2>1 DEF FanOK
<1>5. None \in Versions \cup {None}
  OBVIOUS
<1>6. CASE task.op = "cron"
  <2>1. d = SetSchedule(t)
    BY <1>6 DEF Written
  <2>2. /\ d \in [Targets -> DeviceMeta] /\ \A n \in Targets \ {t} : d[n] = dev[n]
        /\ d[t].cron /\ d[t].pin = dev[t].pin
    BY <1>1, <1>4, <1>5, <2>1, DeviceWrites
  <2> QED
    BY <1>3, <1>6, <2>2
<1>7. CASE task.op = "once"
  <2>1. d = SetOnce(t)
    BY <1>7 DEF Written
  <2>2. /\ d \in [Targets -> DeviceMeta] /\ \A n \in Targets \ {t} : d[n] = dev[n]
        /\ d[t].once /\ d[t].pin = dev[t].pin
    BY <1>1, <1>4, <1>5, <2>1, DeviceWrites
  <2> QED
    BY <1>3, <1>7, <2>2
<1>8. CASE task.op = "unschedule"
  <2>1. d = DeleteSchedule(t)
    BY <1>8 DEF Written
  <2>2. /\ d \in [Targets -> DeviceMeta] /\ \A n \in Targets \ {t} : d[n] = dev[n]
        /\ ~d[t].cron /\ ~d[t].once /\ d[t].pin = dev[t].pin
    BY <1>1, <1>4, <1>5, <2>1, DeviceWrites
  <2> QED
    BY <1>3, <1>8, <2>2
<1>9. CASE task.op = "tags"
  <2>1. d = SetTags(t, tags)
    BY <1>4, <1>9 DEF Written
  <2>2. /\ d \in [Targets -> DeviceMeta] /\ \A n \in Targets \ {t} : d[n] = dev[n]
        /\ d[t].tags = tags /\ d[t].pin = dev[t].pin
    BY <1>1, <1>4, <1>5, <2>1, DeviceWrites
  <2> QED
    BY <1>3, <1>4, <1>9, <2>2
<1> QED
  BY <1>2, <1>6, <1>7, <1>8, <1>9

LEMMA FanStepTask ==
  ASSUME ServerOK, Tasks, NEW t \in Targets, FanStep(t)
  PROVE  Tasks' /\ dev' \in [Targets -> DeviceMeta]
<1>1. task.kind = "fan" /\ t \in DOMAIN task.st
  BY DEF FanStep
<1>2. CASE task.st[t] = "version" /\ dev' = applyScheduleVersion(t)
           /\ task' = [task EXCEPT !.st[t] = "write"]
  <2>1. /\ dev' \in [Targets -> DeviceMeta] /\ \A n \in Targets \ {t} : dev'[n] = dev[n]
        /\ t \notin task.touched => dev'[t].pin = task.arg
    BY <1>1, <1>2, VersionRequest
  <2> QED
    BY <1>1, <1>2, <2>1, FanMoves
<1>3. CASE task.st[t] = "write" /\ dev' = Written(t) /\ task' = [task EXCEPT !.st[t] = "done"]
  <2>1. /\ dev' \in [Targets -> DeviceMeta] /\ \A n \in Targets \ {t} : dev'[n] = dev[n]
        /\ t \notin task.touched /\ task.apply => dev'[t].pin = task.arg
        /\ CASE task.op = "unschedule" -> ~dev'[t].cron /\ ~dev'[t].once
             [] task.op = "tags" -> dev'[t].tags = task.arg[t]
             [] task.op = "cron" -> dev'[t].cron
             [] task.op = "once" -> dev'[t].once
    BY <1>1, <1>3, WriteRequest
  <2>2. task \in FanTask
    BY <1>1, FanKind
  <2>3. task'.op = task.op /\ task'.arg = task.arg
    BY <1>3, <2>2 DEF FanTask
  <2>4. Asked(t)'
    BY <2>1, <2>3 DEF Asked
  <2> QED
    BY <1>1, <1>3, <2>1, <2>4, FanMoves
<1> QED
  BY <1>2, <1>3 DEF FanStep

LEMMA FanFailsTask ==
  ASSUME ServerOK, Tasks, NEW t \in Targets, FanFails(t)
  PROVE  Tasks' /\ dev' \in [Targets -> DeviceMeta]
<1>1. /\ task.kind = "fan" /\ t \in DOMAIN task.st /\ task.st[t] \in {"version", "write"}
      /\ dev' \in {dev, IF task.st[t] = "version" THEN applyScheduleVersion(t) ELSE Written(t)}
      /\ task' = [task EXCEPT !.st[t] = "failed"]
  BY DEF FanFails
<1>2. dev' \in [Targets -> DeviceMeta] /\ \A n \in Targets \ {t} : dev'[n] = dev[n]
  <2>1. CASE dev' = dev
    BY <2>1 DEF ServerOK
  <2>2. CASE task.st[t] = "version" /\ dev' = applyScheduleVersion(t)
    BY <1>1, <2>2, VersionRequest
  <2>3. CASE task.st[t] = "write" /\ dev' = Written(t)
    BY <1>1, <2>3, WriteRequest
  <2> QED
    BY <1>1, <2>1, <2>2, <2>3
<1>3. Tasks'
  BY <1>1, <1>2, FanMoves
<1> QED
  BY <1>2, <1>3

----------------------------------------------------------------------------
(* The windows. *)

LEMMA WindowKinds ==
  /\ NoDlg.kind = "none"
  /\ \A d : d \in UpgradeDlg => d.kind = "upgrade"
  /\ \A d : d \in BulkDlg => d.kind = "bulk"
  /\ \A d : d \in InstallDlg => d.kind = "install"
  BY DEF NoDlg, UpgradeDlg, BulkDlg, InstallDlg

LEMMA WindowOf ==
  ASSUME DlgOK
  PROVE  /\ dlg.kind = "upgrade" => dlg \in UpgradeDlg
         /\ dlg.kind = "bulk" => dlg \in BulkDlg
         /\ dlg.kind = "install" => dlg \in InstallDlg
         /\ dlg.kind = "rules" => DOMAIN dlg = {"kind", "link", "mode", "rule", "fetch"}
  BY WindowKinds DEF DlgOK

LEMMA WindowStays == DlgOK /\ UNCHANGED dlg => DlgOK'
  BY DEF DlgOK

LEMMA WindowCloses == dlg' = NoDlg => DlgOK'
  BY DEF DlgOK

LEMMA WindowOpens ==
  ASSUME SeenOK,
         \/ \E i \in JobIds : RerunRow(i)
         \/ \E ts \in (SUBSET Targets) \ {{}} : OpenUpgrade(ts) \/ OpenBulkSchedule(ts)
         \/ \E t \in Targets : OpenInstall(t)
         \/ \E link : OpenRules(link)
  PROVE  DlgOK'
<1>1. ASSUME NEW i \in JobIds, RerunRow(i) PROVE DlgOK'
  <2>1. seen.rows[i] \in Row
    BY <1>1, NoRowFacts DEF RerunRow, Ids, SeenOK, Table
  <2>2. [pin |-> seen.rows[i].pin, filter |-> seen.rows[i].filter] \in Seed
    BY <2>1 DEF Row, Seed
  <2>3. {seen.rows[i].target} \in (SUBSET Targets) \ {{}}
    BY <2>1 DEF Row
  <2>4. dlg' \in UpgradeDlg
    BY <1>1, <2>2, <2>3 DEF RerunRow, UpgradeDlg
  <2> QED
    BY <2>4 DEF DlgOK
<1>2. ASSUME NEW ts \in (SUBSET Targets) \ {{}}, OpenUpgrade(ts) PROVE DlgOK'
  <2>1. NoSeed \in Seed
    BY DEF NoSeed, Seed
  <2>2. dlg' \in UpgradeDlg
    BY <1>2, <2>1 DEF OpenUpgrade, UpgradeDlg
  <2> QED
    BY <2>2 DEF DlgOK
<1>3. ASSUME NEW ts \in (SUBSET Targets) \ {{}}, OpenBulkSchedule(ts) PROVE DlgOK'
  <2>1. dlg' \in BulkDlg
    BY <1>3 DEF OpenBulkSchedule, BulkDlg
  <2> QED
    BY <2>1 DEF DlgOK
<1>4. ASSUME NEW t \in Targets, OpenInstall(t) PROVE DlgOK'
  <2>1. dlg' \in InstallDlg
    BY <1>4 DEF OpenInstall, InstallDlg
  <2> QED
    BY <2>1 DEF DlgOK
<1>5. ASSUME NEW link, OpenRules(link) PROVE DlgOK'
  <2>1. dlg' \in [kind : {"rules"}, link : {link}, mode : {"list"}, rule : {None}, fetch : BOOLEAN]
    BY <1>5 DEF OpenRules
  <2>2. dlg'.kind = "rules" /\ DOMAIN dlg' = {"kind", "link", "mode", "rule", "fetch"}
    BY <2>1
  <2> QED
    BY <2>2 DEF DlgOK
<1> QED
  BY <1>1, <1>2, <1>3, <1>4, <1>5

\* What happens inside the window of the rules, and what its list brings.
LEMMA WindowOfRules ==
  ASSUME DlgOK, dlg.kind = "rules",
         \/ UNCHANGED dlg
         \/ \E m, r : dlg' = [dlg EXCEPT !.mode = m, !.rule = r]
         \/ \E m : dlg' = [dlg EXCEPT !.mode = m]
         \/ \E m, r : dlg' = [dlg EXCEPT !.fetch = FALSE, !.mode = m, !.rule = r]
         \/ dlg' = [dlg EXCEPT !.fetch = FALSE]
  PROVE  DlgOK'
<1>1. DOMAIN dlg = {"kind", "link", "mode", "rule", "fetch"}
  BY WindowOf
<1>2. DOMAIN dlg' = DOMAIN dlg /\ dlg'.kind = "rules"
  BY <1>1
<1> QED
  BY <1>1, <1>2 DEF DlgOK

LEMMA WindowChanges ==
  ASSUME DlgOK,
         RulesArrive \/ (\E edited : handlePrimary(edited)) \/ (\E id : EnterBuilder(id))
         \/ LeaveBuilder \/ (\E r : SaveRule(r)) \/ (\E id : DeleteRule(id))
  PROVE  DlgOK'
<1>1. CASE RulesArrive
  <2>1. CASE dlg.kind = "upgrade"
    <3>1. dlg \in UpgradeDlg /\ dlg' = [dlg EXCEPT !.fetch = FALSE]
      BY <1>1, <2>1, WindowOf DEF RulesArrive
    <3>2. dlg' \in UpgradeDlg
      BY <3>1 DEF UpgradeDlg
    <3> QED
      BY <3>2 DEF DlgOK
  <2>2. CASE dlg.kind = "rules"
    BY <1>1, <2>2, WindowOfRules DEF RulesArrive
  <2> QED
    BY <1>1, <2>1, <2>2 DEF RulesArrive
<1>2. ASSUME NEW edited, handlePrimary(edited) PROVE DlgOK'
  <2>1. dlg \in InstallDlg /\ dlg' = [dlg EXCEPT !.confirming = TRUE]
    BY <1>2, WindowOf DEF handlePrimary
  <2>2. dlg' \in InstallDlg
    BY <2>1 DEF InstallDlg
  <2> QED
    BY <2>2 DEF DlgOK
<1>3. ASSUME NEW id, EnterBuilder(id) PROVE DlgOK'
  BY <1>3, WindowOfRules DEF EnterBuilder
<1>4. CASE LeaveBuilder
  BY <1>4, WindowOfRules DEF LeaveBuilder
<1>5. ASSUME NEW r, SaveRule(r) PROVE DlgOK'
  BY <1>5, WindowOfRules DEF SaveRule
<1>6. ASSUME NEW id, DeleteRule(id) PROVE DlgOK'
  BY <1>6, WindowOfRules DEF DeleteRule
<1> QED
  BY <1>1, <1>2, <1>3, <1>4, <1>5, <1>6

----------------------------------------------------------------------------
(* Every step keeps the invariant. *)

LEMMA PageStep ==
  ASSUME PageInv, RowStep, SeenStep, MetaStep, Tasks', DlgOK'
  PROVE  PageInv'
  BY SeenAfter DEF PageInv, Tasks

\* Jobs change and no operation of the page is touched.
LEMMA JobsStep ==
  ASSUME PageInv, RowStep, SeenStep, DlgOK', UNCHANGED <<dev, fleet, rules, default, task>>
  PROVE  PageInv'
<1>1. ServerOK /\ Tasks
  BY DEF PageInv, Tasks
<1>2. Tasks'
  BY <1>1, TaskStays
<1> QED
  BY <1>1, <1>2, MetaSame, PageStep

\* Nothing of the server changes.
LEMMA PageOnlyStep ==
  ASSUME PageInv, UNCHANGED server, SeenStep, Tasks', DlgOK'
  PROVE  PageInv'
<1>1. ServerOK /\ UNCHANGED <<rows, next, dev, fleet, rules, default>>
  BY DEF PageInv, server
<1> QED
  BY <1>1, RowsStay, MetaSame, PageStep

LEMMA WindowStep ==
  ASSUME PageInv, UNCHANGED <<server, seen, task>>, DlgOK'
  PROVE  PageInv'
<1>1. ServerOK /\ SeenOK /\ UNCHANGED <<rows, next, dev, fleet, rules, default>>
  BY DEF PageInv, server
<1> QED
  BY <1>1, RowsStay, SeenSame, JobsStep

\* The queue has been changed and, as a rule, read again.
LEMMA AnsweredStep ==
  ASSUME SeenOK, Answered(rows')
  PROVE  SeenStep
<1>1. seen' \in {seen, [seen EXCEPT !["rows"] = rows']} /\ "rows" \in DOMAIN seen
  BY DEF Answered, SeenOK
<1> QED
  BY <1>1, SeenOne

LEMMA QueueRequestStep ==
  ASSUME PageInv, NEW R, QueueRequest(R), \E ids : R = Cancel(ids) \/ R = Removed(rows, ids)
  PROVE  PageInv'
<1>1. ServerOK /\ SeenOK /\ DlgOK
  BY DEF PageInv
<1>2. rows' = R /\ Answered(rows') /\ UNCHANGED <<next, dev, fleet, rules, default, dlg, task>>
  BY DEF QueueRequest
<1>3. RowStep
  <2>1. PICK ids : R = Cancel(ids) \/ R = Removed(rows, ids)
    OBVIOUS
  <2>2. CASE R = Cancel(ids)
    BY <1>1, <1>2, <2>2, CancelRows
  <2>3. CASE R = Removed(rows, ids)
    BY <1>1, <1>2, <2>3, RemovedRows
  <2> QED
    BY <2>1, <2>2, <2>3
<1> QED
  BY <1>1, <1>2, <1>3, AnsweredStep, WindowStays, JobsStep

LEMMA RerunRequestStep ==
  ASSUME PageInv, NEW ids, ids \subseteq JobIds, RerunRequest(ids)
  PROVE  PageInv'
<1>1. ServerOK /\ SeenOK /\ DlgOK
  BY DEF PageInv
<1>2. Retry(ids) /\ Answered(rows') /\ UNCHANGED <<dev, fleet, rules, default, dlg, task>>
  BY DEF RerunRequest
<1>3. RowStep
  BY <1>1, <1>2, RetryRows
<1> QED
  BY <1>1, <1>2, <1>3, AnsweredStep, WindowStays, JobsStep

LEMMA QueueTabStep ==
  ASSUME PageInv, QueueTab
  PROVE  PageInv'
<1>0. ServerOK /\ SeenOK /\ DlgOK /\ Tasks
  BY DEF PageInv, Tasks
<1>1. ASSUME NEW ids, QueueRequest(RemoveJobs(ids)) PROVE PageInv'
  BY <1>1, QueueRequestStep DEF RemoveJobs
<1>2. ASSUME NEW ids, QueueRequest(Cancel(ids)) PROVE PageInv'
  BY <1>2, QueueRequestStep
<1>3. ASSUME NEW states, NEW ota, QueueRequest(Clear(states, ota)) PROVE PageInv'
  BY <1>3, QueueRequestStep DEF Clear
<1>4. ASSUME NEW i \in JobIds, RerunRow(i) PROVE PageInv'
  <2>1. DlgOK'
    BY <1>0, <1>4, WindowOpens
  <2> QED
    BY <1>4, <2>1, WindowStep DEF RerunRow
<1>5. ASSUME NEW ids \in SUBSET Ids(seen.rows), RerunRequest(ids) PROVE PageInv'
  BY <1>5, RerunRequestStep DEF Ids
<1>6. CASE RerunRequest(AllFailed)
  BY <1>6, RerunRequestStep DEF AllFailed
<1>7. CASE ClearAll
  <2>1. Tasks'
    BY <1>0, <1>7, ClearAllTask
  <2>2. UNCHANGED <<server, seen, dlg>>
    BY <1>7 DEF ClearAll
  <2> QED
    BY <1>0, <2>1, <2>2, SeenSame, WindowStays, PageOnlyStep
<1>8. CASE ClearAllCancels
  <2>1. Tasks' /\ RowStep
    BY <1>0, <1>8, ClearAllCancelsTask
  <2>2. UNCHANGED <<dev, fleet, default, seen, dlg>>
    BY <1>8 DEF ClearAllCancels
  <2> QED
    BY <1>0, <2>1, <2>2, SeenSame, MetaSame, WindowStays, PageStep
<1>9. CASE ClearAllClears
  <2>1. /\ rows' = Clear(Terminal, FALSE) /\ Answered(rows') /\ task' = NoTask
        /\ UNCHANGED <<next, dev, fleet, rules, default, dlg>>
    BY <1>9 DEF ClearAllClears
  <2>2. RowStep
    BY <1>0, <2>1, RemovedRows DEF Clear
  <2> QED
    BY <1>0, <2>1, <2>2, AnsweredStep, MetaSame, TaskEnds, WindowStays, PageStep
<1>10. CASE ClearAllFails
  <2>1. task' = NoTask /\ UNCHANGED <<server, seen, dlg>>
    BY <1>10 DEF ClearAllFails
  <2> QED
    BY <1>0, <2>1, TaskEnds, SeenSame, WindowStays, PageOnlyStep
<1>11. CASE \E i \in JobIds : ClearRow(i) \/ CancelRow(i)
  BY <1>1, <1>2, <1>11 DEF ClearRow, CancelRow
<1>12. CASE \E ids \in (SUBSET Ids(seen.rows)) \ {{}} :
              ClearSelected(ids) \/ CancelSelected(ids) \/ RerunSelected(ids)
  BY <1>1, <1>2, <1>5, <1>12 DEF ClearSelected, CancelSelected, RerunSelected
<1>13. CASE ClearSucceeded \/ ClearFinished \/ RerunAllFailed
  BY <1>3, <1>6, <1>13 DEF ClearSucceeded, ClearFinished, RerunAllFailed
<1> QED
  BY <1>4, <1>7, <1>8, <1>9, <1>10, <1>11, <1>12, <1>13 DEF QueueTab

LEMMA UpgradeModalStep ==
  ASSUME PageInv, UpgradeModal
  PROVE  PageInv'
<1>0. ServerOK /\ SeenOK /\ DlgOK /\ Tasks
  BY DEF PageInv, Tasks
<1>1. CASE \E ts \in (SUBSET Targets) \ {{}} : OpenUpgrade(ts) \/ OpenBulkSchedule(ts)
  <2>1. DlgOK'
    BY <1>0, <1>1, WindowOpens
  <2> QED
    BY <1>1, <2>1, WindowStep DEF OpenUpgrade, OpenBulkSchedule
<1>2. CASE CloseDlg
  BY <1>2, WindowCloses, WindowStep DEF CloseDlg
<1>3. ASSUME dlg.kind = "upgrade", NEW c \in WorkerChoices, NEW v \in VersionChoices,
             NEW d \in BOOLEAN, ConfirmNow(c, v, d)
      PROVE  PageInv'
  <2>1. dlg \in UpgradeDlg
    BY <1>0, <1>3, WindowOf
  <2>2. Tasks'
    BY <1>0, <1>3, <2>1, ConfirmTask
  <2>3. dlg' = NoDlg /\ UNCHANGED <<server, seen>>
    BY <1>3 DEF ConfirmNow
  <2> QED
    BY <1>0, <2>2, <2>3, SeenSame, WindowCloses, PageOnlyStep
<1>4. CASE \E t \in Targets : OpenInstall(t)
  <2>1. DlgOK'
    BY <1>0, <1>4, WindowOpens
  <2> QED
    BY <1>4, <2>1, WindowStep DEF OpenInstall
<1>5. ASSUME NEW edited, handlePrimary(edited) PROVE PageInv'
  <2>1. DlgOK'
    BY <1>0, <1>5, WindowChanges
  <2> QED
    BY <1>5, <2>1, WindowStep DEF handlePrimary
<1>6. ASSUME NEW edited, fireInstall(edited) PROVE PageInv'
  <2>1. dlg.kind = "install" /\ UNCHANGED <<server, seen, dlg>>
    BY <1>6 DEF fireInstall
  <2>2. Tasks'
    BY <1>0, <1>6, <2>1, WindowOf, InstallTask
  <2> QED
    BY <1>0, <2>1, <2>2, SeenSame, WindowStays, PageOnlyStep
<1>7. CASE CompilePins
  <2>1. UNCHANGED <<rows, next, fleet, rules, default, seen, dlg>>
    BY <1>7 DEF CompilePins
  <2>2. Tasks' /\ dev' \in [Targets -> DeviceMeta]
    BY <1>0, <1>7, CompilePinsTask
  <2>3. MetaStep
    BY <1>0, <2>1, <2>2 DEF MetaStep, ServerOK
  <2> QED
    BY <1>0, <2>1, <2>2, <2>3, RowsStay, SeenSame, WindowStays, PageStep
<1>8. CASE CompileArrives
  <2>1. Tasks'
    BY <1>0, <1>8, CompileArrivesTask
  <2>2. UNCHANGED <<server, seen, dlg>>
    BY <1>8 DEF CompileArrives
  <2> QED
    BY <1>0, <2>1, <2>2, SeenSame, WindowStays, PageOnlyStep
<1>9. CASE CompileLands
  <2>1. task' = NoTask /\ UNCHANGED server /\ UNCHANGED rows
    BY <1>9 DEF CompileLands, server
  <2>2. CASE dlg' = NoDlg /\ UNCHANGED seen
    BY <1>0, <2>1, <2>2, TaskEnds, SeenSame, WindowCloses, PageOnlyStep
  <2>3. CASE seen' = [seen EXCEPT !.rows = rows] /\ UNCHANGED dlg
    <3>1. Answered(rows')
      BY <2>1, <2>3 DEF Answered
    <3> QED
      BY <1>0, <2>1, <2>3, <3>1, TaskEnds, AnsweredStep, WindowStays, PageOnlyStep
  <2> QED
    BY <1>9, <2>2, <2>3 DEF CompileLands
<1>10. CASE CompileFails
  <2>1. task' = NoTask /\ UNCHANGED <<server, seen, dlg>>
    BY <1>10 DEF CompileFails
  <2> QED
    BY <1>0, <2>1, TaskEnds, SeenSame, WindowStays, PageOnlyStep
<1>11. ASSUME NEW t \in Targets, CompileEnqueues(t) PROVE PageInv'
  <2>1. Tasks' /\ RowStep
    BY <1>0, <1>11, CompileEnqueuesTask
  <2>2. UNCHANGED <<dev, fleet, default, seen, dlg>>
    BY <1>11 DEF CompileEnqueues
  <2> QED
    BY <1>0, <2>1, <2>2, SeenSame, MetaSame, WindowStays, PageStep
<1> QED
  BY <1>1, <1>2, <1>3, <1>4, <1>5, <1>6, <1>7, <1>8, <1>9, <1>10, <1>11 DEF UpgradeModal

\* A fan of requests starts; nothing of the server changes yet.
LEMMA FanStartsStep ==
  ASSUME PageInv, NEW op \in {"cron", "once", "unschedule", "tags"},
         NEW targets \in SUBSET Targets, NEW first \in {"version", "write"},
         NEW arg \in Versions \cup {None} \cup PerDevice(SUBSET DeviceTags),
         op = "tags" => arg \in [targets -> SUBSET DeviceTags],
         first = "version" => arg \in Versions \cup {None},
         Fan(op, targets, first, arg), UNCHANGED <<server, seen>>, dlg' \in {dlg, NoDlg}
  PROVE  PageInv'
<1>1. ServerOK /\ SeenOK /\ DlgOK /\ UNCHANGED dev
  BY DEF PageInv, server
<1>2. Tasks'
  BY <1>1, FanStarts
<1> QED
  BY <1>1, <1>2, SeenSame, WindowStays, WindowCloses, PageOnlyStep

LEMMA TagsOf ==
  ASSUME NEW targets \in SUBSET Targets, NEW arg \in [targets -> SUBSET DeviceTags]
  PROVE  arg \in Versions \cup {None} \cup PerDevice(SUBSET DeviceTags)
  BY DEF PerDevice

LEMMA BulkStep ==
  ASSUME PageInv, Bulk
  PROVE  PageInv'
<1>0. ServerOK /\ SeenOK /\ DlgOK /\ Tasks
  BY DEF PageInv, Tasks
<1>1. ASSUME NEW op \in {"cron", "once"}, NEW v \in VersionChoices, SaveSchedule(op, v)
      PROVE  PageInv'
  <2>1. v \in Versions \cup {None} /\ UNCHANGED <<server, seen, dlg>>
    BY <1>1 DEF VersionChoices, SaveSchedule
  <2>2. CASE dlg.kind = "upgrade" /\ Fan(op, dlg.targets, "version", v)
    <3>1. dlg.targets \in SUBSET Targets
      BY <1>0, <2>2, WindowOf DEF UpgradeDlg
    <3> QED
      BY <2>1, <2>2, <3>1, FanStartsStep
  <2>3. CASE dlg.kind = "bulk" /\ Fan(op, dlg.targets, "write", v)
    <3>1. dlg.targets \in SUBSET Targets
      BY <1>0, <2>3, WindowOf DEF BulkDlg
    <3> QED
      BY <2>1, <2>3, <3>1, FanStartsStep
  <2> QED
    BY <1>1, <2>2, <2>3 DEF SaveSchedule
<1>2. ASSUME NEW ts \in SUBSET Targets, RemoveSchedules(ts) PROVE PageInv'
  BY <1>2, FanStartsStep DEF RemoveSchedules
<1>3. ASSUME NEW ts \in SUBSET Targets, NEW remove, NEW add \in SUBSET DeviceTags,
             SaveBulkTags(ts, remove, add)
      PROVE  PageInv'
  <2> DEFINE arg == [t \in ts |-> (seen.dev[t].tags \ remove) \cup add]
  <2>1. Fan("tags", ts, "write", arg) /\ UNCHANGED <<server, seen, dlg>>
    BY <1>3 DEF SaveBulkTags
  <2>2. \A t \in ts : seen.dev[t].tags \in SUBSET DeviceTags
    BY <1>0 DEF SeenOK, DeviceMeta
  <2>3. arg \in [ts -> SUBSET DeviceTags]
    BY <2>2
  <2> HIDE DEF arg
  <2> QED
    BY <2>1, <2>3, TagsOf, FanStartsStep
<1>4. ASSUME NEW t \in Targets, NEW tags \in SUBSET DeviceTags, SaveTags(t, tags) PROVE PageInv'
  <2> DEFINE arg == [s \in {t} |-> tags]
  <2>1. Fan("tags", {t}, "write", arg) /\ UNCHANGED <<server, seen, dlg>>
    BY <1>4 DEF SaveTags
  <2>2. arg \in [{t} -> SUBSET DeviceTags] /\ {t} \in SUBSET Targets
    OBVIOUS
  <2> HIDE DEF arg
  <2> QED
    BY <2>1, <2>2, TagsOf, FanStartsStep
<1>5. ASSUME NEW t \in Targets, FanStep(t) \/ FanFails(t) PROVE PageInv'
  <2>1. Tasks' /\ dev' \in [Targets -> DeviceMeta]
    BY <1>0, <1>5, FanStepTask, FanFailsTask
  <2>2. UNCHANGED <<rows, next, fleet, rules, default, seen, dlg>>
    BY <1>5 DEF FanStep, FanFails
  <2>3. MetaStep
    BY <1>0, <2>1, <2>2 DEF MetaStep, ServerOK
  <2> QED
    BY <1>0, <2>1, <2>2, <2>3, RowsStay, SeenSame, WindowStays, PageStep
<1>6. CASE FanSucceeds
  <2>1. task' = NoTask /\ UNCHANGED <<server, seen>> /\ dlg' \in {dlg, NoDlg}
    BY <1>6 DEF FanSucceeds
  <2> QED
    BY <1>0, <2>1, TaskEnds, SeenSame, WindowStays, WindowCloses, PageOnlyStep
<1>7. CASE FanGivesUp
  <2>1. task' = NoTask /\ UNCHANGED <<server, seen, dlg>>
    BY <1>7 DEF FanGivesUp
  <2> QED
    BY <1>0, <2>1, TaskEnds, SeenSame, WindowStays, PageOnlyStep
<1>8. CASE \E ts \in SUBSET Targets : \E tag \in DeviceTags :
             SaveBulkTags(ts, {tag}, {}) \/ SaveBulkTags(ts, {}, {tag})
  BY <1>3, <1>8
<1> QED
  BY <1>1, <1>2, <1>4, <1>5, <1>6, <1>7, <1>8 DEF Bulk

\* Somebody edits; the operation under way is told.
LEMMA EditStep ==
  ASSUME PageInv, NEW k, NEW ts \in SUBSET Targets, Edit(k, ts), SeenStep, DlgOK', MetaStep,
         \A t \in Targets \ ts : dev'[t] = dev[t]
  PROVE  PageInv'
<1>1. ServerOK /\ Tasks
  BY DEF PageInv, Tasks
<1>2. task' = Disturbed(ts) /\ UNCHANGED <<rows, next>>
  BY DEF Edit
<1> QED
  BY <1>1, <1>2, TaskDisturbed, RowsStay, PageStep

\* Edits of workers, of which the page may read the result.
LEMMA WorkerEditStep ==
  ASSUME PageInv, NEW k, Edit(k, {}), NEW w \in Workers, NEW m \in WorkerInfo,
         fleet' = [fleet EXCEPT ![w] = m], seen' \in {seen, [seen EXCEPT !.fleet = fleet']},
         UNCHANGED <<dev, rules, default, dlg>>
  PROVE  PageInv'
<1>1. ServerOK /\ SeenOK /\ DlgOK
  BY DEF PageInv
<1>2. MetaStep
  BY <1>1 DEF ServerOK, MetaStep
<1>3. "fleet" \in DOMAIN seen /\ seen' \in {seen, [seen EXCEPT !["fleet"] = fleet']}
  BY <1>1 DEF SeenOK
<1>4. SeenStep
  BY <1>1, <1>3, SeenOne
<1> QED
  BY <1>1, <1>2, <1>4, WindowStays, EditStep

LEMMA EditsStep ==
  ASSUME PageInv, Edits
  PROVE  PageInv'
<1>0. ServerOK /\ SeenOK /\ DlgOK /\ Tasks
  BY DEF PageInv, Tasks
<1>1. ASSUME NEW t \in Targets, DeviceEdited(t) PROVE PageInv'
  <2>1. Edit("edits", {t}) /\ UNCHANGED <<fleet, rules, default, seen, dlg>>
    BY <1>1 DEF DeviceEdited
  <2>2. \E v \in Versions \cup {None}, tags \in SUBSET DeviceTags :
          dev' \in {dev, PinVersion(t, v), SetSchedule(t), SetOnce(t), DeleteSchedule(t), SetTags(t, tags)}
    <3>1. None \in Versions \cup {None} /\ {} \in SUBSET DeviceTags
      OBVIOUS
    <3> QED
      BY <1>1, <3>1 DEF DeviceEdited
  <2>3. dev' \in [Targets -> DeviceMeta] /\ \A n \in Targets \ {t} : dev'[n] = dev[n]
    BY <1>0, <2>2, DeviceWrites
  <2>4. MetaStep
    BY <1>0, <2>1, <2>3 DEF MetaStep, ServerOK
  <2> QED
    BY <1>0, <2>1, <2>3, <2>4, SeenSame, WindowStays, EditStep
<1>2. ASSUME NEW t \in Targets, OthersCompile(t) PROVE PageInv'
  <2> DEFINE q == [version |-> None, pin |-> None, filter |-> NoFilter,
                   bypass |-> FALSE, download_only |-> FALSE, address |-> FALSE]
  <2>1. Enqueue(t, q, default) /\ UNCHANGED <<dev, fleet, rules, default, seen, dlg, task>>
    BY <1>2 DEF OthersCompile
  <2>2. q \in Question /\ default \in Versions
    BY <1>0 DEF Question, ServerOK
  <2> HIDE DEF q
  <2>3. RowStep
    BY <1>0, <2>1, <2>2, EnqueueRows
  <2> QED
    BY <1>0, <2>1, <2>3, SeenSame, WindowStays, JobsStep
<1>3. ASSUME NEW w \in Workers, WorkerGoes(w) PROVE PageInv'
  <2>1. fleet[w] \in WorkerInfo
    BY <1>0 DEF ServerOK
  <2> DEFINE m == [fleet[w] EXCEPT !.online = ~fleet[w].online]
  <2>2. m \in WorkerInfo
    BY <2>1 DEF WorkerInfo
  <2>3. fleet' = [fleet EXCEPT ![w] = m] /\ Edit("setup", {}) /\ UNCHANGED <<dev, rules, default, seen, dlg>>
    BY <1>3 DEF WorkerGoes
  <2> HIDE DEF m
  <2> QED
    BY <2>2, <2>3, WorkerEditStep
<1>4. ASSUME NEW w \in Workers, NEW n \in 0..MaxSlots, SlotControl(w, n) PROVE PageInv'
  <2>1. fleet[w] \in WorkerInfo
    BY <1>0 DEF ServerOK
  <2> DEFINE m == [fleet[w] EXCEPT !.want = n]
  <2>2. m \in WorkerInfo
    BY <2>1 DEF WorkerInfo
  <2>3. fleet' = [fleet EXCEPT ![w] = m] /\ Edit("setup", {}) /\ UNCHANGED <<dev, rules, default, dlg>>
        /\ seen' \in {seen, [seen EXCEPT !.fleet = fleet']}
    BY <1>4 DEF SlotControl, AskForSlots
  <2> HIDE DEF m
  <2> QED
    BY <2>2, <2>3, WorkerEditStep
<1>5. ASSUME NEW w \in Workers, NEW tags \in SUBSET WorkerTags, SaveWorkerTags(w, tags) PROVE PageInv'
  <2>1. fleet[w] \in WorkerInfo
    BY <1>0 DEF ServerOK
  <2> DEFINE m == [fleet[w] EXCEPT !.tags = tags]
  <2>2. m \in WorkerInfo
    BY <2>1 DEF WorkerInfo
  <2>3. fleet' = [fleet EXCEPT ![w] = m] /\ Edit("setup", {}) /\ UNCHANGED <<dev, rules, default, dlg>>
        /\ seen' \in {seen, [seen EXCEPT !.fleet = fleet']}
    BY <1>5 DEF SaveWorkerTags, SetTagsOf
  <2> HIDE DEF m
  <2> QED
    BY <2>2, <2>3, WorkerEditStep
<1>6. ASSUME NEW v \in Versions, SelectVersion(v) PROVE PageInv'
  <2>1. /\ Edit("setup", {}) /\ default' = v /\ UNCHANGED <<dev, fleet, rules, dlg>>
        /\ seen' \in {seen, [seen EXCEPT !["default"] = default']} /\ "default" \in DOMAIN seen
    BY <1>0, <1>6 DEF SelectVersion, SeenOK
  <2>2. SeenStep
    BY <1>0, <2>1, SeenOne
  <2>3. MetaStep
    BY <1>0, <2>1 DEF MetaStep, ServerOK
  <2> QED
    BY <1>0, <2>1, <2>2, <2>3, WindowStays, EditStep
<1>7. CASE OthersEditRules
  <2>1. Edit("setup", {}) /\ UNCHANGED <<dev, fleet, default, seen, dlg>>
    BY <1>7 DEF OthersEditRules
  <2> QED
    BY <1>0, <2>1, SeenSame, MetaSame, WindowStays, EditStep
<1> QED
  BY <1>1, <1>2, <1>3, <1>4, <1>5, <1>6, <1>7 DEF Edits

LEMMA RulesModalStep ==
  ASSUME PageInv, RulesModal
  PROVE  PageInv'
<1>0. ServerOK /\ SeenOK /\ DlgOK /\ "rules" \in DOMAIN seen
  BY DEF PageInv, SeenOK
<1>1. CASE \E link \in RuleIds \cup {None} : OpenRules(link)
  <2>1. DlgOK'
    BY <1>0, <1>1, WindowOpens
  <2> QED
    BY <1>1, <2>1, WindowStep DEF OpenRules
<1>2. CASE (\E id \in RuleIds \cup {None} : EnterBuilder(id)) \/ LeaveBuilder
  <2>1. DlgOK'
    BY <1>0, <1>2, WindowChanges
  <2> QED
    BY <1>2, <2>1, WindowStep DEF EnterBuilder, LeaveBuilder
<1>3. CASE (\E r \in RulePool : SaveRule(r)) \/ (\E id \in RuleIds : DeleteRule(id))
  <2>1. DlgOK'
    BY <1>0, <1>3, WindowChanges
  <2>2. /\ Edit("setup", {}) /\ UNCHANGED <<dev, fleet, default>>
        /\ seen' \in {seen, [seen EXCEPT !["rules"] = rules']}
    BY <1>3 DEF SaveRule, DeleteRule
  <2>3. SeenStep
    BY <1>0, <2>2, SeenOne
  <2> QED
    BY <1>0, <2>1, <2>2, <2>3, MetaSame, EditStep
<1> QED
  BY <1>1, <1>2, <1>3 DEF RulesModal

LEMMA JobsProgressStep ==
  ASSUME PageInv, JobsProgress
  PROVE  PageInv'
<1>0. ServerOK /\ SeenOK /\ DlgOK /\ Tasks
  BY DEF PageInv, Tasks
<1>1. UNCHANGED <<seen, dlg, task>>
  BY DEF JobsProgress
<1>2. CASE (\E i \in JobIds : Claim(i) \/ Finish(i) \/ OtaEnds(i)) \/ Sweep
  <2>1. RowStep
    BY <1>0, <1>2, ClaimRows, FinishRows, OtaRows, SweepRows
  <2>2. UNCHANGED <<dev, fleet, rules, default>>
    BY <1>2 DEF Claim, Finish, OtaEnds, Sweep
  <2> QED
    BY <1>0, <1>1, <2>1, <2>2, SeenSame, WindowStays, JobsStep
<1>3. ASSUME NEW w \in Workers, AdoptSlots(w) PROVE PageInv'
  <2>1. fleet \in [Workers -> WorkerInfo] /\ fleet[w] \in WorkerInfo
    BY <1>0 DEF ServerOK
  <2> DEFINE m == [fleet[w] EXCEPT !.slots = fleet[w].want, !.want = None]
  <2>2. m \in WorkerInfo /\ m.tags = fleet[w].tags
    BY <1>3, <2>1 DEF WorkerInfo, AdoptSlots
  <2>3. fleet' = [fleet EXCEPT ![w] = m] /\ UNCHANGED <<rows, next, dev, rules, default>>
    BY <1>3 DEF AdoptSlots
  <2> HIDE DEF m
  <2>4. fleet' \in [Workers -> WorkerInfo] /\ \A n \in Workers : fleet'[n].tags = fleet[n].tags
    BY <2>1, <2>2, <2>3
  <2>5. MetaStep
    BY <1>0, <2>3, <2>4 DEF MetaStep, ServerOK
  <2>6. RowStep
    BY <1>0, <2>3, RowsStay
  <2>7. Tasks'
    BY <1>0, <1>1, <2>3, <2>4, <2>6, TaskStays
  <2> QED
    BY <1>0, <1>1, <2>5, <2>6, <2>7, SeenSame, WindowStays, PageStep
<1> QED
  BY <1>2, <1>3 DEF JobsProgress

LEMMA PollsStep ==
  ASSUME PageInv, Polls
  PROVE  PageInv'
<1>0. ServerOK /\ SeenOK /\ DlgOK /\ Tasks
  BY DEF PageInv, Tasks
<1>1. CASE RulesArrive
  <2>1. UNCHANGED <<server, task>> /\ seen' \in {seen, [seen EXCEPT !["rules"] = rules]}
        /\ "rules" \in DOMAIN seen /\ UNCHANGED <<rows, next, dev, fleet, rules, default>>
    BY <1>0, <1>1 DEF RulesArrive, SeenOK, server
  <2>2. SeenStep
    BY <1>0, <2>1, SeenOne
  <2>3. DlgOK'
    BY <1>0, <1>1, WindowChanges
  <2> QED
    BY <1>0, <2>1, <2>2, <2>3, RowsStay, JobsStep
<1>2. ASSUME NEW k \in {"rows", "dev", "fleet", "default"}, Poll(k) PROVE PageInv'
  <2>1. UNCHANGED <<dlg, task>> /\ seen' = [seen EXCEPT ![k] = View[k]]
        /\ k \in DOMAIN seen /\ UNCHANGED <<rows, next, dev, fleet, rules, default>>
    BY <1>0, <1>2 DEF Poll, SeenOK, server
  <2>2. /\ View["rows"] = rows /\ View["dev"] = dev /\ View["fleet"] = fleet
        /\ View["default"] = default
    BY DEF View
  <2>3. SeenStep
    BY <1>0, <2>1, <2>2, SeenOne
  <2> QED
    BY <1>0, <2>1, <2>3, WindowStays, RowsStay, JobsStep
<1> QED
  BY <1>1, <1>2 DEF Polls

LEMMA PageInit ==
  ASSUME Init
  PROVE  PageInv
<1>1. rows = [i \in JobIds |-> NoRow] /\ next = 1 /\ default \in Versions
      /\ dlg = NoDlg /\ task = NoTask /\ seen = View
  BY DEF Init
<1>2. rows \in Table /\ Unborn(rows) /\ next \in 1..(MaxJobs + 1)
  BY <1>1, ServerAssumption DEF Table, Unborn
<1>3. dev \in [Targets -> DeviceMeta]
  BY DEF Init, DeviceMeta
<1>4. fleet \in [Workers -> WorkerInfo]
  <2>1. 1 \in 0..MaxSlots
    BY PageAssumption
  <2> QED
    BY <2>1 DEF Init, WorkerInfo
<1>5. ServerOK
  BY <1>1, <1>2, <1>3, <1>4 DEF ServerOK
<1>6. /\ DOMAIN seen = {"rows", "dev", "fleet", "rules", "default"} /\ seen.rows = rows
      /\ seen.dev = dev /\ seen.fleet = fleet /\ seen.default = default
  BY <1>1 DEF View
<1>7. SeenOK
  BY <1>5, <1>6 DEF SeenOK, ServerOK
<1>8. FinishedStays
  BY <1>1, <1>6, NoRowFacts DEF FinishedStays, Ids
<1>9. task \notin ClearTask /\ task \notin CompileTask /\ task \notin FanTask
  BY <1>1, Kinds
<1> QED
  BY <1>1, <1>5, <1>7, <1>8, <1>9 DEF PageInv, DlgOK, TaskOK, ClearOK, CompileOK, FanOK

LEMMA PageStutters ==
  ASSUME PageInv, UNCHANGED vars
  PROVE  PageInv'
<1>1. UNCHANGED <<server, seen, dlg, task>>
  BY DEF vars
<1> QED
  BY <1>1, WindowStays, WindowStep DEF PageInv

----------------------------------------------------------------------------
(* Theorems *)

\* At every moment the server's tables are well formed, what the page has read was well
\* formed once, the window on top is one of App.tsx's, and the operation whose requests
\* are on their way can rely on what it has read, as far as nobody has edited it.
THEOREM PageInvariant == Spec => []PageInv
<1>1. Init => PageInv
  BY PageInit
<1>2. PageInv /\ [Next]_vars => PageInv'
  <2> SUFFICES ASSUME PageInv, [Next]_vars PROVE PageInv'
    OBVIOUS
  <2>1. CASE UNCHANGED vars
    BY <2>1, PageStutters
  <2>2. CASE Next
    BY <2>2, QueueTabStep, UpgradeModalStep, BulkStep, EditsStep, RulesModalStep,
       JobsProgressStep, PollsStep DEF Next
  <2> QED
    BY <2>1, <2>2
<1> QED
  BY <1>1, <1>2, PTL DEF Spec

\* A job the page shows as finished is finished or gone, however old the page is: the
\* Clear and Rerun buttons of QueueTab never meet a running job.
THEOREM ButtonsMeetNoRunningJob == Spec => []FinishedStays
<1>1. PageInv => FinishedStays
  BY DEF PageInv
<1> QED
  BY <1>1, PageInvariant, PTL

\* When Clear Entire Queue says so, every job it found pending or working is gone,
\* whatever has happened to it between the two requests of App.tsx.
THEOREM ClearAllClearsAll == Spec => QueueCleared
<1>1. PageInv /\ [Next]_vars =>
        [ClearAllClears => \A i \in task.ids : rows'[i].state = "none"]_vars
  <2> SUFFICES ASSUME PageInv, ClearAllClears, NEW i \in task.ids
               PROVE  rows'[i].state = "none"
    OBVIOUS
  <2>1. task.kind = "clear" /\ task.stage = "clear" /\ rows' = Clear(Terminal, FALSE)
    BY DEF ClearAllClears
  <2>2. task \in ClearTask
    BY <2>1, Kinds DEF PageInv, TaskOK
  <2>3. i \in JobIds /\ rows[i].state \in Terminal \cup {"none"}
    BY <2>1, <2>2 DEF PageInv, ClearOK, ClearTask
  <2>4. rows'[i] = IF rows[i].state \in Terminal THEN NoRow ELSE rows[i]
    BY <2>1, <2>3 DEF Clear, Removed
  <2> QED
    BY <2>3, <2>4, NoRowFacts
<1> QED
  BY <1>1, PageInvariant, PTL DEF Spec, QueueCleared

\* Unless somebody edits meanwhile, the Upgrade window sends the override of the routing
\* rules exactly when they exclude the worker it pins for some device of the selection:
\* hasConflict in the page agrees with the server's eligibility.
THEOREM OverrideIsDeliberate == Spec => NoSilentOverride
<1>1. PageInv /\ [Next]_vars =>
        [\A t \in Targets : CompileEnqueues(t) /\ task.fresh /\ task.q.pin # None =>
           task.q.bypass <=> \E s \in task.targets :
                               ~IsEligible(dev[s].tags, fleet[task.q.pin].tags, rules)]_vars
  <2> SUFFICES ASSUME PageInv, NEW t \in Targets, CompileEnqueues(t), task.fresh, task.q.pin # None
               PROVE  task.q.bypass <=> Excluded(task.targets, task.q.pin)
    BY DEF Excluded
  <2>1. ServerOK /\ Tasks
    BY DEF PageInv, Tasks
  <2>2. task \in CompileTask /\ CompileOK
    BY <2>1, CompileEnqueuesTask
  <2> QED
    BY <2>2 DEF CompileOK
<1> QED
  BY <1>1, PageInvariant, PTL DEF Spec, NoSilentOverride

\* Unless somebody edits meanwhile, the version picked in the Upgrade window is the one
\* the server builds, although the default is sent as no version at all and the pin is
\* moved by a request of its own. The default for pinned devices, when the window does
\* not move the pin, is left out.
THEOREM PickedVersionIsBuilt == Spec => VersionKept
<1>1. PageInv /\ [Next]_vars =>
        [\A t \in Targets : CompileEnqueues(t) /\ task.fresh /\ task.chosen # None /\ rows' # rows =>
           LET kept == task.chosen = default /\ dev[t].pin \notin {None, default}
                       /\ (task.q.download_only \/ Cardinality(task.targets) > 1)
           IN kept \/ \E i \in JobIds : rows'[i] # rows[i] /\ rows'[i].target = t
                                        /\ rows'[i].version = task.chosen]_vars
  <2> SUFFICES ASSUME PageInv, NEW t \in Targets, CompileEnqueues(t), task.fresh,
                      task.chosen # None, rows' # rows,
                      ~(task.chosen = default /\ dev[t].pin \notin {None, default} /\ KeepsPin(task))
               PROVE  \E i \in JobIds : rows'[i] # rows[i] /\ rows'[i].target = t
                                        /\ rows'[i].version = task.chosen
    BY DEF KeepsPin
  <2>1. ServerOK /\ Tasks
    BY DEF PageInv, Tasks
  <2>2. /\ task \in CompileTask /\ CompileOK /\ task.stage = "loop" /\ t \in task.targets
        /\ \E i \in JobIds : /\ rows'[i] # rows[i] /\ rows'[i].target = t
                             /\ rows'[i].version = EffectiveVersion(t, task.q.version, task.base)
    BY <2>1, CompileEnqueuesTask
  <2>3. EffectiveVersion(t, task.q.version, task.base) = task.chosen
    <3>1. CASE task.q.version # None
      BY <2>2, <3>1 DEF CompileOK, EffectiveVersion
    <3>2. CASE task.q.version = None
      <4>1. /\ task.chosen = default /\ task.base = default
            /\ KeepsPin(task) \/ dev[t].pin \in {None, task.chosen}
        BY <2>2, <3>2 DEF CompileOK
      <4>2. dev[t].pin \in {None, default}
        BY <4>1
      <4> QED
        BY <3>2, <4>1, <4>2 DEF EffectiveVersion
    <3> QED
      BY <3>1, <3>2
  <2> QED
    BY <2>2, <2>3
<1> QED
  BY <1>1, PageInvariant, PTL DEF Spec, VersionKept

\* An operation on several devices reports success only when every device has what was
\* asked for, the version of applyScheduleVersion included, but for devices that somebody
\* else has edited or that the page did not see as they were.
THEOREM SuccessIsTrue == Spec => SaidDone
<1>1. PageInv /\ [Next]_vars =>
        [FanSucceeds =>
           \A t \in DOMAIN task.st \ task.touched :
             CASE task.op = "unschedule" -> ~dev[t].cron /\ ~dev[t].once
               [] task.op = "tags" -> dev[t].tags = task.arg[t]
               [] OTHER -> /\ IF task.op = "cron" THEN dev[t].cron ELSE dev[t].once
                           /\ task.apply => dev[t].pin = task.arg]_vars
  <2> SUFFICES ASSUME PageInv, FanSucceeds, NEW t \in DOMAIN task.st \ task.touched
               PROVE  CASE task.op = "unschedule" -> ~dev[t].cron /\ ~dev[t].once
                        [] task.op = "tags" -> dev[t].tags = task.arg[t]
                        [] OTHER -> /\ IF task.op = "cron" THEN dev[t].cron ELSE dev[t].once
                                    /\ task.apply => dev[t].pin = task.arg
    OBVIOUS
  <2>1. task.kind = "fan" /\ task.st[t] = "done"
    BY DEF FanSucceeds, AllDone
  <2>2. task \in FanTask /\ FanOK
    BY <2>1, FanKind DEF PageInv, Tasks
  <2>3. task.op \in {"cron", "once", "unschedule", "tags"}
    BY <2>2 DEF FanTask
  <2>4. Asked(t) /\ (task.apply => dev[t].pin = task.arg)
    BY <2>1, <2>2 DEF FanOK
  <2> QED
    BY <2>3, <2>4 DEF Asked
<1> QED
  BY <1>1, PageInvariant, PTL DEF Spec, SaidDone

============================================================================
