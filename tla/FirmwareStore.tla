---------------------------- MODULE FirmwareStore ----------------------------
(***************************************************************************)
(* Which binaries stay in /data/firmware: ha-addon/server/                 *)
(* firmware_storage.py and the background tasks of main.py that delete.    *)
(*                                                                         *)
(* JobQueue has one bit per job, this module has the variants with their   *)
(* ages and sizes, and the paged scan of the history that tells the tasks  *)
(* what to keep.  The row of a job is reduced to what decides about its    *)
(* binaries: whether it is in the queue and says has_firmware.             *)
(*                                                                         *)
(* Every pass runs without an await, so it is one step.                    *)
(***************************************************************************)
EXTENDS Integers, SequencesExt

CONSTANTS
  Jobs,      \* job ids
  Variants,  \* names of firmware variants
  Size,      \* Size[v]: bytes of a binary of variant v
  MaxAge,    \* firmware_retention_days; 0 turns the pass off
  Budget,    \* firmware_cache_max_gb; 0 turns the pass off
  Page,      \* page size of the callers that scan the history: 1000
  Clamp,     \* largest page query returns: 500
  MaxTime    \* bound: last instant of the model's clock

ASSUME StoreAssumption ==
  /\ Size \in [Variants -> Nat \ {0}]
  /\ {MaxAge, Budget} \subseteq Nat
  /\ {Page, Clamp, MaxTime} \subseteq Nat \ {0}

VARIABLES
  row,   \* row[j]: "new", "working", "finished", or "gone" from the queue
  flag,  \* flag[j]: has_firmware of the row
  past,  \* successful history rows, newest first
  bins,  \* bins[j, v]: modification time of the binary, 0 without one
  now    \* the clock

storeVars == <<row, flag, past, bins, now>>

Binaries == Jobs \X Variants

StoreInit ==
  /\ row = [j \in Jobs |-> "new"]
  /\ flag = [j \in Jobs |-> FALSE]
  /\ past = <<>>
  /\ bins = [b \in Binaries |-> 0]
  /\ now = 1

OnDisk == {b \in Binaries : bins[b] # 0}

\* unlink of every binary in B.
Without(B) == [b \in Binaries |-> IF b \in B THEN 0 ELSE bins[b]]

\* delete_firmware takes every variant.
OfJob(j) == {j} \X Variants

\* One element for every byte of every binary in B.
Bytes(B) == Cardinality(UNION {{b} \X (1..Size[b[2]]) : b \in B})

-----------------------------------------------------------------------------
(* What the queue does *)

Start(j) ==
  /\ row[j] = "new"
  /\ row' = [row EXCEPT ![j] = "working"]
  /\ UNCHANGED <<flag, past, bins, now>>

\* The end of an upload: save_firmware, then mark_firmware_stored or its grace
\* variant.  After the row is gone the flag has nowhere to go, and the binary stays.
Upload(j, v) ==
  /\ row[j] # "new"
  /\ bins' = [bins EXCEPT ![<<j, v>>] = now]
  /\ flag' = [flag EXCEPT ![j] = row[j] # "gone"]
  /\ UNCHANGED <<row, past, now>>

\* An upload that was let in while the job ran, and ends when it no longer runs,
\* is deleted again with all variants of the job.
Refuse(j) ==
  /\ row[j] \in {"finished", "gone"}
  /\ bins' = Without(OfJob(j))
  /\ UNCHANGED <<row, flag, past, now>>

\* A job ends, and a success is recorded.
End(j) ==
  /\ row[j] = "working"
  /\ row' = [row EXCEPT ![j] = "finished"]
  /\ past' \in {past, <<[job |-> j, firmware |-> flag[j]]>> \o past}
  /\ UNCHANGED <<flag, bins, now>>

\* record_terminal for a job that has a row already: the row keeps its place.
Rerecorded(j) ==
  [k \in DOMAIN past |->
     IF past[k].job = j THEN [past[k] EXCEPT !.firmware = flag[j]] ELSE past[k]]

\* The row of a finished job leaves the queue.  enqueue and retry record it again;
\* enqueue and remove delete the binaries of a row without the flag.
Leave(j, caller) ==
  /\ row[j] = "finished"
  /\ row' = [row EXCEPT ![j] = "gone"]
  /\ past' = IF caller = "remove" THEN past ELSE Rerecorded(j)
  /\ bins' = IF caller = "retry" \/ flag[j] THEN bins ELSE Without(OfJob(j))
  /\ UNCHANGED <<flag, now>>

-----------------------------------------------------------------------------
(* The history scan *)

\* JobHistory.query with its limit clamped.
Query(limit, offset) ==
  SubSeq(past, offset + 1, Min({Len(past), offset + Min({limit, Clamp})}))

\* The scan of load() and of the budget pass, from offset on: it stops at an empty
\* page or at one that is shorter than what it asked for.
Scan ==
  LET from[offset \in 0..(Len(past) + Page)] ==
        LET got == Query(Page, offset)
            ids == {got[k].job : k \in {n \in DOMAIN got : got[n].firmware}}
        IN  IF Len(got) < Page THEN ids ELSE ids \cup from[offset + Page]
  IN  from[0]

-----------------------------------------------------------------------------
(* The tasks *)

InQueue == {j \in Jobs : row[j] \in {"working", "finished"}}
Announced == {j \in InQueue : flag[j]}

\* load(): reconcile_orphans.
Reconcile ==
  /\ bins' = Without({b \in OnDisk : b[1] \notin InQueue \cup Scan})
  /\ UNCHANGED <<row, flag, past, now>>

\* enforce_retention.
Expired(old) == {b \in OnDisk : MaxAge > 0 /\ now - bins[b] > MaxAge /\ b[1] \notin old}

\* The sort of enforce_budget by modification time, ties in directory order.
Sortings(B) ==
  {s \in SetToSeqs(B) : \A m, n \in DOMAIN s : m < n => bins[s[m]] <= bins[s[n]]}

\* What the loop has come across before place k and might unlink.
FreeBefore(order, keep, k) ==
  {order[m] : m \in {m \in DOMAIN order : m < k /\ order[m][1] \notin keep}}

\* Fault: what must stay is not counted.
EvictedOfFree(order, keep) ==
  LET free == FreeBefore(order, keep, Len(order) + 1)
      More(k) == Bytes(free) - Bytes(FreeBefore(order, keep, k)) > Budget
  IN  {order[k] : k \in {k \in DOMAIN order : order[k][1] \notin keep /\ More(k)}}

\* Fault: one file more goes when the budget is just met.
EvictedAtBudget(order, keep) ==
  LET More(k) == Bytes(Range(order)) - Bytes(FreeBefore(order, keep, k)) >= Budget
  IN  {order[k] : k \in {k \in DOMAIN order : order[k][1] \notin keep /\ More(k)}}

\* The loop of enforce_budget over the sorted files: it unlinks what it may, as
\* long as what it has not unlinked is too large.
Evicted(order, keep) ==
  LET More(k) == Bytes(Range(order)) - Bytes(FreeBefore(order, keep, k)) > Budget
  IN  {order[k] : k \in {k \in DOMAIN order : order[k][1] \notin keep /\ More(k)}}

\* One round of firmware_retention_enforcer: by age, then by disk budget.
Enforce ==
  LET old  == Expired(Announced)
      left == OnDisk \ old
  IN  /\ IF Budget = 0 THEN bins' = Without(old)
         ELSE \E order \in Sortings(left) :
                bins' = Without(old \cup Evicted(order, Announced \cup Scan))
      /\ UNCHANGED <<row, flag, past, now>>

\* job_history_retention: the n oldest rows go, with the binaries of their jobs.
Forget(n) ==
  LET old == {past[k].job : k \in {m \in DOMAIN past : m > Len(past) - n}}
  IN  /\ n \in 1..Len(past)
      /\ past' = SubSeq(past, 1, Len(past) - n)
      /\ bins' = Without({b \in OnDisk : b[1] \in old})
      /\ UNCHANGED <<row, flag, now>>

Tick == now < MaxTime /\ now' = now + 1 /\ UNCHANGED <<row, flag, past, bins>>

StoreNext ==
  \/ \E j \in Jobs : Start(j) \/ End(j) \/ Refuse(j)
  \/ \E j \in Jobs, caller \in {"enqueue", "retry", "remove"} : Leave(j, caller)
  \/ \E j \in Jobs, v \in Variants : Upload(j, v)
  \/ Reconcile \/ Enforce \/ Tick
  \/ \E n \in 1..Cardinality(Jobs) : Forget(n)

StoreSpec == StoreInit /\ [][StoreNext]_storeVars

-----------------------------------------------------------------------------
(* Properties *)

\* After a round of the enforcer the directory is within its budget, or all that is
\* left belongs to jobs the round had to keep.
BudgetHolds ==
  [][Enforce /\ Budget > 0
     => \/ Bytes({b \in OnDisk : bins'[b] # 0}) <= Budget
        \/ \A b \in OnDisk : bins'[b] # 0 => b[1] \in Announced \cup Scan]_storeVars

\* The enforcer deletes no binary a row of the queue announces. What the budget
\* costs is never newer than what stays although it might have gone, and no
\* more than needed: with its newest victim, the last to go (of several of that
\* time, one of them), the directory would be too large.
EvictsOldestAsNeeded ==
  [][Enforce =>
       LET gone == {b \in OnDisk : bins'[b] = 0}
           kept == {b \in OnDisk : bins'[b] # 0}
           lost == gone \ Expired(Announced)
       IN  /\ \A b \in gone : b[1] \notin Announced
           /\ \A b \in gone, c \in kept : c[1] \notin Announced \cup Scan => bins[b] <= bins[c]
           /\ lost # {} => \E b \in lost : /\ \A c \in lost : bins[c] <= bins[b]
                                         /\ Bytes(kept \cup {b}) > Budget]_storeVars

=============================================================================
