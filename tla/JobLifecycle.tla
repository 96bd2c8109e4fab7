---------------------------- MODULE JobLifecycle ----------------------------
(***************************************************************************)
(* What the queue promises for one job, whatever its callers, its workers  *)
(* and the process around it do: the row follows the life cycle below, an  *)
(* accepted job is never lost, a verdict is final, and the history keeps   *)
(* at most one verdict per job, the one the job got.                       *)
(***************************************************************************)
CONSTANT JobIds

VARIABLES
  stage,    \* stage[i]: where job i is
  verdict   \* verdict[i]: the verdict the history shows for job i

Verdicts == {"success", "failed", "cancelled"}
Stages == Verdicts \cup {"unborn", "pending", "blocked", "working", "gone"}

\* Stage s may be followed by stage t.  A job that is killed with its request
\* before the first write is gone at once; one that no worker may build
\* (blocked) gives way to a newer request without a verdict.
Move(s, t) ==
  \/ s = "unborn"    /\ t \in {"pending", "gone"}
  \/ s = "pending"   /\ t \in {"blocked", "working", "cancelled"}
  \/ s = "blocked"   /\ t \in {"pending", "cancelled", "gone"}
  \/ s = "working"   /\ t \in {"pending"} \cup Verdicts
  \/ s \in Verdicts /\ t = "gone"

Init ==
  /\ stage = [i \in JobIds |-> "unborn"]
  /\ verdict = [i \in JobIds |-> "none"]

\* One step of the queue moves any number of jobs by one stage, and may note
\* the verdict of jobs that have one, or forget it when it is old.
Next ==
  /\ stage' \in [JobIds -> Stages]
  /\ verdict' \in [JobIds -> Verdicts \cup {"none"}]
  /\ \A i \in JobIds :
       /\ stage'[i] # stage[i] => Move(stage[i], stage'[i])
       /\ verdict'[i] \notin {verdict[i], "none"} =>
            /\ verdict[i] = "none"
            /\ verdict'[i] \in {stage[i], stage'[i]}

Spec == Init /\ [][Next]_<<stage, verdict>>

=============================================================================
