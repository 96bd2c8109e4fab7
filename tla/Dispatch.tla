------------------------------ MODULE Dispatch ------------------------------
(***************************************************************************)
(* Which worker gets which job: the scheduling half of get_next_job        *)
(* (ha-addon/server/api.py) on top of the queue, the routing rules and the *)
(* state of the workers in the registry.                                   *)
(*                                                                         *)
(* A worker that polls steps back when better workers have room for all    *)
(* the jobs it could take.  Everyone decides for himself from the same     *)
(* snapshot, so the question is whether somebody always goes ahead.        *)
(***************************************************************************)
EXTENDS JobQueue, Routing, FiniteSetsExt

CONSTANTS
  DeviceTags,    \* tags of each target's device
  TagChoices,    \* tag sets a worker may have
  RuleChoices,   \* rule lists users may set up
  Wishes,        \* worker_tag_filter and bypass_routing_rules of a request
  MaxScore, MaxSlots,  \* bounds on perf score and max_parallel_jobs
  MaxChanges     \* bound: changes to rules, tags and workers

ASSUME DispatchAssumption ==
  /\ DeviceTags \in [Targets -> SUBSET Tags]
  /\ TagChoices \subseteq SUBSET Tags
  /\ RuleChoices \subseteq Seq(Rule)
  /\ Wishes \subseteq [filter : Clause \cup {NoFilter}, bypass : BOOLEAN]
  /\ {MaxScore, MaxSlots} \subseteq Nat \ {0} /\ MaxChanges \in Nat

VARIABLES
  wish,      \* wish[i]: what job i asks of its worker
  rules,     \* the routing rules
  tags,      \* tags[w]
  status,    \* status[w]: "up", "offline", "disabled" or "unhealthy"
  score,     \* score[w]: effective performance score
  slots,     \* slots[w]: max_parallel_jobs
  changes    \* changes so far

fleetVars == <<rules, tags, status, score, slots, changes>>
dispatchVars == <<vars, wish, fleetVars>>

NoWish == [filter |-> NoFilter, bypass |-> FALSE]

DInit ==
  /\ Init
  /\ wish = [i \in JobIds |-> NoWish]
  /\ rules \in RuleChoices
  /\ tags \in [Workers -> TagChoices]
  /\ status = [w \in Workers |-> "up"]
  /\ score \in [Workers -> 1..MaxScore]
  /\ slots \in [Workers -> 1..MaxSlots]
  /\ changes = 0

-----------------------------------------------------------------------------
(* get_next_job *)

MayClaim(w, i) == ClaimEligible(wish[i], DeviceTags[jobs[i].target], tags[w], rules)

Eligible(w) == {i \in InState({"pending"}) : MayClaim(w, i)}

\* my_eligible_pending: the jobs that decide whether w steps back.
Mine(w) == {i \in Eligible(w) : ~jobs[i].followup /\ jobs[i].pin \in {None, w}}

ActiveJobs(w) == Cardinality({i \in JobIds : jobs[i].state = "working" /\ jobs[i].assigned = w})

Free(w) == slots[w] - ActiveJobs(w)

Beats(o, w) ==
  \/ ActiveJobs(o) < ActiveJobs(w)
  \/ ActiveJobs(o) = ActiveJobs(w) /\ score[o] > score[w]

\* Fault: a worker with a full disk is waited for.
PoolWithUnhealthy(w) ==
  {o \in Workers \ {w} :
     /\ status[o] \in {"up", "unhealthy"} /\ Free(o) > 0 /\ Beats(o, w)
     /\ Mine(w) # {} => \E i \in Mine(w) : MayClaim(o, i) /\ jobs[i].pin \in {None, o}}

\* The workers w would let go first: available, with room, better, and eligible
\* for one of the jobs of w, or w has none.
DeferralPool(w) ==
  {o \in Workers \ {w} :
     /\ status[o] = "up" /\ Free(o) > 0 /\ Beats(o, w)
     /\ Mine(w) # {} => \E i \in Mine(w) : MayClaim(o, i) /\ jobs[i].pin \in {None, o}}

ShouldDefer(w) ==
  LET room == MapThenSumSet(Free, DeferralPool(w))
  IN  room > 0 /\ Cardinality(Mine(w)) <= room

\* A slot of w asks for work.  A worker whose heartbeats are late still polls.
Poll(w) ==
  /\ status[w] \in {"up", "offline"} /\ Free(w) > 0
  /\ ClaimNext(w, ShouldDefer(w), Eligible(w))
  /\ UNCHANGED <<wish, fleetVars>>

-----------------------------------------------------------------------------
(* The rest of the system *)

\* start_compile; the row that holds the request takes over its wish.
RequestCompile(r, q) ==
  /\ Enqueue(r)
  /\ wish' = [i \in JobIds |->
       IF i = nextId \/ (nextId' = nextId /\ IsLast(i, Followups(r.target)))
         THEN q ELSE wish[i]]
  /\ UNCHANGED fleetVars

\* A worker ends a job.
Ends(i) ==
  /\ jobs[i].state = "working"
  /\ \E res \in Results : SubmitResult(i, res)
  /\ UNCHANGED <<wish, fleetVars>>

\* routing_eligibility.re_evaluate_routing, from its triggers and every 30 s.
Fleet == {tags[w] : w \in {v \in Workers : status[v] \in {"up", "unhealthy"}}}

Runs(i) == wish[i].bypass \/ FleetEligible(DeviceTags[jobs[i].target], Fleet, rules)

Reevaluate ==
  /\ ReEvaluateRouting({i \in InState(Waiting) : Runs(i)})
  /\ UNCHANGED <<wish, fleetVars>>

\* A worker comes, goes, is disabled or runs out of disk, or a user edits its tags
\* or the rules.
FleetChanges ==
  /\ changes < MaxChanges
  /\ changes' = changes + 1
  /\ \/ /\ \E w \in Workers, s \in {"up", "offline", "disabled", "unhealthy"} :
             status' = [status EXCEPT ![w] = s]
        /\ UNCHANGED <<tags, rules>>
     \/ /\ \E w \in Workers, T \in TagChoices : tags' = [tags EXCEPT ![w] = T]
        /\ UNCHANGED <<status, rules>>
     \/ /\ rules' \in RuleChoices
        /\ UNCHANGED <<status, tags>>
  /\ UNCHANGED <<vars, wish, score, slots>>

DNext ==
  \/ \E r \in Requests, q \in Wishes : RequestCompile(r, q)
  \/ \E w \in Workers : Poll(w)
  \/ \E i \in JobIds : Ends(i)
  \/ Reevaluate
  \/ FleetChanges

\* Every worker keeps polling, every job comes to an end (WorkerProtocol), and
\* the routing watchdog runs every 30 s.
DSpec == DInit /\ [][DNext]_dispatchVars
DFairSpec ==
  /\ DSpec
  /\ \A w \in Workers : WF_dispatchVars(Poll(w))
  /\ \A i \in JobIds : WF_dispatchVars(Ends(i))
  /\ WF_dispatchVars(Reevaluate)

-----------------------------------------------------------------------------
(* Properties *)

\* Job i waits, behind nothing, and some worker that is up may run it.
Startable(i) ==
  /\ jobs[i].state \in Waiting /\ ~jobs[i].followup
  /\ \E w \in Workers : status[w] = "up" /\ jobs[i].pin \in {None, w} /\ MayClaim(w, i)

\* A job somebody may run starts, although every worker decides by itself whether
\* to let a better one go first: it leaves the queue's waiting states, unless a
\* change to the fleet or the rules takes its workers away.
JobStarts == \A i \in JobIds : Startable(i) ~> ~Startable(i)

=============================================================================
