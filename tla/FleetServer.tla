---------------------------- MODULE FleetServer ----------------------------
(* The server as the web UI meets it: the queue, the devices' metadata, the   *)
(* workers, the routing rules and the default version, with the requests of   *)
(* ui_api.py that change them. JobQueue has the queue in full; here a row     *)
(* keeps what the page shows and what the Upgrade window asks for.            *)
EXTENDS JobRows, Routing, SequencesExt

CONSTANTS
  Targets,   \* YAML files of the devices
  Workers,   \* workers
  Versions,  \* versions of ESPHome
  RulePool,  \* routing rules somebody may write
  None,      \* the null of the code
  MaxJobs    \* bound on the jobs ever created

ASSUME ServerAssumption ==
  /\ IsFiniteSet(Targets)
  /\ RulePool \subseteq Rule
  /\ None \notin Targets \cup Workers \cup Versions \cup RuleIds
  /\ MaxJobs \in Nat

VARIABLES
  rows,     \* the queue, by job id; ids are never used again
  next,     \* the id of the next job
  dev,      \* per target: tags, pin_version, schedule, schedule_once
  fleet,    \* per worker: tags, online, its slots, and how many are asked for
  rules,    \* the global routing rules, by id
  default   \* the server's default version

server == <<rows, next, dev, fleet, rules, default>>

JobIds == 1..MaxJobs

\* A worker that builds: online, and not paused by having no slots.
Builds(worker) == worker.online /\ worker.slots > 0

\* address: the user has typed the address to flash; worker: who has claimed it.
Row == [target : Targets, state : States, ota : OtaResults, download_only : BOOLEAN,
        version : Versions, pin : Workers \cup {None}, filter : Clause \cup {NoFilter},
        bypass : BOOLEAN, followup : BOOLEAN, address : BOOLEAN, worker : Workers \cup {None}]

NoRow == [target |-> None, state |-> "none", ota |-> "none", download_only |-> FALSE,
          version |-> None, pin |-> None, filter |-> NoFilter,
          bypass |-> FALSE, followup |-> FALSE, address |-> FALSE, worker |-> None]

Terminal == {"success", "failed", "timed_out", "cancelled"}

Ids(R) == {i \in JobIds : R[i].state # "none"}
OfTarget(t) == {i \in JobIds : rows[i].target = t}

----------------------------------------------------------------------------
(* start_compile *)

\* The version of a job: the override of the request, the device's pin, the
\* default.
EffectiveVersion(t, override, base) ==
  IF override # None THEN override
  ELSE IF dev[t].pin # None THEN dev[t].pin
  ELSE base

\* enqueue for one target: a waiting follow-up takes the request over, an
\* unclaimed job swallows it, and otherwise there is a new row, for which the
\* finished and blocked rows of the target make room.
Enqueue(t, q, base) ==
  LET mine == OfTarget(t)
      followups == {i \in mine : rows[i].state = "pending" /\ rows[i].followup}
      active == {i \in mine : rows[i].state \in {"pending", "working"} /\ i \notin followups}
      newest == {i \in active : \A k \in active : k <= i}
      stale == {i \in mine : rows[i].state \in Terminal \cup {"blocked"}}
      version == EffectiveVersion(t, q.version, base)
      row == [target |-> t, state |-> "pending", ota |-> "none",
              download_only |-> q.download_only, version |-> version,
              pin |-> q.pin, filter |-> q.filter, bypass |-> q.bypass,
              followup |-> active # {}, address |-> q.address, worker |-> None]
  IN \/ /\ followups # {}
        /\ \E f \in followups :
             rows' = [rows EXCEPT ![f].version = version, ![f].pin = q.pin,
                                  ![f].filter = q.filter, ![f].bypass = q.bypass,
                                  ![f].address = q.address]
        /\ UNCHANGED next
     \/ /\ followups = {} /\ \E i \in newest : rows[i].state = "pending"
        /\ UNCHANGED <<rows, next>>
     \/ /\ followups = {} /\ \A i \in newest : rows[i].state = "working"
        /\ next <= MaxJobs
        /\ rows' = [i \in JobIds |-> IF i = next THEN row
                                     ELSE IF i \in stale THEN NoRow ELSE rows[i]]
        /\ next' = next + 1

----------------------------------------------------------------------------
(* Requests on rows of the queue. *)

Removed(R, ids) == [i \in JobIds |-> IF i \in ids THEN NoRow ELSE R[i]]

\* Fault: a job that was claimed meanwhile is no longer cancelled.
CancelUnclaimed(ids) ==
  [i \in JobIds |-> IF i \in ids /\ rows[i].state \in {"pending", "blocked"}
                    THEN [rows[i] EXCEPT !.state = "cancelled"] ELSE rows[i]]

Cancel(ids) ==
  [i \in JobIds |-> IF i \in ids /\ rows[i].state \in {"pending", "working", "blocked"}
                    THEN [rows[i] EXCEPT !.state = "cancelled"] ELSE rows[i]]

RemoveJobs(ids) == Removed(rows, {i \in ids : rows[i].state \in Terminal})

\* require_ota_success spares a flash that has failed, not one that goes on.
Clear(states, requireOta) ==
  Removed(rows, {i \in JobIds : /\ rows[i].state \in states \cap Terminal
                                /\ ~(requireOta /\ rows[i].ota = "failed")})

\* Fault: the job is started again under its own id.
RetryInPlace(ids) ==
  LET again == {i \in ids : rows[i].state \in Terminal}
  IN /\ again # {}
     /\ rows' = [i \in JobIds |-> IF i \in again
                                  THEN [rows[i] EXCEPT !.state = "pending", !.ota = "none"]
                                  ELSE rows[i]]
     /\ UNCHANGED next

\* A finished job is replaced by a new one for its target, of several for one
\* target only the first. After a failed flash it goes to the worker that has
\* the firmware. Filter, bypass, address and download_only are not kept.
Retry(ids) ==
  LET ended == {i \in ids : rows[i].state \in Terminal}
      Same(a, b) == rows[a].target = rows[b].target
      Fresh(old) == [NoRow EXCEPT !.target = old.target, !.state = "pending",
                       !.version = EffectiveVersion(old.target, None, default),
                       !.pin = IF old.state = "success" /\ old.ota = "failed"
                               THEN old.worker ELSE old.pin]
  IN /\ ended # {}
     /\ \E again \in SUBSET ended :
          /\ \A a, b \in again : Same(a, b) => a = b
          /\ \A i \in ended : \E a \in again : Same(i, a)
          /\ next + Cardinality(again) <= MaxJobs + 1
          /\ LET new == SetToSeq(again)
             IN rows' = [i \in JobIds |->
                  IF rows[i].state \in Terminal /\ \E a \in again : Same(i, a) THEN NoRow
                  ELSE IF i - next + 1 \in DOMAIN new THEN Fresh(rows[new[i - next + 1]])
                  ELSE rows[i]]
          /\ next' = next + Cardinality(again)

AllFailed == {i \in JobIds : \/ rows[i].state \in {"failed", "timed_out"}
                             \/ rows[i].state = "success" /\ rows[i].ota = "failed"}

----------------------------------------------------------------------------
(* Requests on metadata, workers and rules. *)

PinVersion(t, v) == [dev EXCEPT ![t].pin = v]
SetSchedule(t) == [dev EXCEPT ![t].cron = TRUE]
SetOnce(t) == [dev EXCEPT ![t].once = TRUE]
DeleteSchedule(t) == [dev EXCEPT ![t].cron = FALSE, ![t].once = FALSE]
SetTags(t, tags) == [dev EXCEPT ![t].tags = tags]

SetTagsOf(w, tags) == [fleet EXCEPT ![w].tags = tags]
AskForSlots(w, n) == [fleet EXCEPT ![w].want = n]

WithRule(r) == [k \in DOMAIN rules \cup {r.id} |-> IF k = r.id THEN r ELSE rules[k]]
WithoutRule(id) == [k \in DOMAIN rules \ {id} |-> rules[k]]

----------------------------------------------------------------------------
(* What happens to jobs meanwhile. *)

\* The heartbeat tells the worker, which registers again with as many.
AdoptSlots(w) ==
  /\ fleet[w].online /\ fleet[w].want # None
  /\ fleet' = [fleet EXCEPT ![w].slots = fleet[w].want, ![w].want = None]
  /\ UNCHANGED <<rows, next, dev, rules, default>>

\* claim_next by some worker. A pinned job is not asked for the rules again.
Claim(i) ==
  /\ rows[i].state = "pending"
  /\ rows[i].followup => \A k \in OfTarget(rows[i].target) : rows[k].state # "working"
  /\ \E w \in Workers :
       /\ Builds(fleet[w])
       /\ \/ rows[i].pin = w
          \/ /\ rows[i].pin = None
             /\ ClaimEligible(rows[i], dev[rows[i].target].tags, fleet[w].tags, rules)
       /\ rows' = [rows EXCEPT ![i].state = "working", ![i].followup = FALSE,
                               ![i].worker = w]
  /\ UNCHANGED <<next, dev, fleet, rules, default>>

Finish(i) ==
  /\ rows[i].state = "working"
  /\ \/ rows' = [rows EXCEPT ![i].state = "failed"]
     \/ rows' = [rows EXCEPT ![i].state = "timed_out"]
     \/ \E ota \in OtaResults :
          /\ rows[i].download_only => ota = "none"
          /\ rows' = [rows EXCEPT ![i].state = "success", ![i].ota = ota]
  /\ UNCHANGED <<next, dev, fleet, rules, default>>

OtaEnds(i) ==
  /\ rows[i].state = "success" /\ rows[i].ota = "none" /\ ~rows[i].download_only
  /\ \E ota \in {"success", "failed"} : rows' = [rows EXCEPT ![i].ota = ota]
  /\ UNCHANGED <<next, dev, fleet, rules, default>>

\* re_evaluate_routing.
Sweep ==
  /\ rows' = [i \in JobIds |->
       IF rows[i].state \notin {"pending", "blocked"} THEN rows[i]
       ELSE LET up == {fleet[w].tags : w \in {w \in Workers : Builds(fleet[w])}}
                free == rows[i].bypass \/ FleetEligible(dev[rows[i].target].tags, up, rules)
            IN [rows[i] EXCEPT !.state = IF free THEN "pending" ELSE "blocked"]]
  /\ rows' # rows
  /\ UNCHANGED <<next, dev, fleet, rules, default>>

=============================================================================
