---------------------------- MODULE RoutingSweep ----------------------------
(***************************************************************************)
(* One waiting job under changing routing rules: the rule store of         *)
(* ha-addon/server/routing.py and the sweep of routing_eligibility.py that *)
(* moves the job between PENDING and BLOCKED and names the rule to blame.  *)
(*                                                                         *)
(* The sweep runs some time after what triggered it, at the latest when    *)
(* the watchdog wakes up, so its verdict is old while the fleet, the tags  *)
(* and the rules go on changing.  The reason of a blocked job is written   *)
(* to queue.json only together with a change of state.                     *)
(***************************************************************************)
EXTENDS Routing, FiniteSets

CONSTANTS
  RuleChoices,    \* rules users write
  DeviceChoices,  \* tags and routing_extra rules of the device's YAML
  TagChoices,     \* tag sets of workers
  MaxRules,       \* bound: global rules
  NoReason        \* a job without a blocked_reason

ASSUME SweepAssumption ==
  /\ RuleChoices \subseteq Rule
  /\ \A d \in DeviceChoices : d.tags \in SUBSET Tags /\ d.extra \in Seq(Rule)
  /\ TagChoices \subseteq SUBSET Tags
  /\ MaxRules \in Nat

VARIABLES
  rules,   \* the global rules, in memory and in their file
  device,  \* the device of the job
  fleet,   \* tag sets of the workers that are online and enabled
  job,     \* state and reason of the job
  saved    \* the same in queue.json

vars == <<rules, device, fleet, job, saved>>

Init ==
  /\ rules = <<>>
  /\ device \in DeviceChoices
  /\ fleet = {}
  /\ job = [state |-> "pending", reason |-> NoReason]
  /\ saved = job

\* The job's rules: the global ones, then those of its device.
Effective == rules \o device.extra

Eligible == FleetEligible(device.tags, fleet, Effective)

\* The id in blocked_reason; 0 stands for the rule list as a whole.
Reason ==
  LET k == Blocker(device.tags, fleet, Effective)
  IN  IF k = 0 THEN 0 ELSE Effective[k].id

-----------------------------------------------------------------------------

CreateRule(r) ==
  /\ Len(rules) < MaxRules
  /\ \A k \in DOMAIN rules : rules[k].id # r.id
  /\ rules' = Append(rules, r)
  /\ UNCHANGED <<device, fleet, job, saved>>

UpdateRule(k, r) ==
  /\ rules' = [rules EXCEPT ![k] = [r EXCEPT !.id = rules[k].id]]
  /\ UNCHANGED <<device, fleet, job, saved>>

DeleteRule(k) ==
  /\ rules' = SubSeq(rules, 1, k - 1) \o SubSeq(rules, k + 1, Len(rules))
  /\ UNCHANGED <<device, fleet, job, saved>>

EditDevice(d) ==
  /\ device' = d
  /\ UNCHANGED <<rules, fleet, job, saved>>

\* A worker with tags W comes online or is enabled.
Join(W) ==
  /\ fleet' = fleet \cup {W}
  /\ UNCHANGED <<rules, device, job, saved>>

\* The last worker with tags W goes.
Depart(W) ==
  /\ fleet' = fleet \ {W}
  /\ UNCHANGED <<rules, device, job, saved>>

\* Fault: a job that stays blocked keeps its reason.
SweepKeepsReason ==
  /\ job' = IF Eligible THEN [state |-> "pending", reason |-> NoReason]
            ELSE IF job.state = "blocked" THEN job
            ELSE [state |-> "blocked", reason |-> Reason]
  /\ saved' = job'
  /\ UNCHANGED <<rules, device, fleet>>

\* re_evaluate_routing; a new reason for a job that stays blocked is not saved.
Sweep ==
  /\ job' = IF Eligible THEN [state |-> "pending", reason |-> NoReason]
            ELSE [state |-> "blocked", reason |-> Reason]
  /\ saved' = IF job'.state # job.state THEN job' ELSE saved
  /\ UNCHANGED <<rules, device, fleet>>

\* The server restarts; its workers have yet to send a heartbeat.
Restart ==
  /\ job' = saved
  /\ fleet' = {}
  /\ UNCHANGED <<rules, device, saved>>

Next ==
  \/ \E r \in RuleChoices : CreateRule(r) \/ \E k \in DOMAIN rules : UpdateRule(k, r)
  \/ \E k \in DOMAIN rules : DeleteRule(k)
  \/ \E d \in DeviceChoices : EditDevice(d)
  \/ \E W \in TagChoices : Join(W) \/ Depart(W)
  \/ Sweep
  \/ Restart

Spec == Init /\ [][Next]_vars

\* routing_watchdog wakes up every 30 s.
FairSpec == Spec /\ WF_vars(Sweep)

-----------------------------------------------------------------------------
(* Properties *)

\* The rule the tooltip blames blocks the device on its own: no worker is let in
\* by deleting other rules.  And when no rule is blamed, no rule would do so.
BlamedRuleBlocks ==
  LET k == Blocker(device.tags, fleet, Effective)
      Passes(S) == \E W \in fleet : \A m \in S : EvaluateRule(Effective[m], device.tags, W)
  IN  ~Eligible /\ fleet # {} =>
        IF k = 0 THEN \A m \in DOMAIN Effective : Passes({m})
        ELSE \A S \in SUBSET DOMAIN Effective : k \in S => ~Passes(S)

\* A worker that comes, or a rule that goes, never turns a job that could run into
\* one that cannot: also not the first worker, or the last rule.
MoreChoiceNeverBlocks ==
  [][(\E W \in TagChoices : Join(W)) \/ (\E k \in DOMAIN rules : DeleteRule(k))
     => (Eligible => Eligible')]_vars

\* Once the fleet, the tags and the rules stop changing and the server stays up, the
\* job settles where they put it, with the right reason, whatever the triggers and
\* restarts did before.
VerdictSettles ==
  <>[][~Restart]_vars =>
    /\ <>[]Eligible => <>[](job.state = "pending" /\ job.reason = NoReason)
    /\ \A id \in RuleIds \cup {0} :
         <>[](~Eligible /\ Reason = id) => <>[](job.state = "blocked" /\ job.reason = id)

=============================================================================
