------------------------------ MODULE Routing ------------------------------
(***************************************************************************)
(* Routing rules: the pure evaluator of ha-addon/server/routing.py and the *)
(* two decisions routing_eligibility.py derives from it, which jobs the    *)
(* fleet can take at all and which jobs one worker may claim.              *)
(*                                                                         *)
(* A clause list is a set, since its clauses are ANDed; the rule list is a *)
(* sequence, since the first blocking rule is the one reported.            *)
(***************************************************************************)
EXTENDS Integers, Sequences

CONSTANTS
  Tags,      \* tags of devices and workers
  RuleIds,   \* ids of routing rules
  NoFilter   \* a job without a worker_tag_filter

\* validate_rule refuses a clause without tags.
Clause == [op : {"all_of", "any_of", "none_of"}, tags : (SUBSET Tags) \ {{}}]

Rule == [id : RuleIds, device : SUBSET Clause, worker : SUBSET Clause]

EvaluateClause(c, T) ==
  \/ c.op = "all_of"  /\ c.tags \subseteq T
  \/ c.op = "any_of"  /\ c.tags \cap T # {}
  \/ c.op = "none_of" /\ c.tags \cap T = {}

MatchesSide(clauses, T) == \A c \in clauses : EvaluateClause(c, T)

\* A rule that does not apply to the device says nothing about workers.
EvaluateRule(r, D, W) == MatchesSide(r.device, D) => MatchesSide(r.worker, W)

IsEligible(D, W, rules) == \A k \in DOMAIN rules : EvaluateRule(rules[k], D, W)

Applicable(D, rules) == {k \in DOMAIN rules : MatchesSide(rules[k].device, D)}

\* Fault: without a worker nothing is blocked.
FleetEligibleWhenEmpty(D, fleet, rules) ==
  fleet = {} \/ \E W \in fleet : IsEligible(D, W, rules)

\* The check of re_evaluate_routing for a device, given the tags of the workers
\* that are online and enabled.  Without any such worker a job waits only if
\* some rule applies to its device.
FleetEligible(D, fleet, rules) ==
  IF fleet = {} THEN Applicable(D, rules) = {}
  ELSE \E W \in fleet : IsEligible(D, W, rules)

\* Fault: the rules somebody does not satisfy.
UnsatisfiedBySome(D, fleet, rules) ==
  {k \in Applicable(D, rules) : \E W \in fleet : ~MatchesSide(rules[k].worker, W)}

\* The applicable rules nobody in the fleet satisfies; find_blocking_rule reports
\* the first, and the rule list as a whole (0) when there is none.
Unsatisfied(D, fleet, rules) ==
  {k \in Applicable(D, rules) : \A W \in fleet : ~MatchesSide(rules[k].worker, W)}

Blocker(D, fleet, rules) ==
  LET bad == Unsatisfied(D, fleet, rules)
  IN  IF bad = {} THEN 0 ELSE CHOOSE k \in bad : \A j \in bad : k <= j

\* The predicate build_claim_eligibility gives to claim_next: the job's own worker
\* filter, then the rules unless the user overrides them.
ClaimEligible(wish, D, W, rules) ==
  /\ wish.filter # NoFilter => EvaluateClause(wish.filter, W)
  /\ wish.bypass \/ IsEligible(D, W, rules)

=============================================================================
