---------------------------- MODULE MCFleetPage ----------------------------
(* A small instance of FleetPage for TLC: one tag for devices, one for        *)
(* workers.                                                                   *)
EXTENDS FleetPage, TLC

CONSTANTS garage, fast, r1, r2

All(S) == [op |-> "all_of", tags |-> S]
NoneOf(S) == [op |-> "none_of", tags |-> S]

\* Garage devices are built by fast workers, all others by the slow ones.
MCRulePool ==
  {[id |-> r1, device |-> {All({garage})}, worker |-> {All({fast})}],
   [id |-> r2, device |-> {NoneOf({garage})}, worker |-> {NoneOf({fast})}]}

MCFilters == {All({fast})}

\* Work on the queue; an upgrade beside other jobs, while a device is edited,
\* while the fleet, the rules or the default change; a bulk operation while a
\* device is edited; work on the rules alone.
Budget(q, c, b, e, s, o, n) ==
  [queue |-> q, compile |-> c, bulk |-> b, edits |-> e, setup |-> s, others |-> o,
   claims |-> n]
MCBudgets == {Budget(2, 0, 0, 0, 0, 2, 2), Budget(0, 1, 0, 0, 0, 2, 1),
              Budget(0, 1, 0, 1, 0, 0, 0), Budget(0, 1, 0, 0, 1, 0, 0),
              Budget(0, 0, 1, 1, 0, 0, 0), Budget(0, 0, 0, 0, 2, 0, 0)}

Symmetry == Permutations(Targets) \cup Permutations(Versions)

=============================================================================
