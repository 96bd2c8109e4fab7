---------------------------- MODULE RoutingProofs ----------------------------
(***************************************************************************)
(* What the routing decisions of RoutingSweep guarantee for every fleet,   *)
(* every device and every list of rules.                                   *)
(***************************************************************************)
EXTENDS RoutingSweep, WellFoundedInduction, SequenceTheorems, TLAPS

\* The part of the type invariant the theorems rest on.
Shape ==
  /\ rules \in Seq(Rule)
  /\ device \in DeviceChoices

-----------------------------------------------------------------------------
(* The reported rule *)

\* The rules of a job are a sequence.
LEMMA EffectiveSeq ==
  ASSUME Shape PROVE Effective \in Seq(Rule)
BY SweepAssumption DEF Shape, Effective

\* A non-empty set of positions has a first one.
LEMMA FirstExists ==
  ASSUME NEW S, S \subseteq Nat, S # {}
  PROVE  \E k \in S : \A j \in S : k <= j
<1>1. IsWellFoundedOn(OpToRel(<, Nat), Nat)
  BY NatLessThanWellFounded
<1>2. \E k \in S : \A j \in S : ~(<<j, k>> \in OpToRel(<, Nat))
  BY <1>1, WFMin
<1>3. PICK k \in S : \A j \in S : ~(<<j, k>> \in OpToRel(<, Nat))
  BY <1>2
<1>4. \A j \in S : ~(j < k)
  BY <1>3 DEF OpToRel
<1>5. \A j \in S : k <= j
  BY <1>4
<1> QED
  BY <1>5

\* find_blocking_rule reports an applicable rule that nobody satisfies, or 0 when
\* there is none.
LEMMA BlockerChosen ==
  ASSUME NEW D, NEW F, NEW R \in Seq(Rule)
  PROVE  IF Unsatisfied(D, F, R) = {} THEN Blocker(D, F, R) = 0
         ELSE Blocker(D, F, R) \in Unsatisfied(D, F, R)
<1> DEFINE bad == Unsatisfied(D, F, R)
<1>1. bad \subseteq Nat
  BY DEF Unsatisfied, Applicable
<1>2. CASE bad = {}
  BY <1>2 DEF Blocker
<1>3. CASE bad # {}
  <2>1. \E k \in bad : \A j \in bad : k <= j
    BY <1>1, <1>3, FirstExists
  <2> QED
    BY <1>3, <2>1 DEF Blocker
<1> QED
  BY <1>2, <1>3

\* The blamed rule blocks alone, and without one no single rule blocks.
LEMMA ShapeBlames ==
  ASSUME Shape PROVE BlamedRuleBlocks
<1> DEFINE D == device.tags
           R == Effective
           k == Blocker(D, fleet, R)
<1>1. R \in Seq(Rule)
  BY EffectiveSeq
<1>2. IF Unsatisfied(D, fleet, R) = {} THEN k = 0 ELSE k \in Unsatisfied(D, fleet, R)
  BY <1>1, BlockerChosen
<1>3. 0 \notin Unsatisfied(D, fleet, R)
  BY <1>1 DEF Unsatisfied, Applicable
<1>4. ASSUME fleet # {}, k = 0, NEW m \in DOMAIN R
      PROVE  \E W \in fleet : \A n \in {m} : EvaluateRule(R[n], D, W)
  <2>1. m \notin Unsatisfied(D, fleet, R)
    BY <1>2, <1>3, <1>4
  <2>2. \E W \in fleet : EvaluateRule(R[m], D, W)
    BY <1>4, <2>1 DEF Unsatisfied, Applicable, EvaluateRule
  <2> QED
    BY <2>2
<1>5. ASSUME k # 0, NEW S \in SUBSET DOMAIN R, k \in S
      PROVE  ~ \E W \in fleet : \A n \in S : EvaluateRule(R[n], D, W)
  <2>1. k \in Unsatisfied(D, fleet, R)
    BY <1>2, <1>5
  <2>2. \A W \in fleet : ~EvaluateRule(R[k], D, W)
    BY <2>1 DEF Unsatisfied, Applicable, EvaluateRule
  <2> QED
    BY <1>5, <2>2
<1> QED
  BY <1>4, <1>5 DEF BlamedRuleBlocks

-----------------------------------------------------------------------------
(* More choice *)

\* The rules in a list.
Elements(s) == {s[n] : n \in DOMAIN s}

\* Fewer rules and more workers leave an eligible device eligible, the step from an
\* empty fleet included.
LEMMA Monotone ==
  ASSUME NEW D, NEW F, NEW G, NEW R, NEW Q, F \subseteq G,
         Elements(Q) \subseteq Elements(R),
         FleetEligible(D, F, R)
  PROVE  FleetEligible(D, G, Q)
<1>0. \A m \in DOMAIN Q : \E n \in DOMAIN R : Q[m] = R[n]
  BY DEF Elements
<1>1. ASSUME NEW W, IsEligible(D, W, R) PROVE IsEligible(D, W, Q)
  BY <1>0, <1>1 DEF IsEligible
<1>2. CASE F # {}
  BY <1>1, <1>2 DEF FleetEligible
<1>3. CASE F = {}
  <2>1. Applicable(D, R) = {}
    BY <1>3 DEF FleetEligible
  <2>2. Applicable(D, Q) = {}
    BY <1>0, <2>1 DEF Applicable
  <2>3. \A W : IsEligible(D, W, Q)
    BY <2>2 DEF IsEligible, EvaluateRule, Applicable
  <2> QED
    BY <2>2, <2>3 DEF FleetEligible
<1> QED
  BY <1>2, <1>3

\* A concatenation has the elements of both parts.
LEMMA ConcatElements ==
  ASSUME NEW S, NEW a \in Seq(S), NEW b \in Seq(S)
  PROVE  a \o b \in Seq(S) /\ Elements(a \o b) = Elements(a) \cup Elements(b)
<1> DEFINE c == a \o b
<1>1. /\ c \in Seq(S) /\ Len(c) = Len(a) + Len(b)
      /\ \A i \in 1..(Len(a) + Len(b)) : c[i] = IF i <= Len(a) THEN a[i] ELSE b[i - Len(a)]
  BY ConcatProperties
<1> HIDE DEF c
<1>2. /\ DOMAIN a = 1..Len(a) /\ DOMAIN b = 1..Len(b) /\ DOMAIN c = 1..(Len(a) + Len(b))
      /\ Len(a) \in Nat /\ Len(b) \in Nat
  BY <1>1, LenProperties
<1>3. ASSUME NEW m \in DOMAIN c PROVE c[m] \in Elements(a) \cup Elements(b)
  <2>1. CASE m <= Len(a)
    <3>1. m \in DOMAIN a /\ c[m] = a[m]
      BY <1>1, <1>2, <2>1
    <3> QED
      BY <3>1 DEF Elements
  <2>2. CASE ~(m <= Len(a))
    <3>1. m - Len(a) \in DOMAIN b /\ c[m] = b[m - Len(a)]
      BY <1>1, <1>2, <2>2
    <3> QED
      BY <3>1 DEF Elements
  <2> QED
    BY <2>1, <2>2
<1>4. ASSUME NEW n \in DOMAIN a PROVE a[n] \in Elements(c)
  <2>1. n \in DOMAIN c /\ c[n] = a[n]
    BY <1>1, <1>2
  <2> QED
    BY <2>1 DEF Elements
<1>5. ASSUME NEW n \in DOMAIN b PROVE b[n] \in Elements(c)
  <2>1. Len(a) + n \in 1..(Len(a) + Len(b)) /\ ~(Len(a) + n <= Len(a)) /\ (Len(a) + n) - Len(a) = n
    BY <1>2
  <2>2. Len(a) + n \in DOMAIN c /\ c[Len(a) + n] = b[n]
    BY <1>1, <1>2, <2>1
  <2> QED
    BY <2>2 DEF Elements
<1>6. Elements(c) \subseteq Elements(a) \cup Elements(b)
  BY <1>3 DEF Elements
<1>7. Elements(a) \subseteq Elements(c)
  BY <1>4 DEF Elements
<1>8. Elements(b) \subseteq Elements(c)
  BY <1>5 DEF Elements
<1> QED
  BY <1>1, <1>6, <1>7, <1>8 DEF c

\* A subsequence has no other elements.
LEMMA SubSeqElements ==
  ASSUME NEW S, NEW a \in Seq(S), NEW lo \in Nat \ {0}, NEW hi \in 0..Len(a)
  PROVE  SubSeq(a, lo, hi) \in Seq(S) /\ Elements(SubSeq(a, lo, hi)) \subseteq Elements(a)
<1> DEFINE b == SubSeq(a, lo, hi)
<1>1. DOMAIN a = 1..Len(a) /\ Len(a) \in Nat
  BY LenProperties
<1>2. \A i \in lo..hi : i \in 1..Len(a)
  BY <1>1
<1>3. \A i \in lo..hi : a[i] \in S
  BY <1>2, ElementOfSeq
<1>4. /\ b \in Seq(S) /\ Len(b) = IF lo <= hi THEN hi - lo + 1 ELSE 0
      /\ \A i \in 1..(hi - lo + 1) : b[i] = a[lo + i - 1]
  BY <1>1, <1>3, SubSeqProperties
<1> HIDE DEF b
<1>5. DOMAIN b = 1..Len(b)
  BY <1>4, LenProperties
<1>6. ASSUME NEW m \in DOMAIN b PROVE b[m] \in Elements(a)
  <2>1. lo <= hi /\ m \in 1..(hi - lo + 1)
    BY <1>1, <1>4, <1>5
  <2>2. lo + m - 1 \in DOMAIN a /\ b[m] = a[lo + m - 1]
    BY <1>1, <1>4, <2>1
  <2> QED
    BY <2>2 DEF Elements
<1>7. Elements(b) \subseteq Elements(a)
  BY <1>6 DEF Elements
<1> QED
  BY <1>4, <1>7 DEF b

\* Every rule that is left after a deletion was there before.
LEMMA DeletedRules ==
  ASSUME Shape, NEW k \in DOMAIN rules, DeleteRule(k)
  PROVE  rules' \in Seq(Rule) /\ Elements(Effective') \subseteq Elements(Effective)
<1> DEFINE head == SubSeq(rules, 1, k - 1)
           tail == SubSeq(rules, k + 1, Len(rules))
           extra == device.extra
<1>1. rules \in Seq(Rule) /\ extra \in Seq(Rule) /\ k \in 1..Len(rules) /\ Len(rules) \in Nat
  BY SweepAssumption, LenProperties DEF Shape
<1>2. rules' = head \o tail /\ device' = device
  BY DEF DeleteRule
<1>3. k - 1 \in 0..Len(rules) /\ k + 1 \in Nat \ {0} /\ 1 \in Nat \ {0} /\ Len(rules) \in 0..Len(rules)
  BY <1>1
<1>4. head \in Seq(Rule) /\ Elements(head) \subseteq Elements(rules)
  BY <1>1, <1>3, SubSeqElements
<1>5. tail \in Seq(Rule) /\ Elements(tail) \subseteq Elements(rules)
  BY <1>1, <1>3, SubSeqElements
<1> HIDE DEF head, tail, extra
<1>6. rules' \in Seq(Rule) /\ Elements(rules') = Elements(head) \cup Elements(tail)
  BY <1>2, <1>4, <1>5, ConcatElements
<1>7. Effective = rules \o extra /\ Effective' = rules' \o extra
  BY <1>2 DEF Effective, extra
<1>8. Elements(Effective) = Elements(rules) \cup Elements(extra)
  BY <1>1, <1>7, ConcatElements
<1>9. Elements(Effective') = Elements(rules') \cup Elements(extra)
  BY <1>1, <1>6, <1>7, ConcatElements
<1> QED
  BY <1>4, <1>5, <1>6, <1>8, <1>9

-----------------------------------------------------------------------------
(* Theorems *)

\* The rules are always a list of rules, and the device one of the choices.
LEMMA ShapeInvariant == Spec => []Shape
<1>1. Init => Shape
  BY DEF Init, Shape
<1>2. Shape /\ [Next]_vars => Shape'
  <2> SUFFICES ASSUME Shape, [Next]_vars PROVE Shape'
    OBVIOUS
  <2>1. ASSUME NEW r \in RuleChoices, CreateRule(r) PROVE Shape'
    BY <2>1, SweepAssumption DEF Shape, CreateRule
  <2>2. ASSUME NEW r \in RuleChoices, NEW k \in DOMAIN rules, UpdateRule(k, r) PROVE Shape'
    <3>1. rules \in Seq(Rule)
      BY DEF Shape
    <3>2. k \in 1..Len(rules)
      BY <2>2, <3>1, LenProperties
    <3>3. rules[k] \in Rule /\ r \in Rule
      BY <2>2, <3>1, <3>2, ElementOfSeq, SweepAssumption
    <3>4. [r EXCEPT !.id = rules[k].id] \in Rule
      BY <3>3 DEF Rule
    <3>5. [rules EXCEPT ![k] = [r EXCEPT !.id = rules[k].id]] \in Seq(Rule)
      BY <3>1, <3>2, <3>4, ExceptSeq
    <3> QED
      BY <2>2, <3>5 DEF Shape, UpdateRule
  <2>3. ASSUME NEW k \in DOMAIN rules, DeleteRule(k) PROVE Shape'
    BY <2>3, DeletedRules DEF Shape, DeleteRule
  <2>4. ASSUME NEW d \in DeviceChoices, EditDevice(d) PROVE Shape'
    BY <2>4 DEF Shape, EditDevice
  <2>5. ASSUME UNCHANGED <<rules, device>> PROVE Shape'
    BY <2>5 DEF Shape
  <2> QED
    BY <2>1, <2>2, <2>3, <2>4, <2>5 DEF Next, Join, Depart, Sweep, Restart, vars
<1> QED
  BY <1>1, <1>2, PTL DEF Spec

\* The reason of a blocked job can be trusted: the rule find_blocking_rule names
\* keeps every worker out by itself, and if it names none, no rule does.
THEOREM BlamedRuleIsToBlame == Spec => []BlamedRuleBlocks
<1>1. Shape => BlamedRuleBlocks
  BY ShapeBlames
<1> QED
  BY <1>1, ShapeInvariant, PTL

\* A worker coming online and a rule being deleted never block a job.
THEOREM ChoiceHelps == Spec => MoreChoiceNeverBlocks
<1>1. ASSUME Shape, NEW W \in TagChoices, Join(W), Eligible PROVE Eligible'
  <2>1. fleet \subseteq fleet' /\ Effective' = Effective /\ device' = device
    BY <1>1 DEF Join, Effective
  <2> QED
    BY <1>1, <2>1, Monotone DEF Eligible
<1>2. ASSUME Shape, NEW k \in DOMAIN rules, DeleteRule(k), Eligible PROVE Eligible'
  <2>1. fleet' = fleet /\ device' = device
    BY <1>2 DEF DeleteRule
  <2>2. Elements(Effective') \subseteq Elements(Effective)
    BY <1>2, DeletedRules
  <2> QED
    BY <1>2, <2>1, <2>2, Monotone DEF Eligible
<1>3. Shape /\ [Next]_vars
      => [(\E W \in TagChoices : Join(W)) \/ (\E k \in DOMAIN rules : DeleteRule(k))
          => (Eligible => Eligible')]_vars
  BY <1>1, <1>2
<1> QED
  BY <1>3, ShapeInvariant, PTL DEF Spec, MoreChoiceNeverBlocks

=============================================================================
