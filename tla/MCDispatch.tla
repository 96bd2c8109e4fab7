----------------------------- MODULE MCDispatch -----------------------------
(* A small instance of Dispatch for TLC. *)
EXTENDS Dispatch, TLC

CONSTANTS t1, t2, w1, w2

Asked(t, pin) ==
  [target |-> t, pin |-> pin, downloadOnly |-> FALSE, serverOta |-> FALSE, address |-> TRUE]

Both == {Asked(t1, None), Asked(t2, None)}
WithPin == Both \cup {Asked(t2, w1)}

Success == {[status |-> "success", ota |-> "success", viaServer |-> FALSE]}

\* The device of t1 is in the garage; a rule wants its worker there too.
Garage == [op |-> "all_of", tags |-> {"garage"}]
MCTags == {"garage"}
MCDeviceTags == [t \in Targets |-> IF t = t1 THEN {"garage"} ELSE {}]
MCTagChoices == {{}, {"garage"}}
GarageRule == <<[id |-> 1, device |-> {Garage}, worker |-> {Garage}]>>
MCRules == {<<>>, GarageRule}
MCWishes == {NoWish, [filter |-> Garage, bypass |-> TRUE]}

=============================================================================
