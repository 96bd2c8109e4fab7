--------------------------- MODULE MCRoutingSweep ---------------------------
(* A small instance of RoutingSweep for TLC: two rules that one worker may satisfy  *)
(* one by one or together, and a device with a rule of its own.                     *)
EXTENDS RoutingSweep, TLC

All(T) == [op |-> "all_of", tags |-> T]
No(T) == [op |-> "none_of", tags |-> T]

MCTags == {"garage", "linux"}
MCRules ==
  {[id |-> 1, device |-> {All({"garage"})}, worker |-> {All({"garage"})}],
   [id |-> 2, device |-> {}, worker |-> {[op |-> "any_of", tags |-> {"linux"}]}]}
Extra == [id |-> 3, device |-> {}, worker |-> {No({"garage"})}]
MCDevices ==
  {[tags |-> {}, extra |-> <<>>], [tags |-> {"garage"}, extra |-> <<>>],
   [tags |-> {"garage"}, extra |-> <<Extra>>]}
MCTagChoices == {{}, {"garage"}, {"linux"}, {"garage", "linux"}}

=============================================================================
