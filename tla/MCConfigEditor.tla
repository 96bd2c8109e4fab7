--------------------------- MODULE MCConfigEditor ---------------------------
(* A small instance of ConfigEditor for TLC. *)
EXTENDS ConfigEditor, TLC

CONSTANTS n1, n2, stub, text

Budget(o, t, s, h, u, w, l) ==
  [opens |-> o, types |-> t, saves |-> s, history |-> h, setup |-> u, others |-> w, losses |-> l]

\* Rounds of editing in one or in two windows; the same with a lost request
\* or another writer; the history alone and beside an editor; the settings.
MCBudgets == {Budget(1, 2, 2, 0, 0, 0, 0), Budget(2, 1, 1, 0, 0, 0, 0),
              Budget(1, 1, 2, 0, 0, 0, 1), Budget(1, 1, 1, 0, 0, 1, 0),
              Budget(0, 0, 0, 3, 0, 0, 0), Budget(1, 1, 0, 2, 0, 0, 0),
              Budget(0, 0, 0, 1, 2, 1, 0)}

Symmetry == Permutations(Names)

=============================================================================
