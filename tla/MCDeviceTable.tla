--------------------------- MODULE MCDeviceTable ---------------------------
(* A small instance of DeviceTable for TLC: three releases, of which the      *)
(* second brings a column that is shown and one that is not.                  *)
EXTENDS DeviceTable, TLC

CONSTANTS n1, n2, d1, d2, v1, v2, tags, mac, ip

MCReleases == {{ip}, {ip, tags, mac}}

Budget(f, o, p, c) == [files |-> f, others |-> o, pins |-> p, columns |-> c]

\* Work on files beside others; on the menu beside devices that change; on
\* the columns alone.
MCBudgets == {Budget(3, 0, 0, 0), Budget(2, 1, 0, 0), Budget(0, 3, 2, 0), Budget(0, 0, 0, 4)}

Symmetry == Permutations(Names) \cup Permutations(Docs)

=============================================================================
