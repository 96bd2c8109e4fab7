-------------------------- MODULE MCHistoryBrowser --------------------------
(* A small instance of HistoryBrowser for TLC. *)
EXTENDS HistoryBrowser, TLC

Ok(t) == [target |-> t, state |-> "success"]
Bad(t) == [target |-> t, state |-> "failed"]
MCRecorded == {<<Ok(1), Bad(2), Ok(1), Ok(2)>>, <<Bad(2), Ok(2), Bad(1)>>}

MCRanges == {<<2, 3>>, <<2, Null>>}

Budget(c, p, j, r) == [clicks |-> c, panel |-> p, jobs |-> j, purges |-> r]

\* The dialog while jobs finish and old ones go; the panel likewise. More than a
\* page of jobs may finish between two pages of one list.
MCBudgets == {Budget(3, 0, 1, 1), Budget(1, 0, 3, 0), Budget(0, 2, 1, 1)}

=============================================================================
