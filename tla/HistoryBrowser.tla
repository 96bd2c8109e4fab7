--------------------------- MODULE HistoryBrowser ---------------------------
(***************************************************************************)
(* Reading the compile history in the browser while it changes: the        *)
(* fleet-wide dialog with its filters, sorting and endless scrolling       *)
(* (QueueHistoryDialog.tsx, TimeRangePicker.tsx) and the panel of one      *)
(* device (CompileHistoryPanel.tsx), both fed by /ui/api/history, which    *)
(* counts pages from the start of whatever the table holds at that moment. *)
(*                                                                         *)
(* A row is named by its place in the order of finishing, which is also    *)
(* its time; the search looks for a device.  Jobs are submitted in the     *)
(* order they finish in, so the tie-break of query is newest first.  A     *)
(* request is served when its answer arrives: what happens to the table    *)
(* in between could as well happen after it.                               *)
(***************************************************************************)
EXTENDS Integers, SequencesExt

CONSTANTS
  Targets,   \* devices: numbers in alphabetical order
  Verdicts,  \* states of finished jobs
  Null,      \* null, undefined
  PageSize,  \* PAGE_SIZE of both views
  Presets,   \* lengths of the quick ranges
  Ranges,    \* absolute ranges somebody may enter: pairs of days, the second perhaps Null
  Recorded,  \* histories to begin with
  MaxRows,   \* bound: rows ever recorded
  Budgets    \* bound: how many clicks, openings of the panel, finished jobs and
             \* rounds of retention a behaviour may have

ASSUME HistoryAssumption ==
  /\ Targets \subseteq Nat /\ MaxRows \in Nat /\ Null \notin Targets /\ Null \notin Verdicts
  /\ PageSize \in Nat \ {0} /\ Presets \subseteq Nat \ {0} /\ Ranges \subseteq Nat \X (Nat \cup {Null})
  /\ \A rows \in Recorded :
       rows \in Seq([target : Targets, state : Verdicts]) /\ Len(rows) <= MaxRows

Sorts == {"newest", "oldest", "device"}

VARIABLES
  table,  \* the history: [rows, first], every row ever recorded and the oldest kept
  dlg,    \* the dialog: [open, view, q, pages, hasMore, loading]
  call,   \* the request of the dialog that is under way, or Null
  sentinel, \* the row under the list: [observed, hidden]; observed is whether the
            \* observer watches it, hidden is for the properties: a search has
            \* hidden all rows since the observer was last attached
  since,  \* for the properties, since the list was wiped: [ids, calm, purged]
  panel,  \* the panel: [target, offset, cache, asked]
  left    \* what is left of the budget

historyVars == <<table, dlg, call, sentinel, since, panel, left>>

Ids == table.first..Len(table.rows)
Spend(k) == left[k] > 0 /\ left' = [left EXCEPT ![k] = @ - 1]

-----------------------------------------------------------------------------
(* The server *)

Matches(i, v) ==
  LET r == table.rows[i]
  IN  /\ v.target \in {Null, r.target} /\ v.state \in {Null, r.state}
      /\ v.since # Null => i >= v.since
      /\ v.until # Null => i <= v.until

\* ORDER BY: the column asked for, then submitted_at DESC.
Before(sort, i, j) ==
  LET a == table.rows[i].target
      b == table.rows[j].target
  IN CASE sort = "newest" -> i > j
       [] sort = "oldest" -> i < j
       [] sort = "device" -> a < b \/ (a = b /\ i > j)

Matching(v) == {i \in Ids : Matches(i, v)}

Rank(i, M, sort) == Cardinality({j \in M : Before(sort, j, i)})

\* One page of the rows that match, as they are now.
Query(v, offset) ==
  LET M == Matching(v)
      n == Max({0, Min({PageSize, Cardinality(M) - offset})})
  IN  [k \in 1..n |-> CHOOSE i \in M : Rank(i, M, v.sort) = offset + k - 1]

JobEnds(t, s) ==
  /\ Spend("jobs") /\ Len(table.rows) < MaxRows
  /\ table' = [table EXCEPT !.rows = Append(@, [target |-> t, state |-> s])]
  /\ UNCHANGED <<dlg, call, sentinel, since, panel>>

\* job_history_retention: everything older than n goes.
Retention(n) ==
  /\ Spend("purges") /\ n \in (table.first + 1)..(Len(table.rows) + 1)
  /\ table' = [table EXCEPT !.first = n]
  /\ since' = [since EXCEPT !.purged = TRUE]
  /\ UNCHANGED <<dlg, call, sentinel, panel>>

-----------------------------------------------------------------------------
(* QueueHistoryDialog *)

rowMatchesSearch(i, q) == q \in {Null, table.rows[i].target}

flatRows == SelectSeq(FlattenSeq(dlg.pages), LAMBDA i : rowMatchesSearch(i, dlg.q))

\* The table is there when it has rows, and ends in a row that stands for the
\* pages to come.
SentinelShown == dlg.open /\ dlg.hasMore /\ flatRows # <<>>
AllHidden == dlg.open /\ dlg.pages # <<>> /\ flatRows = <<>>

Unwatched == [observed |-> FALSE, hidden |-> FALSE]

\* The effect on [open, pages, hasMore, loading, fetchNextPage] attaches the
\* observer to the row that is there after the render.
Observe == sentinel' = [observed |-> SentinelShown', hidden |-> AllHidden']

\* Fault: only the rows are wiped.
WipedRows(v) ==
  /\ dlg' = [dlg EXCEPT !.open = TRUE, !.view = v, !.pages = <<>>]
  /\ since' = [ids |-> Matching(v), calm |-> call = Null, purged |-> FALSE]
  /\ sentinel' = Unwatched
  /\ UNCHANGED <<table, call, panel>>

\* The effect on [filtersKey, open]: the list of v begins anew.
Wiped(v) ==
  /\ dlg' = [dlg EXCEPT !.open = TRUE, !.view = v, !.pages = <<>>, !.hasMore = TRUE]
  /\ since' = [ids |-> Matching(v), calm |-> call = Null, purged |-> FALSE]
  /\ sentinel' = Unwatched
  /\ UNCHANGED <<table, call, panel>>

OpenDialog == Spend("clicks") /\ ~dlg.open /\ Wiped(dlg.view)

\* Closing forgets the rows; a request under way is not aborted.
CloseDialog ==
  /\ Spend("clicks") /\ dlg.open
  /\ dlg' = [dlg EXCEPT !.open = FALSE, !.pages = <<>>]
  /\ sentinel' = Unwatched
  /\ UNCHANGED <<table, call, since, panel>>

SetView(v) == Spend("clicks") /\ dlg.open /\ v # dlg.view /\ Wiped(v)

FilterState(s) == SetView([dlg.view EXCEPT !.state = s])

SortBy(c) == SetView([dlg.view EXCEPT !.sort = c])

\* TimeRangePicker: a quick range counts back from now, once.
QuickSince(n) == Len(table.rows) + 1 - n
PickPreset(n) == SetView([dlg.view EXCEPT !.since = QuickSince(n), !.until = Null])

AllTime == SetView([dlg.view EXCEPT !.since = Null, !.until = Null])

\* The range drafted in the calendar; a single day is its own end.
RangeEnd(r) == IF r[2] = Null THEN r[1] ELSE r[2]
applyAbsolute(r) == SetView([dlg.view EXCEPT !.since = r[1], !.until = RangeEnd(r)])

\* The effect does not run when the search changes: a row that leaves with the
\* table takes the observer with it, and the one that comes back has none.
setQ(t) ==
  /\ Spend("clicks") /\ dlg.open /\ t # dlg.q
  /\ dlg' = [dlg EXCEPT !.q = t]
  /\ UNCHANGED <<table, call, since, panel>>
  /\ sentinel' = [observed |-> sentinel.observed /\ SentinelShown',
                  hidden |-> sentinel.hidden \/ AllHidden']

fetchNextPage ==
  /\ dlg.open /\ ~dlg.loading /\ dlg.hasMore
  /\ call' = [view |-> dlg.view, offset |-> Len(dlg.pages) * PageSize]
  /\ dlg' = [dlg EXCEPT !.loading = TRUE]
  /\ UNCHANGED <<table, since, panel, left>>
  /\ Observe

\* The effect that loads the first page.
LoadFirst == dlg.pages = <<>> /\ fetchNextPage

\* The observed row loads the next page as it comes into view.
Sentinel == sentinel.observed /\ fetchNextPage

\* The answer is appended to whatever the list holds by now.
Loaded ==
  /\ call # Null /\ call' = Null
  /\ LET page == Query(call.view, call.offset)
     IN  dlg' = [dlg EXCEPT !.pages = Append(@, page), !.loading = FALSE,
                            !.hasMore = @ /\ Len(page) = PageSize]
  /\ UNCHANGED <<table, since, panel, left>>
  /\ Observe

\* Fault: a failure leaves loading up.
LoadFailsLoading ==
  /\ call # Null /\ call' = Null
  /\ UNCHANGED <<table, dlg, sentinel, since, panel, left>>

LoadFails ==
  /\ call # Null /\ call' = Null
  /\ dlg' = [dlg EXCEPT !.loading = FALSE]
  /\ UNCHANGED <<table, since, panel, left>>
  /\ Observe

-----------------------------------------------------------------------------
(* CompileHistoryPanel *)

historyKey(t, offset) == <<t, offset>>

PanelView(t) == [target |-> t, state |-> Null, since |-> Null, until |-> Null, sort |-> "newest"]

PanelRows == panel.cache[historyKey(panel.target, panel.offset)]

\* useSWR asks for a key it is shown; one it has just asked for it may reuse.
ShowKey(t, offset) ==
  LET k == historyKey(t, offset)
  IN \E asked \in {panel.asked \cup {k}} \cup {panel.asked : c \in {panel.cache[k]} \ {Null}} :
       panel' = [panel EXCEPT !.target = t, !.offset = offset, !.asked = asked]

OpenPanel(t) ==
  /\ Spend("panel") /\ panel.target = Null /\ ShowKey(t, panel.offset)
  /\ UNCHANGED <<table, dlg, call, sentinel, since>>

\* "Load more", under a full page.
LoadMore ==
  /\ panel.target # Null /\ PanelRows # Null /\ Len(PanelRows) = PageSize
  /\ ShowKey(panel.target, panel.offset + PageSize)
  /\ UNCHANGED <<table, dlg, call, sentinel, since, left>>

ClosePanel ==
  /\ panel.target # Null
  /\ panel' = [panel EXCEPT !.target = Null, !.offset = 0]
  /\ UNCHANGED <<table, dlg, call, sentinel, since, left>>

PanelLoaded(k) ==
  /\ k \in panel.asked
  /\ panel' = [panel EXCEPT !.asked = @ \ {k}, !.cache[k] = Query(PanelView(k[1]), k[2])]
  /\ UNCHANGED <<table, dlg, call, sentinel, since, left>>

ShownLoaded ==
  \E k \in panel.asked : k = historyKey(panel.target, panel.offset) /\ PanelLoaded(k)

\* A failed key is asked for again while it is shown, and dropped otherwise.
PanelFails(k) ==
  /\ k \in panel.asked /\ k # historyKey(panel.target, panel.offset)
  /\ panel' = [panel EXCEPT !.asked = @ \ {k}]
  /\ UNCHANGED <<table, dlg, call, sentinel, since, left>>

-----------------------------------------------------------------------------

Offsets == 0..MaxRows
Keys == Targets \X Offsets

HistoryInit ==
  /\ table \in [rows : Recorded, first : {1}]
  /\ dlg = [open |-> FALSE, q |-> Null, pages |-> <<>>, hasMore |-> TRUE, loading |-> FALSE,
            view |-> [target |-> Null, state |-> Null, since |-> 1, until |-> Null,
                      sort |-> "newest"]]
  /\ call = Null
  /\ sentinel = Unwatched
  /\ since = [ids |-> {}, calm |-> TRUE, purged |-> FALSE]
  /\ panel = [target |-> Null, offset |-> 0, cache |-> [k \in Keys |-> Null], asked |-> {}]
  /\ left \in Budgets

HistoryNext ==
  \/ \E t \in Targets, s \in Verdicts : JobEnds(t, s)
  \/ \E n \in 1..(MaxRows + 1) : Retention(n)
  \/ OpenDialog \/ CloseDialog \/ AllTime
  \/ \E s \in Verdicts \cup {Null} : FilterState(s)
  \/ \E c \in Sorts : SortBy(c)
  \/ \E n \in Presets : PickPreset(n)
  \/ \E r \in Ranges : applyAbsolute(r)
  \/ \E t \in Targets \cup {Null} : setQ(t)
  \/ LoadFirst \/ Sentinel \/ Loaded \/ LoadFails
  \/ \E t \in Targets : OpenPanel(t)
  \/ LoadMore \/ ClosePanel
  \/ \E k \in Keys : PanelLoaded(k) \/ PanelFails(k)

HistorySpec == HistoryInit /\ [][HistoryNext]_historyVars

\* Effects run, somebody who wants to read on scrolls the observed row into view, and a request that is
\* made again and again is answered some time.
HistoryFairSpec ==
  /\ HistorySpec
  /\ WF_historyVars(LoadFirst) /\ WF_historyVars(Sentinel) /\ SF_historyVars(Loaded)
  /\ WF_historyVars(ShownLoaded)

-----------------------------------------------------------------------------
(* Properties *)

Ordered(list, sort) == \A k \in 1..(Len(list) - 1) : ~Before(sort, list[k + 1], list[k])

\* The rows of the list: row k of page p is at place <<p, k>>.
ListPlaces == UNION {{p} \X DOMAIN dlg.pages[p] : p \in DOMAIN dlg.pages}
RowAt(a) == dlg.pages[a[1]][a[2]]
Above(a, b) == a[1] < b[1] \/ (a[1] = b[1] /\ a[2] < b[2])
ListRows == {RowAt(a) : a \in ListPlaces}

\* Nothing is skipped: whatever was there when the list was begun and precedes a
\* row of the list stands above it.
InOrder ==
  \A a \in ListPlaces, i \in since.ids :
    Before(dlg.view.sort, i, RowAt(a)) => \E c \in ListPlaces : Above(c, a) /\ RowAt(c) = i

\* Jobs finish and old rows go while the pages come in one by one, counted from
\* the start of the table. Rows may come twice, and those of new jobs late. Still
\* the list holds only rows of the filter, those that were there when it was begun
\* in the order asked for and without a gap, and when the history ends all of them
\* that are left; the panel holds rows of its device, newest first.
\* Left out are lists begun while the answer for another one was under way,
\* and, from the oldest or by device, retention.
RowsAnswerView ==
  /\ dlg.open /\ since.calm =>
       /\ \A i \in ListRows : Matches(i, dlg.view)
       /\ dlg.view.sort = "newest" \/ ~since.purged =>
            /\ InOrder
            /\ ~dlg.hasMore => since.ids \cap Ids \subseteq ListRows
  /\ panel.target # Null /\ PanelRows # Null =>
       /\ \A i \in ToSet(PanelRows) : Matches(i, PanelView(panel.target))
       /\ Ordered(PanelRows, "newest")

\* Whoever scrolls on reaches the end of the history, through failures and
\* changes of the filter and of the search, unless the search hides, or has
\* hidden since the observer was last attached, all that is loaded: such a list
\* stays as it is also when the search is cleared. An open panel gets its rows.
HistoryLoads ==
  /\ dlg.open ~> ~dlg.open \/ ~dlg.hasMore \/ sentinel.hidden
  /\ panel.target # Null ~> panel.target = Null \/ PanelRows # Null

=============================================================================
