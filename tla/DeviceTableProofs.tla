-------------------------- MODULE DeviceTableProofs --------------------------
(* Proofs about DeviceTable for any names and configurations, any versions,   *)
(* any columns and releases, and any number of steps.                         *)
EXTENDS DeviceTable, TLAPS

\* The directory. Without versioning git tracks nothing.
FilesTyped ==
  /\ files \in [Names -> Docs \cup {None}] /\ arch \in [Names -> Docs \cup {None}]
  /\ git \in [on : BOOLEAN, tracked : SUBSET Names]
  /\ git.on \/ git.tracked = {}

\* Whatever the page asks for, it asks for by a name of the directory.
Kinds == {"none", "rename", "delete", "purge", "purging"}

NamesKnown ==
  /\ table \in [filter : SUBSET Names, showArchived : BOOLEAN, selection : SUBSET Names]
  /\ dlg \in [kind : Kinds, name : Names \cup {None}]
  /\ dlg.kind # "none" => dlg.name \in Names
  /\ menu.open \in Names \cup {None}
  /\ \A r \in reqs : r.name \in Names /\ (r.op = "rename" => r.arg \in Names)

\* The open menu was last rendered with a version its row has shown since.
MenuFresh ==
  /\ menu = [open |-> menu.open, held |-> menu.held, shown |-> menu.shown]
  /\ menu.held = [n \in Names |-> menu.held[n]]
  /\ menu.open # None => menu.held[menu.open] \in menu.shown

\* What localStorage holds is a layout of some release, and the page's own one
\* unless another page has written since.
LayoutKept ==
  /\ layout = [release |-> layout.release, cols |-> layout.cols, mine |-> layout.mine,
               stored |-> layout.stored]
  /\ layout.release \in Releases /\ layout.cols \in [layout.release -> BOOLEAN]
  /\ layout.stored \in [known : SUBSET Columns, visible : SUBSET Columns]
  /\ layout.mine => layout.stored = saveColumnVisibility(layout.release, layout.cols)

TInv == FilesTyped /\ NamesKnown /\ MenuFresh /\ LayoutKept

-----------------------------------------------------------------------------
(* What the server does to the directory *)

\* A step of the server on names of the directory.
ServerStep(n, m) ==
  \/ Archive(n) \/ Unarchive(n) \/ Delete(n) \/ DeleteArchived(n) \/ Rename(n, m)
  \/ UNCHANGED <<files, arch, git>>

LEMMA ServerStepTyped ==
  ASSUME FilesTyped, NEW n \in Names, NEW m \in Names, ServerStep(n, m)
  PROVE  FilesTyped'
<1>1. CASE Archive(n) \/ Delete(n) \/ DeleteArchived(n)
  BY <1>1 DEF FilesTyped, Archive, Delete, DeleteArchived
<1>2. CASE Unarchive(n)
  BY <1>2 DEF FilesTyped, Unarchive
<1>3. CASE Rename(n, m)
  BY <1>3 DEF FilesTyped, Rename
<1>4. CASE UNCHANGED <<files, arch, git>>
  BY <1>4 DEF FilesTyped
<1> QED
  BY <1>1, <1>2, <1>3, <1>4 DEF ServerStep

\* A request is served by one such step.
LEMMA ServeStep ==
  ASSUME NamesKnown, NEW r \in reqs, Serve(r)
  PROVE  r.name \in Names /\ \E m \in Names : ServerStep(r.name, m)
<1>1. r.name \in Names /\ (r.op = "rename" => r.arg \in Names)
  BY DEF NamesKnown
<1>2. CASE r.op = "rename" /\ Rename(r.name, r.arg)
  BY <1>1, <1>2 DEF ServerStep
<1>3. CASE \/ SetPin(r.name, r.arg) \/ Compile({r.name}) \/ UNCHANGED dir
  <2>1. UNCHANGED <<files, arch, git>>
    BY <1>3 DEF SetPin, Compile, dir
  <2> QED
    BY <1>1, <2>1 DEF ServerStep
<1>4. CASE Archive(r.name) \/ Unarchive(r.name) \/ Delete(r.name) \/ DeleteArchived(r.name)
  BY <1>1, <1>4 DEF ServerStep
<1> QED
  BY <1>2, <1>3, <1>4 DEF Serve

\* What others do is such a step as well, or brings a new file.
LEMMA OthersStep ==
  ASSUME FilesTyped, NEW n \in Names, OthersMove(n) \/ Happens(n)
  PROVE  FilesTyped'
<1>1. CASE Archive(n) \/ Unarchive(n) \/ \E m \in Names \ {n} : Rename(n, m)
  BY <1>1, ServerStepTyped DEF ServerStep
<1>2. ASSUME NEW d \in Docs, files' = [files EXCEPT ![n] = d], UNCHANGED <<arch, git>>
      PROVE  FilesTyped'
  BY <1>2 DEF FilesTyped
<1>3. CASE Happens(n)
  <2>1. UNCHANGED <<files, arch>>
        /\ (UNCHANGED git \/ (git.on /\ git' = [git EXCEPT !.tracked = @ \cup {n}]))
    BY <1>3 DEF Happens
  <2> QED
    BY <2>1 DEF FilesTyped
<1> QED
  BY <1>1, <1>2, <1>3 DEF OthersMove

\* The steps of the page leave the directory alone.
Browser == Rows \/ Dialogs \/ Layout \/ Poll

LEMMA BrowserKeepsFiles ==
  ASSUME Browser
  PROVE  UNCHANGED <<files, arch, git>>
<1>1. CASE Rows
  BY <1>1 DEF Rows, SetFilter, ToggleSelected, Upgrade, ShowArchived, OpenMenu, CloseMenu,
       onArchive, handleUnarchive, handlePin, handleUnpin, MenuAsks, dir
<1>2. CASE Dialogs
  BY <1>2 DEF Dialogs, ConfirmRename, ConfirmDelete, ConfirmPurge, PurgeAnswered, CancelDlg,
       handleArchiveSelected, handleUnarchiveSelected, dir
<1>3. CASE Layout
  BY <1>3 DEF Layout, ToggleColumn, Reload, OtherPageSaves, dir
<1>4. CASE Poll
  BY <1>4 DEF Poll, dir
<1> QED
  BY <1>1, <1>2, <1>3, <1>4 DEF Browser

LEMMA NextFilesTyped ==
  ASSUME FilesTyped, NamesKnown, [Next]_vars
  PROVE  FilesTyped'
<1>1. CASE Browser
  BY <1>1, BrowserKeepsFiles DEF FilesTyped
<1>2. ASSUME NEW r \in reqs, Serve(r) PROVE FilesTyped'
  BY <1>2, ServeStep, ServerStepTyped
<1>3. ASSUME NEW n \in Names, OthersMove(n) \/ Happens(n) PROVE FilesTyped'
  BY <1>3, OthersStep
<1>4. CASE UNCHANGED vars
  BY <1>4 DEF vars, dir, FilesTyped
<1> QED
  BY <1>1, <1>2, <1>3, <1>4 DEF Next, Browser

-----------------------------------------------------------------------------
(* Names *)

LEMMA SelectedNamed ==
  ASSUME NamesKnown
  PROVE  selectedTargets \subseteq Names
  BY DEF NamesKnown, selectedTargets, filteredTargets

LEMMA RowsNames ==
  ASSUME NamesKnown, MenuFresh, Rows
  PROVE  NamesKnown'
<1>1. ASSUME NEW ns \in SUBSET Names, SetFilter(ns) \/ ToggleSelected(ns)
      PROVE  NamesKnown'
  BY <1>1 DEF NamesKnown, SetFilter, ToggleSelected
<1>2. ASSUME NEW ns \in SUBSET Names, Upgrade(ns)
      PROVE  NamesKnown'
  <2>1. \A r \in compile(ns) : r.name \in Names /\ r.op # "rename"
    BY DEF compile, Request
  <2>2. reqs' = reqs \cup compile(ns) /\ UNCHANGED <<table, dlg, menu>>
    BY <1>2 DEF Upgrade
  <2> QED
    BY <2>1, <2>2 DEF NamesKnown
<1>3. CASE ShowArchived
  BY <1>3 DEF NamesKnown, ShowArchived
<1>4. ASSUME NEW n \in Names, OpenMenu(n)
      PROVE  NamesKnown'
  BY <1>4 DEF NamesKnown, OpenMenu
<1>5. CASE CloseMenu
  BY <1>5 DEF NamesKnown, CloseMenu, MenuFresh
<1>6. CASE onArchive \/ handleUnarchive \/ handlePin \/ handleUnpin
  <2>1. PICK op, arg :
          op # "rename" /\ reqs' = reqs \cup {Request(op, menu.open, arg)}
    BY <1>6 DEF onArchive, handleUnarchive, handlePin, handleUnpin, deleteTarget,
         restoreArchivedConfig, pinTargetVersion, unpinTargetVersion
  <2>2. /\ menu.open # None /\ menu' = [menu EXCEPT !.open = None, !.shown = {}]
        /\ UNCHANGED <<table, dlg>>
    BY <1>6 DEF onArchive, handleUnarchive, handlePin, handleUnpin, Click
  <2>3. \A r \in {Request(op, menu.open, arg)} : r.name \in Names /\ r.op # "rename"
    BY <2>1, <2>2 DEF Request, NamesKnown
  <2>4. \A r \in reqs' : r.name \in Names /\ (r.op = "rename" => r.arg \in Names)
    BY <2>1, <2>3 DEF NamesKnown
  <2>5. menu'.open = None
    BY <2>2 DEF MenuFresh
  <2> QED
    BY <2>2, <2>4, <2>5 DEF NamesKnown
<1>7. ASSUME NEW kind \in {"rename", "delete", "purge"}, MenuAsks(kind)
      PROVE  NamesKnown'
  BY <1>7 DEF NamesKnown, MenuAsks, Offered, MenuFresh, Kinds
<1> QED
  BY <1>1, <1>2, <1>3, <1>4, <1>5, <1>6, <1>7 DEF Rows

LEMMA DialogsNames ==
  ASSUME NamesKnown, Dialogs
  PROVE  NamesKnown'
<1>1. ASSUME NEW m \in Names, ConfirmRename(m)
      PROVE  NamesKnown'
  <2>1. /\ dlg.name \in Names /\ dlg' = NoDlg /\ UNCHANGED <<table, menu>>
        /\ reqs' = reqs \cup {Request("rename", dlg.name, m)}
    BY <1>1 DEF ConfirmRename, renameTarget, NamesKnown
  <2> QED
    BY <2>1 DEF NamesKnown, NoDlg, Kinds, Request
<1>2. ASSUME NEW archive \in BOOLEAN, ConfirmDelete(archive)
      PROVE  NamesKnown'
  <2>1. /\ dlg.name \in Names /\ dlg' = NoDlg /\ UNCHANGED <<table, menu>>
        /\ \E op \in {"archive", "delete"} : reqs' = reqs \cup {Request(op, dlg.name, None)}
    BY <1>2 DEF ConfirmDelete, deleteTarget, NamesKnown
  <2> QED
    BY <2>1 DEF NamesKnown, NoDlg, Kinds, Request
<1>3. CASE ConfirmPurge
  <2>1. /\ dlg.name \in Names /\ dlg' = [dlg EXCEPT !.kind = "purging"] /\ UNCHANGED <<table, menu>>
        /\ reqs' = reqs \cup {Request("purge", dlg.name, None)}
    BY <1>3 DEF ConfirmPurge, deleteArchivedConfig, NamesKnown
  <2> QED
    BY <2>1 DEF NamesKnown, Kinds, Request
<1>4. CASE PurgeAnswered \/ CancelDlg
  BY <1>4 DEF NamesKnown, PurgeAnswered, CancelDlg, NoDlg, Kinds
<1>5. CASE handleArchiveSelected \/ handleUnarchiveSelected
  <2>1. /\ UNCHANGED <<table, dlg, menu>>
        /\ \E op \in {"archive", "unarchive"} :
             reqs' = reqs \cup {Request(op, n, None) : n \in selectedTargets}
    BY <1>5 DEF handleArchiveSelected, handleUnarchiveSelected, deleteTarget,
         restoreArchivedConfig
  <2> QED
    BY <2>1, SelectedNamed DEF NamesKnown, Request
<1> QED
  BY <1>1, <1>2, <1>3, <1>4, <1>5 DEF Dialogs

LEMMA NextNamesKnown ==
  ASSUME NamesKnown, MenuFresh, [Next]_vars
  PROVE  NamesKnown'
<1>1. CASE Layout
  BY <1>1 DEF Layout, ToggleColumn, Reload, OtherPageSaves, NamesKnown
<1>2. CASE Poll
  <2>1. menu'.open \in {menu.open, None} /\ UNCHANGED <<table, dlg, reqs>>
    BY <1>2 DEF Poll, MenuFresh
  <2> QED
    BY <2>1 DEF NamesKnown
<1>3. ASSUME NEW r \in reqs, Serve(r) PROVE NamesKnown'
  <2>1. reqs' = reqs \ {r} /\ UNCHANGED <<table, dlg, menu>>
    BY <1>3 DEF Serve
  <2> QED
    BY <2>1 DEF NamesKnown
<1>4. ASSUME NEW n \in Names, OthersMove(n) \/ Happens(n) PROVE NamesKnown'
  <2>1. UNCHANGED <<table, dlg, menu, reqs>>
    BY <1>4 DEF OthersMove, Happens
  <2> QED
    BY <2>1 DEF NamesKnown
<1>5. CASE UNCHANGED vars
  BY <1>5 DEF vars, NamesKnown
<1> QED
  BY <1>1, <1>2, <1>3, <1>4, <1>5, RowsNames, DialogsNames DEF Next

-----------------------------------------------------------------------------
(* The row menu *)

LEMMA NextMenuFresh ==
  ASSUME NamesKnown, MenuFresh, [Next]_vars
  PROVE  MenuFresh'
<1>1. ASSUME UNCHANGED menu
      PROVE  MenuFresh'
  BY <1>1 DEF MenuFresh
<1>2. ASSUME menu' = [menu EXCEPT !.open = None, !.shown = {}]
      PROVE  MenuFresh'
  BY <1>2 DEF MenuFresh
<1>3. ASSUME NEW n \in Names, OpenMenu(n)
      PROVE  MenuFresh'
  <2>1. menu' = [open |-> n, held |-> [menu.held EXCEPT ![n] = find(seen.targets, n).ver],
                 shown |-> {find(seen.targets, n).ver}]
    BY <1>3 DEF OpenMenu, renderedOnOpen
  <2> QED
    BY <2>1 DEF MenuFresh
<1>4. CASE Poll
  <2> DEFINE held == [n \in Names |-> Rendered(n, seen.targets, View.targets)]
             stays == menu.open # None /\ find(View.targets, menu.open) # None
  <2>1. menu' = IF stays
                THEN [menu EXCEPT !.held = held,
                                  !.shown = @ \cup {find(View.targets, menu.open).ver}]
                ELSE [open |-> None, held |-> held, shown |-> {}]
    BY <1>4 DEF Poll
  <2>2. CASE ~stays
    <3>1. menu' = [open |-> None, held |-> held, shown |-> {}]
      BY <2>1, <2>2
    <3> QED
      BY <3>1 DEF MenuFresh
  <2>3. CASE stays
    <3>1. menu.open \in Names
      BY <2>3 DEF NamesKnown
    <3>2. menu' = [open |-> menu.open, held |-> held,
                   shown |-> menu.shown \cup {find(View.targets, menu.open).ver}]
      BY <2>1, <2>3 DEF MenuFresh
    <3>3. Rendered(menu.open, seen.targets, View.targets)
            \in {menu.held[menu.open], find(View.targets, menu.open).ver}
      BY <2>3 DEF Rendered
    <3>4. menu.held[menu.open] \in menu.shown
      BY <2>3 DEF MenuFresh
    <3>5. held[menu.open] \in menu.shown \cup {find(View.targets, menu.open).ver}
      BY <3>1, <3>3, <3>4
    <3> HIDE DEF held
    <3>6. held = [n \in Names |-> held[n]]
      BY DEF held
    <3> QED
      BY <3>2, <3>5, <3>6 DEF MenuFresh
  <2> QED
    BY <2>2, <2>3
<1>5. CASE Rows
  BY <1>1, <1>2, <1>3, <1>5 DEF Rows, SetFilter, ToggleSelected, Upgrade, ShowArchived,
       CloseMenu, onArchive, handleUnarchive, handlePin, handleUnpin, MenuAsks, Click
<1>6. CASE Dialogs
  BY <1>1, <1>6 DEF Dialogs, ConfirmRename, ConfirmDelete, ConfirmPurge, PurgeAnswered,
       CancelDlg, handleArchiveSelected, handleUnarchiveSelected
<1>7. CASE Layout
  BY <1>1, <1>7 DEF Layout, ToggleColumn, Reload, OtherPageSaves
<1>8. ASSUME NEW r \in reqs, Serve(r) PROVE MenuFresh'
  BY <1>1, <1>8 DEF Serve
<1>9. ASSUME NEW n \in Names, OthersMove(n) \/ Happens(n) PROVE MenuFresh'
  BY <1>1, <1>9 DEF OthersMove, Happens
<1>10. CASE UNCHANGED vars
  BY <1>1, <1>10 DEF vars
<1> QED
  BY <1>4, <1>5, <1>6, <1>7, <1>8, <1>9, <1>10 DEF Next

-----------------------------------------------------------------------------
(* The column layout *)

LEMMA LoadedTyped ==
  ASSUME NEW release, NEW stored
  PROVE  loadColumnVisibility(release, stored) \in [release -> BOOLEAN]
<1> DEFINE value(c) == IF stored # None /\ c \in stored.known
                       THEN c \in stored.visible ELSE c \in Shown
<1>1. ASSUME NEW c \in release
      PROVE  value(c) \in BOOLEAN
  <2>1. CASE stored # None /\ c \in stored.known
    BY <2>1
  <2>2. CASE stored = None
    BY <2>2
  <2>3. CASE c \notin stored.known
    BY <2>3
  <2> QED
    BY <2>1, <2>2, <2>3
<1>2. loadColumnVisibility(release, stored) = [c \in release |-> value(c)]
  BY DEF loadColumnVisibility
<1> HIDE DEF value
<1> QED
  BY <1>1, <1>2

LEMMA MountedKept ==
  ASSUME NEW release \in Releases, NEW stored,
         layout' = Mounted(release, stored)
  PROVE  LayoutKept'
<1> DEFINE cols == loadColumnVisibility(release, stored)
<1>1. cols \in [release -> BOOLEAN] /\ release \in SUBSET Columns
  BY TableAssumption, LoadedTyped
<1> HIDE DEF cols
<1>2. saveColumnVisibility(release, cols) \in [known : SUBSET Columns, visible : SUBSET Columns]
  BY <1>1 DEF saveColumnVisibility
<1>3. layout' = [release |-> release, cols |-> cols, mine |-> TRUE,
                 stored |-> saveColumnVisibility(release, cols)]
  BY DEF Mounted, cols
<1> QED
  BY <1>1, <1>2, <1>3 DEF LayoutKept

LEMMA NextLayoutKept ==
  ASSUME LayoutKept, [Next]_vars
  PROVE  LayoutKept'
<1>1. ASSUME UNCHANGED layout
      PROVE  LayoutKept'
  BY <1>1 DEF LayoutKept
<1>2. ASSUME NEW c \in Columns, ToggleColumn(c)
      PROVE  LayoutKept'
  <2> DEFINE cols == [layout.cols EXCEPT ![c] = ~@]
             stored == saveColumnVisibility(layout.release, cols)
  <2>1. layout' = [layout EXCEPT !.cols = cols, !.mine = TRUE, !.stored = stored]
    BY <1>2 DEF ToggleColumn
  <2>2. cols \in [layout.release -> BOOLEAN] /\ layout.release \in SUBSET Columns
    BY TableAssumption DEF LayoutKept
  <2>3. stored \in [known : SUBSET Columns, visible : SUBSET Columns]
    BY <2>2 DEF saveColumnVisibility
  <2> HIDE DEF cols, stored
  <2>4. layout' = [release |-> layout.release, cols |-> cols, mine |-> TRUE, stored |-> stored]
    BY <2>1 DEF LayoutKept
  <2>5. stored = saveColumnVisibility(layout.release, cols)
    BY DEF stored
  <2> QED
    BY <2>2, <2>3, <2>4, <2>5 DEF LayoutKept
<1>3. ASSUME NEW r \in Releases, Reload(r)
      PROVE  LayoutKept'
  BY <1>3, MountedKept DEF Reload
<1>4. CASE OtherPageSaves
  <2>1. PICK s \in [known : SUBSET Columns, visible : SUBSET Columns] :
          layout' = [layout EXCEPT !.stored = s, !.mine = FALSE]
    <3>1. PICK cs \in SUBSET Columns :
            \E s \in {FlatList(cs)} \cup {[known |-> r, visible |-> r \cap cs] : r \in Releases} :
              layout' = [layout EXCEPT !.stored = s, !.mine = FALSE]
      BY <1>4 DEF OtherPageSaves
    <3>2. FlatList(cs) \in [known : SUBSET Columns, visible : SUBSET Columns]
      BY DEF FlatList
    <3>3. \A r \in Releases : [known |-> r, visible |-> r \cap cs]
                                \in [known : SUBSET Columns, visible : SUBSET Columns]
      BY TableAssumption
    <3> QED
      BY <3>1, <3>2, <3>3
  <2> QED
    BY <2>1 DEF LayoutKept
<1>5. CASE Rows
  BY <1>1, <1>5 DEF Rows, SetFilter, ToggleSelected, Upgrade, ShowArchived, OpenMenu,
       CloseMenu, onArchive, handleUnarchive, handlePin, handleUnpin, MenuAsks
<1>6. CASE Dialogs
  BY <1>1, <1>6 DEF Dialogs, ConfirmRename, ConfirmDelete, ConfirmPurge, PurgeAnswered,
       CancelDlg, handleArchiveSelected, handleUnarchiveSelected
<1>7. CASE Poll
  BY <1>1, <1>7 DEF Poll
<1>8. ASSUME NEW r \in reqs, Serve(r) PROVE LayoutKept'
  BY <1>1, <1>8 DEF Serve
<1>9. ASSUME NEW n \in Names, OthersMove(n) \/ Happens(n) PROVE LayoutKept'
  BY <1>1, <1>9 DEF OthersMove, Happens
<1>10. CASE UNCHANGED vars
  BY <1>1, <1>10 DEF vars
<1> QED
  BY <1>2, <1>3, <1>4, <1>5, <1>6, <1>7, <1>8, <1>9, <1>10 DEF Next, Layout

-----------------------------------------------------------------------------
(* The inductive invariant *)

LEMMA InitTInv == Init => TInv
<1> SUFFICES ASSUME Init PROVE TInv
  OBVIOUS
<1>1. FilesTyped
  <2>1. PICK on \in BOOLEAN, tracked \in {{}, {n \in Names : files[n] # None}} :
          git = [on |-> on, tracked |-> tracked]
    BY DEF Init
  <2> QED
    BY <2>1 DEF Init, FilesTyped
<1>2. NamesKnown
  BY DEF Init, NamesKnown, NoDlg, Kinds
<1>3. MenuFresh
  BY DEF Init, MenuFresh
<1>4. LayoutKept
  <2>1. First \in Releases /\ First \in SUBSET Columns
    BY TableAssumption
  <2> DEFINE cols == loadColumnVisibility(First, None)
  <2>2. cols \in [First -> BOOLEAN]
    BY LoadedTyped
  <2> HIDE DEF cols
  <2>3. saveColumnVisibility(First, cols) \in [known : SUBSET Columns, visible : SUBSET Columns]
    BY <2>1 DEF saveColumnVisibility
  <2>4. layout = [release |-> First, cols |-> cols, mine |-> TRUE,
                  stored |-> saveColumnVisibility(First, cols)]
    BY DEF Init, Mounted, cols
  <2> QED
    BY <2>1, <2>2, <2>3, <2>4 DEF LayoutKept
<1> QED
  BY <1>1, <1>2, <1>3, <1>4 DEF TInv

\* The inductive invariant of the Devices tab.
THEOREM TableInvariant == Spec => []TInv
<1>1. TInv /\ [Next]_vars => TInv'
  BY NextFilesTyped, NextNamesKnown, NextMenuFresh, NextLayoutKept DEF TInv
<1> QED
  BY <1>1, InitTInv, PTL DEF Spec

-----------------------------------------------------------------------------
(* No configuration is lost *)

\* What became of d when it is nowhere any more.
LEMMA WhatLoses ==
  ASSUME FilesTyped, NEW n \in Names, NEW d \in Docs, Exists(d), ~Exists(d)'
  PROVE  /\ Archive(n) => arch[n] = d /\ n \notin git.tracked /\ arch'[n] = files[n]
         /\ ~Unarchive(n)
         /\ Delete(n) => d = files[n]
         /\ DeleteArchived(n) => d = arch[n]
         /\ \A m \in Names : ~Rename(n, m)
         /\ ~UNCHANGED <<files, arch>>
<1>0. PICK k \in Names : d \in {files[k], arch[k]}
  BY DEF Exists
<1>1. \A i \in Names : d # files'[i] /\ d # arch'[i]
  BY DEF Exists
<1>2. d # None
  BY TableAssumption
<1>3. ASSUME Archive(n)
      PROVE  arch[n] = d /\ n \notin git.tracked /\ arch'[n] = files[n]
  BY <1>0, <1>1, <1>2, <1>3 DEF Archive, FilesTyped
<1>4. ~Unarchive(n)
  BY <1>0, <1>1, <1>2 DEF Unarchive, FilesTyped
<1>5. Delete(n) => d = files[n]
  BY <1>0, <1>1 DEF Delete, FilesTyped
<1>6. DeleteArchived(n) => d = arch[n]
  BY <1>0, <1>1 DEF DeleteArchived, FilesTyped
<1>7. \A m \in Names : ~Rename(n, m)
  BY <1>0, <1>1, <1>2 DEF Rename, FilesTyped
<1>8. ~UNCHANGED <<files, arch>>
  BY <1>0, <1>1
<1> QED
  BY <1>3, <1>4, <1>5, <1>6, <1>7, <1>8

\* For any names, people and order of requests: a configuration goes only when its
\* name is deleted for good, or over an archived one that git does not track.
THEOREM ConfigurationsStay == Spec => NothingLost
<1> DEFINE Fate(d) ==
      \/ \E r \in reqs : r.op \in {"delete", "purge"} /\ Serve(r)
                         /\ d = IF r.op = "delete" THEN files[r.name] ELSE arch[r.name]
      \/ \E n \in Names : arch[n] = d /\ n \notin git.tracked /\ arch'[n] = files[n]
<1>1. ASSUME TInv, Next, NEW d \in Docs, Exists(d), ~Exists(d)'
      PROVE  Fate(d)
  <2>0. FilesTyped /\ NamesKnown
    BY <1>1 DEF TInv
  <2>1. ASSUME UNCHANGED <<files, arch>> PROVE FALSE
    BY <1>1, <2>1 DEF Exists
  <2>2. CASE Browser
    BY <2>1, <2>2, BrowserKeepsFiles
  <2>3. ASSUME NEW n \in Names, Archive(n)
        PROVE  Fate(d)
    BY <1>1, <2>0, <2>3, WhatLoses
  <2>4. ASSUME NEW r \in reqs, Serve(r)
        PROVE  Fate(d)
    <3>1. r.name \in Names /\ (r.op = "rename" => r.arg \in Names)
      BY <2>0, <2>4 DEF NamesKnown
    <3>2. CASE r.op = "delete" /\ Delete(r.name)
      BY <1>1, <2>0, <2>4, <3>1, <3>2, WhatLoses
    <3>3. CASE r.op = "purge" /\ DeleteArchived(r.name)
      BY <1>1, <2>0, <2>4, <3>1, <3>3, WhatLoses
    <3>4. CASE Archive(r.name)
      BY <2>3, <3>1, <3>4
    <3>5. CASE \/ r.op = "unarchive" /\ Unarchive(r.name)
               \/ r.op = "rename" /\ Rename(r.name, r.arg)
      BY <1>1, <2>0, <3>1, <3>5, WhatLoses
    <3>6. CASE SetPin(r.name, r.arg) \/ Compile({r.name}) \/ UNCHANGED dir
      BY <2>1, <3>6 DEF SetPin, Compile, dir
    <3> QED
      BY <2>4, <3>2, <3>3, <3>4, <3>5, <3>6 DEF Serve
  <2>5. ASSUME NEW n \in Names, OthersMove(n)
        PROVE  Fate(d)
    <3>1. CASE Archive(n)
      BY <2>3, <3>1
    <3>2. CASE Unarchive(n) \/ \E m \in Names \ {n} : Rename(n, m)
      BY <1>1, <2>0, <3>2, WhatLoses
    <3>3. ASSUME NEW e \in Docs, files[n] = None, files' = [files EXCEPT ![n] = e],
                 UNCHANGED arch
          PROVE  FALSE
      BY <1>1, <2>0, <3>3, TableAssumption DEF Exists, FilesTyped
    <3> QED
      BY <2>5, <3>1, <3>2, <3>3 DEF OthersMove
  <2>6. ASSUME NEW n \in Names, Happens(n)
        PROVE  FALSE
    BY <2>1, <2>6 DEF Happens
  <2> QED
    BY <1>1, <2>2, <2>4, <2>5, <2>6 DEF Next, Browser
<1>2. ASSUME TInv, [Next]_vars
      PROVE  [\A d \in Docs : Exists(d) /\ ~Exists(d)' => Fate(d)]_vars
  BY <1>1, <1>2
<1> QED
  BY <1>2, TableInvariant, PTL DEF Spec, NothingLost

-----------------------------------------------------------------------------

\* However often the row changes under the open menu, and whichever of its cells
\* were rendered for it, what is pinned is a version the row has shown since.
THEOREM PinIsAsShown == Spec => PinAsShown
<1>1. ASSUME TInv, handlePin
      PROVE  \E v \in menu.shown : pinTargetVersion(menu.open, Pinned(v)) \in reqs'
  <2>1. menu.held[menu.open] \in menu.shown
    BY <1>1 DEF TInv, MenuFresh, handlePin, Click
  <2> QED
    BY <1>1, <2>1 DEF handlePin
<1>2. TInv /\ [Next]_vars
      => [handlePin => \E v \in menu.shown : pinTargetVersion(menu.open, Pinned(v)) \in reqs']_vars
  BY <1>1
<1> QED
  BY <1>2, TableInvariant, PTL DEF Spec, PinAsShown

\* For any releases, forwards and backwards, and whatever was stored before.
THEOREM ColumnsAreRemembered == Spec => ColumnsRemembered
<1>1. ASSUME TInv, NEW r \in Releases, Reload(r), layout.mine, NEW c \in r
      PROVE  layout'.cols[c] = IF c \in layout.release THEN layout.cols[c] ELSE c \in Shown
  <2>1. /\ layout.stored = saveColumnVisibility(layout.release, layout.cols)
        /\ layout.cols \in [layout.release -> BOOLEAN]
        /\ layout.stored # None
    BY <1>1, TableAssumption DEF TInv, LayoutKept
  <2>2. /\ layout.stored.known = layout.release
        /\ layout.stored.visible = {k \in layout.release : layout.cols[k]}
    BY <2>1 DEF saveColumnVisibility
  <2>3. layout'.cols = loadColumnVisibility(r, layout.stored)
    BY <1>1 DEF Reload, Mounted
  <2>4. layout'.cols[c] = IF c \in layout.stored.known THEN c \in layout.stored.visible
                          ELSE c \in Shown
    BY <2>1, <2>3 DEF loadColumnVisibility
  <2> QED
    BY <2>1, <2>2, <2>4
<1>2. TInv /\ [Next]_vars
      => [\A r \in Releases : Reload(r) /\ layout.mine =>
            \A c \in r : layout'.cols[c] = IF c \in layout.release THEN layout.cols[c]
                                           ELSE c \in Shown]_vars
  BY <1>1
<1> QED
  BY <1>2, TableInvariant, PTL DEF Spec, ColumnsRemembered

=============================================================================
