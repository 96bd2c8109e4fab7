---------------------------- MODULE DeviceTable ----------------------------
(* The Devices tab against the configuration directory: archiving, restoring, *)
(* renaming and deleting from rows that may be out of date, alone and in      *)
(* bulk; the row menu, which React re-renders only when it seems to have      *)
(* changed; and the column layout the browser remembers across releases.      *)
EXTENDS Naturals, FiniteSets

CONSTANTS
  Names,     \* YAML file names, which are also the names of the devices
  Docs,      \* configurations: what a file holds, wherever it is moved
  Versions,  \* versions of ESPHome a device may run
  Latest,    \* the server's version
  Columns,   \* optional columns of all releases
  Shown,     \* those that are visible by default
  Releases,  \* releases of the UI: the optional columns each one has
  First,     \* the release the page is loaded from at first
  None,      \* the null of the code
  Budgets    \* bounds: how many steps of each kind a behaviour has

ASSUME TableAssumption ==
  /\ None \notin Names \cup Docs \cup Versions
  /\ Latest \in Versions
  /\ Shown \subseteq Columns
  /\ Releases \subseteq SUBSET Columns
  /\ First \in Releases
  /\ None \notin [known : SUBSET Columns, visible : SUBSET Columns]
  /\ Budgets \subseteq [{"files", "others", "pins", "columns"} -> Nat]

VARIABLES
  files,    \* per name: the configuration in the directory, or None
  arch,     \* per name: the one in .archive
  git,      \* versioning is on, and the names whose active file is tracked
  jobs,     \* names with a pending or working job
  mdns,     \* devices the poller knows
  dev,      \* per name: the running version and the pin
  seen,     \* the targets and devices of the last poll
  table,    \* filter, showArchived and rowSelection of the tab
  dlg,      \* the dialog on top of the tab
  menu,     \* the open row menu, and what each menu was last rendered with
  reqs,     \* requests on their way
  layout,   \* the release, its columnVisibility and what localStorage holds
  left      \* what is left of the budget

dir == <<files, arch, git, jobs, mdns, dev>>
vars == <<dir, seen, table, dlg, menu, reqs, layout, left>>

Spend(k) == left[k] > 0 /\ left' = [left EXCEPT ![k] = @ - 1]

----------------------------------------------------------------------------
(* The server. *)

\* get_targets: every file of the directory, and every file of the archive.
\* A name may be in both. dirty stands for the three signals of an edited
\* configuration; nothing reads the pin of an archived row.
Targets ==
  {[name |-> n, archived |-> FALSE, ver |-> dev[n].ver, pin |-> dev[n].pin,
    dirty |-> git.on /\ n \notin git.tracked] : n \in {n \in Names : files[n] # None}}
  \cup
  {[name |-> n, archived |-> TRUE, ver |-> None, pin |-> None, dirty |-> FALSE] :
     n \in {n \in Names : arch[n] # None}}

View == [targets |-> Targets, devices |-> mdns]

\* archive_with_git_mv: git mv refuses to overwrite, a plain rename does not.
Archive(n) ==
  /\ files[n] # None
  /\ git.on /\ n \in git.tracked => arch[n] = None
  /\ arch' = [arch EXCEPT ![n] = files[n]]
  /\ files' = [files EXCEPT ![n] = None]
  /\ git' = [git EXCEPT !.tracked = @ \ {n}]
  /\ jobs' = jobs \ {n}
  /\ mdns' = mdns \ {n}
  /\ UNCHANGED dev

\* restore_archive.
Unarchive(n) ==
  /\ arch[n] # None /\ files[n] = None
  /\ files' = [files EXCEPT ![n] = arch[n]]
  /\ arch' = [arch EXCEPT ![n] = None]
  /\ git' \in {git, [git EXCEPT !.tracked = IF git.on THEN @ \cup {n} ELSE @]}
  /\ UNCHANGED <<jobs, mdns, dev>>

\* delete_target for good, and delete_archived.
Delete(n) ==
  /\ files[n] # None
  /\ files' = [files EXCEPT ![n] = None]
  /\ git' = [git EXCEPT !.tracked = @ \ {n}]
  /\ jobs' = jobs \ {n}
  /\ UNCHANGED <<arch, mdns, dev>>

DeleteArchived(n) ==
  /\ arch[n] # None
  /\ arch' = [arch EXCEPT ![n] = None]
  /\ UNCHANGED <<files, git, jobs, mdns, dev>>

\* Fault: the new name is not looked up before the file is written.
RenameOver(n, m) ==
  /\ files[n] # None
  /\ files' = [files EXCEPT ![n] = None, ![m] = files[n]]
  /\ git' = [git EXCEPT !.tracked = @ \ {n, m}]
  /\ jobs' = jobs \cup {m}
  /\ mdns' = mdns \ {n}
  /\ dev' = [dev EXCEPT ![m] = dev[n], ![n].pin = None]
  /\ UNCHANGED arch

\* rename_target: the jobs of the old name stay, the new one is compiled.
Rename(n, m) ==
  /\ files[n] # None /\ files[m] = None
  /\ files' = [files EXCEPT ![n] = None, ![m] = files[n]]
  /\ git' = [git EXCEPT !.tracked = @ \ {n, m}]
  /\ jobs' = jobs \cup {m}
  /\ mdns' = mdns \ {n}
  /\ dev' = [dev EXCEPT ![m] = dev[n], ![n].pin = None]
  /\ UNCHANGED arch

SetPin(n, v) ==
  /\ files[n] # None
  /\ dev' = [dev EXCEPT ![n].pin = v]
  /\ UNCHANGED <<files, arch, git, jobs, mdns>>

\* start_compile leaves out what is not in the directory.
Compile(ns) ==
  /\ jobs' = jobs \cup {n \in ns : files[n] # None}
  /\ UNCHANGED <<files, arch, git, mdns, dev>>

\* A handler runs, or refuses, or the request is lost.
Serve(r) ==
  /\ r \in reqs
  /\ reqs' = reqs \ {r}
  /\ \/ r.op = "archive" /\ Archive(r.name)
     \/ r.op = "unarchive" /\ Unarchive(r.name)
     \/ r.op = "delete" /\ Delete(r.name)
     \/ r.op = "purge" /\ DeleteArchived(r.name)
     \/ r.op = "rename" /\ Rename(r.name, r.arg)
     \/ r.op = "pin" /\ SetPin(r.name, r.arg)
     \/ r.op = "compile" /\ Compile({r.name})
     \/ UNCHANGED dir
  /\ UNCHANGED <<seen, table, dlg, menu, layout, left>>

\* Another page, a commit, a finished job, a device that reports itself or
\* comes back with other firmware.
OthersMove(n) ==
  /\ Spend("others")
  /\ \/ Archive(n) \/ Unarchive(n)
     \/ \E m \in Names \ {n} : Rename(n, m)
     \/ \E d \in Docs : /\ files[n] = None /\ \A k \in Names : d \notin {files[k], arch[k]}
                        /\ files' = [files EXCEPT ![n] = d]
                        /\ UNCHANGED <<arch, git, jobs, mdns, dev>>
  /\ UNCHANGED <<seen, table, dlg, menu, reqs, layout>>

Happens(n) ==
  /\ \/ /\ git.on /\ files[n] # None /\ n \notin git.tracked
        /\ git' = [git EXCEPT !.tracked = @ \cup {n}]
        /\ UNCHANGED <<files, arch, jobs, mdns, dev, left>>
     \/ n \in jobs /\ jobs' = jobs \ {n} /\ UNCHANGED <<files, arch, git, mdns, dev, left>>
     \/ /\ n \notin mdns /\ mdns' = mdns \cup {n} /\ Spend("others")
        /\ UNCHANGED <<files, arch, git, jobs, dev>>
     \/ \E v \in Versions : /\ v # dev[n].ver /\ files[n] # None /\ Spend("others")
                            /\ dev' = [dev EXCEPT ![n].ver = v]
                            /\ UNCHANGED <<files, arch, git, jobs, mdns>>
  /\ UNCHANGED <<seen, table, dlg, menu, reqs, layout>>

----------------------------------------------------------------------------
(* The requests, by the names client.ts gives them. *)

Request(op, n, arg) == [op |-> op, name |-> n, arg |-> arg]

deleteTarget(n, archive) == Request(IF archive THEN "archive" ELSE "delete", n, None)
restoreArchivedConfig(n) == Request("unarchive", n, None)
deleteArchivedConfig(n) == Request("purge", n, None)
renameTarget(n, m) == Request("rename", n, m)
pinTargetVersion(n, v) == Request("pin", n, v)
unpinTargetVersion(n) == Request("pin", n, None)
compile(ns) == {Request("compile", n, None) : n \in ns}

----------------------------------------------------------------------------
(* The rows. *)

\* targets.find: the active row comes first.
find(T, n) ==
  LET rows == {r \in T : r.name = n}
  IN IF rows = {} THEN None
     ELSE CHOOSE r \in rows : r.archived => \A q \in rows : q.archived

Active(T) == {r.name : r \in {r \in T : ~r.archived}}

\* The rows that pass the pills and the search box, archived ones on demand.
filteredTargets ==
  {r \in seen.targets : r.name \in table.filter /\ (r.archived => table.showArchived)}

selectedTargets == table.selection \cap {r.name : r \in filteredTargets}

SetFilter(ns) ==
  /\ dlg.kind = "none" /\ ns # table.filter /\ Spend("files")
  /\ table' = [table EXCEPT !.filter = ns]
  /\ UNCHANGED <<dir, seen, dlg, menu, reqs, layout>>

ShowArchived ==
  /\ dlg.kind = "none" /\ Spend("files")
  /\ table' = [table EXCEPT !.showArchived = ~@]
  /\ UNCHANGED <<dir, seen, dlg, menu, reqs, layout>>

\* The check box of a row and the one of the header.
ToggleSelected(ns) ==
  /\ dlg.kind = "none" /\ left.files > 0
  /\ \/ \E r \in filteredTargets : ns = {r.name}
     \/ ns = {r.name : r \in filteredTargets}
  /\ table' = [table EXCEPT !.selection = IF ns \subseteq @ THEN @ \ ns ELSE @ \cup ns]
  /\ UNCHANGED <<dir, seen, dlg, menu, reqs, layout, left>>

----------------------------------------------------------------------------
(* The row menu. It is memoized twice: a cell that looks the same is not      *)
(* rendered, and neither is a menu that does. Its handlers are those of the   *)
(* last time it was.                                                          *)

hasDriftedConfig(r) == r.dirty

needsUpdate(r) == r.ver \notin {None, IF r.pin = None THEN Latest ELSE r.pin}

\* propsEqual of ActionsCell.
cellEqual(a, b) ==
  /\ a.pin = b.pin /\ a.dirty = b.dirty /\ a.archived = b.archived
  /\ hasDriftedConfig(a) = hasDriftedConfig(b) /\ needsUpdate(a) = needsUpdate(b)

\* propsEqual of DeviceContextMenu.
menuEqual(a, b) == a.pin = b.pin /\ a.dirty = b.dirty /\ a.archived = b.archived

\* What the menu of name n holds after a poll: a row that was not there is
\* mounted, one that has changed for both is rendered.
Rendered(n, old, new) ==
  LET a == find(old, n)
      b == find(new, n)
  IN IF b = None THEN None
     ELSE IF a = None \/ menu.held[n] = None THEN b.ver
     ELSE IF cellEqual(a, b) \/ menuEqual(a, b) THEN menu.held[n] ELSE b.ver

\* Fault: opening the menu does not render it.
heldOnOpen(n) == menu.held

\* open is compared as well: opening the menu renders it.
renderedOnOpen(n) == [menu.held EXCEPT ![n] = find(seen.targets, n).ver]

OpenMenu(n) ==
  /\ dlg.kind = "none" /\ menu.open = None
  /\ left.files + left.pins > 0
  /\ \E r \in filteredTargets : r.name = n
  /\ menu' = [open |-> n, held |-> renderedOnOpen(n),
              shown |-> {find(seen.targets, n).ver}]
  /\ UNCHANGED <<dir, seen, table, dlg, reqs, layout, left>>

CloseMenu ==
  /\ menu.open # None
  /\ menu' = [menu EXCEPT !.open = None, !.shown = {}]
  /\ UNCHANGED <<dir, seen, table, dlg, reqs, layout, left>>

\* A click in the open menu sends a request or opens a dialog.
Click(k) ==
  /\ menu.open # None /\ Spend(k)
  /\ menu' = [menu EXCEPT !.open = None, !.shown = {}]

\* What the menu of a row offers, as far as it concerns files and pins.
MenuItems(r) ==
  IF r.archived THEN {"unarchive", "purge"}
  ELSE {"archive", "rename", "delete", IF r.pin = None THEN "pin" ELSE "unpin"}

Offered(item) == menu.open # None /\ item \in MenuItems(find(seen.targets, menu.open))

\* onArchive and handleUnarchive ask no questions.
onArchive ==
  /\ Click("files") /\ Offered("archive")
  /\ reqs' = reqs \cup {deleteTarget(menu.open, TRUE)}
  /\ UNCHANGED <<dir, seen, table, dlg, layout>>

handleUnarchive ==
  /\ Click("files") /\ Offered("unarchive")
  /\ reqs' = reqs \cup {restoreArchivedConfig(menu.open)}
  /\ UNCHANGED <<dir, seen, table, dlg, layout>>

\* The version to pin: the running one, or the server's.
Pinned(v) == IF v = None THEN Latest ELSE v

\* handlePin of the last render.
handlePin ==
  /\ Click("pins") /\ Offered("pin")
  /\ reqs' = reqs \cup {pinTargetVersion(menu.open, Pinned(menu.held[menu.open]))}
  /\ UNCHANGED <<dir, seen, table, dlg, layout>>

handleUnpin ==
  /\ Click("pins") /\ Offered("unpin")
  /\ reqs' = reqs \cup {unpinTargetVersion(menu.open)}
  /\ UNCHANGED <<dir, seen, table, dlg, layout>>

\* Rename, Delete and Permanently delete ask first.
MenuAsks(kind) ==
  /\ kind \in {"rename", "delete", "purge"} /\ Offered(kind) /\ left.files > 0
  /\ dlg' = [kind |-> kind, name |-> menu.open]
  /\ menu' = [menu EXCEPT !.open = None, !.shown = {}]
  /\ UNCHANGED <<dir, seen, table, reqs, layout, left>>

----------------------------------------------------------------------------
(* Dialogs and bulk operations. *)

NoDlg == [kind |-> "none", name |-> None]

\* RenameModal: any other name; the server decides.
ConfirmRename(m) ==
  /\ dlg.kind = "rename" /\ m # dlg.name /\ Spend("files")
  /\ reqs' = reqs \cup {renameTarget(dlg.name, m)}
  /\ dlg' = NoDlg
  /\ UNCHANGED <<dir, seen, table, menu, layout>>

\* DeleteModal: Archive, or Delete Permanently and Yes.
ConfirmDelete(archive) ==
  /\ dlg.kind = "delete" /\ Spend("files")
  /\ reqs' = reqs \cup {deleteTarget(dlg.name, archive)}
  /\ dlg' = NoDlg
  /\ UNCHANGED <<dir, seen, table, menu, layout>>

\* The dialog stays, and cannot be left, until the answer is there.
ConfirmPurge ==
  /\ dlg.kind = "purge" /\ Spend("files")
  /\ reqs' = reqs \cup {deleteArchivedConfig(dlg.name)}
  /\ dlg' = [dlg EXCEPT !.kind = "purging"]
  /\ UNCHANGED <<dir, seen, table, menu, layout>>

\* A refusal leaves it open for another try.
PurgeAnswered ==
  /\ dlg.kind = "purging" /\ \A r \in reqs : r.op # "purge"
  /\ dlg' \in {NoDlg, [dlg EXCEPT !.kind = "purge"]}
  /\ UNCHANGED <<dir, seen, table, menu, reqs, layout, left>>

CancelDlg ==
  /\ dlg.kind \in {"rename", "delete", "purge"}
  /\ dlg' = NoDlg
  /\ UNCHANGED <<dir, seen, table, menu, reqs, layout, left>>

\* Archive Selected needs active rows only, Unarchive Selected archived ones.
AllSelected(archived) ==
  selectedTargets # {} /\ \A n \in selectedTargets : find(seen.targets, n).archived = archived

handleArchiveSelected ==
  /\ dlg.kind = "none" /\ AllSelected(FALSE) /\ Spend("files")
  /\ reqs' = reqs \cup {deleteTarget(n, TRUE) : n \in selectedTargets}
  /\ UNCHANGED <<dir, seen, table, dlg, menu, layout>>

handleUnarchiveSelected ==
  /\ dlg.kind = "none" /\ AllSelected(TRUE) /\ Spend("files")
  /\ reqs' = reqs \cup {restoreArchivedConfig(n) : n \in selectedTargets}
  /\ UNCHANGED <<dir, seen, table, dlg, menu, layout>>

\* The Upgrade button of a row and the Upgrade menu: All, Outdated, Changed
\* and Selected; only the last takes archived rows along.
UpgradeRow == {{n} : n \in Active(seen.targets)}

UpgradeMenu ==
  LET active == {r \in seen.targets : ~r.archived}
      Of(rs) == {r.name : r \in rs}
  IN {Of(active), Of({r \in active : needsUpdate(r)}), Of({r \in active : hasDriftedConfig(r)}),
      selectedTargets}

Upgrade(ns) ==
  /\ dlg.kind = "none" /\ ns # {} /\ ns \in UpgradeRow \cup UpgradeMenu /\ Spend("files")
  /\ reqs' = reqs \cup compile(ns)
  /\ UNCHANGED <<dir, seen, table, dlg, menu, layout>>

----------------------------------------------------------------------------
(* The column layout: columnVisibility is loaded from localStorage when the   *)
(* tab is mounted, and written back at once and after every change. A flat    *)
(* list is what releases before the known list have left.                     *)

\* Fault: what is not listed as visible is hidden.
loadVisible(release, stored) ==
  [c \in release |-> IF stored = None THEN c \in Shown ELSE c \in stored.visible]

loadColumnVisibility(release, stored) ==
  [c \in release |-> IF stored # None /\ c \in stored.known
                     THEN c \in stored.visible ELSE c \in Shown]

saveColumnVisibility(release, cols) ==
  [known |-> release, visible |-> {c \in release : cols[c]}]

FlatList(cs) == [known |-> cs, visible |-> cs]

\* mine is a ghost: no other page has written the layout since.
Mounted(release, stored) ==
  LET cols == loadColumnVisibility(release, stored)
  IN [release |-> release, cols |-> cols, mine |-> TRUE,
      stored |-> saveColumnVisibility(release, cols)]

ToggleColumn(c) ==
  /\ c \in layout.release /\ Spend("columns")
  /\ LET cols == [layout.cols EXCEPT ![c] = ~@]
     IN layout' = [layout EXCEPT !.cols = cols, !.mine = TRUE,
                                 !.stored = saveColumnVisibility(layout.release, cols)]
  /\ UNCHANGED <<dir, seen, table, dlg, menu, reqs>>

\* The page is loaded again, perhaps from a newer or an older server.
Reload(release) ==
  /\ release \in Releases /\ Spend("columns")
  /\ layout' = Mounted(release, layout.stored)
  /\ UNCHANGED <<dir, seen, table, dlg, menu, reqs>>

\* A page of the same browser, perhaps one of an early release.
OtherPageSaves ==
  /\ Spend("columns")
  /\ \E cs \in SUBSET Columns :
       \E s \in {FlatList(cs)} \cup {[known |-> r, visible |-> r \cap cs] : r \in Releases} :
         layout' = [layout EXCEPT !.stored = s, !.mine = FALSE]
  /\ UNCHANGED <<dir, seen, table, dlg, menu, reqs>>

----------------------------------------------------------------------------
\* The 1 Hz poll. A menu whose row is gone goes with it.
Poll ==
  /\ seen # View
  /\ seen' = View
  /\ LET held == [n \in Names |-> Rendered(n, seen.targets, View.targets)]
         stays == menu.open # None /\ find(View.targets, menu.open) # None
     IN menu' = IF stays
                THEN [menu EXCEPT !.held = held, !.shown = @ \cup {find(View.targets, menu.open).ver}]
                ELSE [open |-> None, held |-> held, shown |-> {}]
  /\ UNCHANGED <<dir, table, dlg, reqs, layout, left>>

Init ==
  /\ files \in [Names -> Docs \cup {None}] /\ arch \in [Names -> Docs \cup {None}]
  /\ \A d \in Docs : Cardinality({n \in Names : files[n] = d}) + Cardinality({n \in Names : arch[n] = d}) = 1
  /\ git \in [on : BOOLEAN, tracked : {{}, {n \in Names : files[n] # None}}]
  /\ git.on \/ git.tracked = {}
  /\ jobs = {} /\ mdns = {}
  /\ dev = [n \in Names |-> [ver |-> Latest, pin |-> None]]
  /\ seen = View
  /\ table = [filter |-> Names, showArchived |-> FALSE, selection |-> {}]
  /\ dlg = NoDlg
  /\ menu = [open |-> None, shown |-> {},
             held |-> [n \in Names |-> IF find(Targets, n) = None THEN None ELSE find(Targets, n).ver]]
  /\ reqs = {}
  /\ layout = Mounted(First, None)
  /\ left \in Budgets

Rows ==
  \/ \E ns \in SUBSET Names : SetFilter(ns) \/ ToggleSelected(ns) \/ Upgrade(ns)
  \/ ShowArchived
  \/ \E n \in Names : OpenMenu(n)
  \/ CloseMenu \/ onArchive \/ handleUnarchive \/ handlePin \/ handleUnpin
  \/ \E kind \in {"rename", "delete", "purge"} : MenuAsks(kind)

Dialogs ==
  \/ \E m \in Names : ConfirmRename(m)
  \/ \E archive \in BOOLEAN : ConfirmDelete(archive)
  \/ ConfirmPurge \/ PurgeAnswered \/ CancelDlg
  \/ handleArchiveSelected \/ handleUnarchiveSelected

Layout ==
  \/ \E c \in Columns : ToggleColumn(c)
  \/ \E r \in Releases : Reload(r)
  \/ OtherPageSaves

Next ==
  \/ Rows \/ Dialogs \/ Layout \/ Poll
  \/ \E r \in reqs : Serve(r)
  \/ \E n \in Names : OthersMove(n) \/ Happens(n)

Spec == Init /\ [][Next]_vars

----------------------------------------------------------------------------
(* Properties *)

Exists(d) == \E n \in Names : d \in {files[n], arch[n]}

\* No configuration is lost: renaming, archiving and restoring, by several
\* people and from old rows, never write over another one. It goes only when a
\* deletion for good of its name is carried out. Left out is the archiving of
\* a file git does not track, which does overwrite.
NothingLost ==
  [][\A d \in Docs : Exists(d) /\ ~Exists(d)' =>
       \/ \E r \in reqs : r.op \in {"delete", "purge"} /\ Serve(r)
                          /\ d = IF r.op = "delete" THEN files[r.name] ELSE arch[r.name]
       \/ \E n \in Names : arch[n] = d /\ n \notin git.tracked /\ arch'[n] = files[n]]_vars

\* "Pin to current" pins a version the row has shown since its menu was
\* opened, although the menu keeps the handler of an earlier render.
PinAsShown ==
  [][handlePin => \E v \in menu.shown : pinTargetVersion(menu.open, Pinned(v)) \in reqs']_vars

\* A release that brings a column shows it as designed, one that keeps it
\* shows it as it was left, whatever the browser has stored before.
ColumnsRemembered ==
  [][\A r \in Releases : Reload(r) /\ layout.mine =>
       \A c \in r : layout'.cols[c] = IF c \in layout.release THEN layout.cols[c]
                                      ELSE c \in Shown]_vars

=============================================================================
