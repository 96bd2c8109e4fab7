---------------------------- MODULE ConfigEditor ----------------------------
(* Editing configurations in the web UI: EditorModal, NewDeviceModal,         *)
(* HistoryPanel, the commit dialogs and the auto-commit switch of the         *)
(* Settings drawer, with the files and the git history behind them. Requests  *)
(* are on their way for a while: they may be lost, and their answers find a   *)
(* page that has moved on.                                                    *)
EXTENDS Integers, Sequences, SequencesExt

CONSTANTS
  Names,     \* devices: <name>.yaml, and .pending.<name>.yaml until first saved
  Texts,     \* contents of configurations
  Stub,      \* what create_stub_yaml writes
  None,      \* the null of the code, and a file that is not there
  MaxCommits, \* bound on the commits per file
  Budgets    \* bounds: how many steps of each kind a behaviour has

ASSUME EditorAssumption ==
  /\ Stub \in Texts /\ None \notin Texts \cup Names \cup (Names \X {"pending", "yaml"})
  /\ MaxCommits \in Nat /\ MaxCommits >= 2
  /\ Budgets \subseteq [{"opens", "types", "saves", "history", "setup", "others", "losses"} -> Nat]

VARIABLES
  disk,     \* per path: its content
  log,      \* per device: the contents committed, oldest first
  timer,    \* devices whose debounced commit is due
  auto,     \* auto_commit_on_save on the server
  git,      \* versioning_enabled on the server, and whether there is a repository
  seen,     \* the page's settings, its list of targets and the dirty ones
  editor,   \* EditorModal; inst counts how often it was mounted
  unsaved,  \* unsavedNewTargetsRef
  reqs,     \* requests on their way
  hist,     \* HistoryPanel
  ask,      \* the Settings dialog "Turn on auto-commit?"
  excused,  \* ghost: devices whose stub has been lost sight of
  left      \* what is left of the budget

files == <<disk, log, timer, auto, git>>
page == <<seen, editor, unsaved, reqs, hist, ask>>
vars == <<files, page, excused, left>>

Staged(n) == <<n, "pending">>
Final(n) == <<n, "yaml">>
Paths == Names \X {"pending", "yaml"}
Name(p) == p[1]

Spend(k) == left[k] > 0 /\ left' = [left EXCEPT ![k] = @ - 1]

----------------------------------------------------------------------------
(* The server: files and git. *)

HEAD(n) == IF log[n] = <<>> THEN None ELSE Last(log[n])
Dirty(n) == disk[Final(n)] # HEAD(n)

\* _versioning_active.
Versioned == git.enabled = "on" /\ git.repo

\* git add and git commit of one path; nothing to commit is no commit.
Committed(n, text) ==
  IF Versioned /\ text # HEAD(n) /\ Len(log[n]) < MaxCommits
  THEN [log EXCEPT ![n] = Append(@, text)] ELSE log

\* commit_file starts the debounce timer again.
Schedule(n) == IF auto THEN timer \cup {n} ELSE timer

\* The first save of a staged file is written under its final name.
SaveOnServer(r) ==
  LET n == Name(r.path)
  IN IF r.path = Staged(n)
     THEN [disk EXCEPT ![Final(n)] = r.value, ![Staged(n)] = None]
     ELSE [disk EXCEPT ![r.path] = r.value]

Refused(r) ==
  CASE r.op = "load" -> disk[r.path] = None
    [] r.op \in {"save", "validate", "close", "upgrade"} ->
         r.path = Staged(Name(r.path)) /\ disk[Final(Name(r.path))] # None
    [] r.op = "create" -> disk[Final(Name(r.path))] # None
    [] r.op = "delete" -> disk[r.path] = None
    [] r.op = "restore" -> ~Versioned \/ disk[r.path] = None
    [] OTHER -> FALSE

\* A request reaches its handler.
Serve(r) ==
  /\ r \in reqs /\ r.stage = "sent"
  /\ LET n == Name(r.path)
         Answer(a) == reqs' = (reqs \ {r}) \cup {a}
         OK == [r EXCEPT !.stage = "ok"]
     IN \/ /\ Refused(r)
           /\ Answer([r EXCEPT !.stage = "error"])
           /\ UNCHANGED <<disk, log, timer>>
        \/ /\ ~Refused(r) /\ r.op = "load"
           /\ Answer([OK EXCEPT !.value = disk[r.path]])
           /\ UNCHANGED <<disk, log, timer>>
        \/ /\ ~Refused(r) /\ r.op \in {"save", "validate", "close", "upgrade"}
           /\ disk' = SaveOnServer(r)
           /\ timer' = IF r.op = "upgrade" THEN Schedule(n) ELSE timer
           /\ Answer(OK) /\ UNCHANGED log
        \/ /\ ~Refused(r) /\ r.op \in {"commit", "committing", "flush"}
           /\ log' = IF r.path = Final(n) THEN Committed(n, disk[r.path]) ELSE log
           /\ Answer(OK) /\ UNCHANGED <<disk, timer>>
        \/ /\ ~Refused(r) /\ r.op = "create"
           /\ disk' = [disk EXCEPT ![r.path] = r.value]
           /\ Answer(OK) /\ UNCHANGED <<log, timer>>
        \/ /\ ~Refused(r) /\ r.op = "delete"
           /\ disk' = [disk EXCEPT ![r.path] = None]
           /\ Answer(OK) /\ UNCHANGED <<log, timer>>
        \/ /\ ~Refused(r) /\ r.op = "restore"
           /\ disk' = [disk EXCEPT ![r.path] = r.value]
           /\ log' = IF auto THEN Committed(n, r.value) ELSE log
           /\ Answer(OK) /\ UNCHANGED timer
  /\ UNCHANGED <<auto, git, seen, editor, unsaved, hist, ask, excused, left>>

\* _delayed_commit, which asks the settings once more.
TimerFires(n) ==
  /\ n \in timer
  /\ timer' = timer \ {n}
  /\ log' = IF auto THEN Committed(n, disk[Final(n)]) ELSE log
  /\ UNCHANGED <<disk, auto, git, page, excused, left>>

----------------------------------------------------------------------------
(* The editor. content is what was last loaded: loading the same text again   *)
(* does not change the buffer, and dirty, the count of changed lines, is      *)
(* computed when the buffer changes or is saved. calm is a ghost: nobody else *)
(* has written the file, and no two requests about it have overlapped.        *)

NoEditor(i) ==
  [inst |-> i, path |-> None, content |-> None, buffer |-> None, saved |-> None,
   dirty |-> FALSE, dlg |-> "none", calm |-> TRUE]

Request(op, path, value) ==
  [op |-> op, path |-> path, value |-> value, stage |-> "sent", inst |-> editor.inst,
   closes |-> path]

Open == editor.path # None
Alive(r) == Open /\ r.inst = editor.inst
About(n) == {r \in reqs : Name(r.path) = n}

\* setEditorTarget: the modal is mounted, or the open one gets another target.
Mounted(p, others) ==
  IF Open THEN [editor EXCEPT !.path = p, !.calm = FALSE]
  ELSE [NoEditor(editor.inst + 1) EXCEPT
          !.path = p,
          !.calm = About(Name(p)) \cap others = {} /\ (p = Final(Name(p)) \/ disk[Final(Name(p))] = None)]

Load(p, i) == [Request("load", p, None) EXCEPT !.inst = i]

\* onClose of a modal that shows p: whichever editor is open goes, and p, when
\* it was never saved, is removed.
CloseBy(p, others, saved) ==
  /\ editor' = NoEditor(editor.inst)
  /\ unsaved' = (unsaved \ saved) \ {p}
  /\ reqs' = others \cup (IF p \in unsaved \ saved THEN {Request("delete", p, None)} ELSE {})
  /\ excused' = IF Open /\ editor.path # p THEN excused \cup {Name(editor.path)} ELSE excused

OpenEditor(n) ==
  /\ ~Open /\ seen.git # "unset" /\ Spend("opens") /\ n \in seen.targets
  /\ editor' = Mounted(Final(n), reqs)
  /\ reqs' = reqs \cup {Load(Final(n), editor.inst + 1)}
  /\ UNCHANGED <<files, seen, unsaved, hist, ask, excused>>

\* NewDeviceModal: a stub, or the text of another device. The window can be
\* dismissed while the request is on its way.
CreateDevice(n, text) ==
  /\ ~Open /\ seen.git # "unset" /\ Spend("opens") /\ n \notin seen.targets
  /\ text = Stub \/ \E m \in seen.targets : text = disk[Final(m)]
  /\ text # None
  /\ reqs' = reqs \cup {Request("create", Staged(n), text)}
  /\ UNCHANGED <<files, seen, editor, unsaved, hist, ask, excused>>

Type(text) ==
  /\ Open /\ editor.dlg = "none" /\ Spend("types") /\ text # editor.buffer
  /\ editor' = [editor EXCEPT !.buffer = text, !.dirty = text # editor.saved]
  /\ UNCHANGED <<files, seen, unsaved, reqs, hist, ask, excused>>

Send(op) ==
  /\ Spend("saves") /\ editor.buffer # None
  /\ reqs' = reqs \cup {Request(op, editor.path, editor.buffer)}
  /\ editor' = [editor EXCEPT !.calm = @ /\ About(Name(editor.path)) = {},
                              !.dlg = IF @ = "none" THEN @ ELSE "busy"]
  /\ UNCHANGED <<files, seen, unsaved, hist, ask, excused>>

\* Save and Ctrl+S; Validate saves as well.
handleSave == Open /\ editor.dlg = "none" /\ Send("save")

Validate == Open /\ editor.dlg = "none" /\ Send("validate")

\* Save & Close asks for a message when auto-commit is off, Save & Upgrade
\* when it is on.
Prompted(op) == op = (IF seen.auto THEN "upgrade" ELSE "close")

AskMessage(op) ==
  /\ Prompted(op) /\ left.saves > 0
  /\ editor' = [editor EXCEPT !.dlg = op]
  /\ UNCHANGED <<files, seen, unsaved, reqs, hist, ask, excused, left>>

onSaveAndCloseClicked ==
  /\ Open /\ editor.dlg = "none"
  /\ (~Prompted("close") /\ Send("close")) \/ AskMessage("close")

onSaveAndUpgradeClicked ==
  /\ Open /\ editor.dlg = "none"
  /\ (~Prompted("upgrade") /\ Send("upgrade")) \/ AskMessage("upgrade")

confirmCommitDialog(op) == Open /\ editor.dlg = op /\ op \in {"close", "upgrade"} /\ Send(op)

DismissDialog ==
  /\ Open /\ editor.dlg \in {"close", "upgrade", "confirm"}
  /\ editor' = [editor EXCEPT !.dlg = "none"]
  /\ UNCHANGED <<files, seen, unsaved, reqs, hist, ask, excused, left>>

\* Close, at once or after "Unsaved Changes".
CloseClicked ==
  /\ Open /\ editor.dlg \in {"none", "confirm"}
  /\ \/ /\ editor.dlg = "none" /\ editor.dirty
        /\ editor' = [editor EXCEPT !.dlg = "confirm"]
        /\ UNCHANGED <<unsaved, reqs, excused>>
     \/ /\ editor.dlg = "confirm" \/ ~editor.dirty
        /\ CloseBy(editor.path, reqs, {})
  /\ UNCHANGED <<files, seen, hist, ask, left>>

----------------------------------------------------------------------------
(* Answers. *)

\* What a modal that still lives makes of the answer to its load: the buffer
\* follows a changed content only.
Loaded(r) ==
  LET new == r.value # editor.content
  IN [editor EXCEPT !.content = r.value, !.saved = r.value,
                    !.buffer = IF new THEN r.value ELSE @,
                    !.dirty = IF new THEN FALSE ELSE @]

\* Fault: the buffer as it is when the answer comes counts as saved.
SavedAsShown(r) ==
  IF Alive(r) THEN [editor EXCEPT !.saved = editor.buffer, !.dirty = FALSE] ELSE editor

\* savedContentRef takes the text that was sent; what was typed since is dirty.
Saved(r) ==
  IF Alive(r) THEN [editor EXCEPT !.saved = r.value,
                                  !.dirty = IF r.op \in {"save", "validate"}
                                            THEN editor.buffer # r.value ELSE @]
  ELSE editor

\* Fault: the commit is asked for under the name that was opened.
openedTarget(r) == r.path

\* renamedTo, or the target itself.
finalTarget(r) == Final(Name(r.path))

\* Fault: a save that is on its way, or was refused, counts as saved.
savedSoFar(r) == {r.path}

\* onSaved is called when the save has succeeded.
savedPaths(r) == IF r.stage = "ok" /\ r.op # "validate" THEN {r.path} ELSE {}

DlgDone(e, r) == IF Alive(r) /\ e.dlg = "busy" THEN [e EXCEPT !.dlg = "none"] ELSE e

\* The answer to a load; the modal gives up when there is none.
LoadAnswered(r, rest) ==
  /\ r.op = "load"
  /\ \/ /\ r.stage = "ok"
        /\ editor' = IF Alive(r) THEN Loaded(r) ELSE editor
        /\ reqs' = rest /\ UNCHANGED <<unsaved, excused>>
     \/ r.stage = "error" /\ CloseBy(r.closes, rest, {})

\* Save and Validate are through; so is a save that has failed.
SaveAnswered(r, rest) ==
  /\ r.op \in {"save", "validate"} \/ (r.op \in {"close", "upgrade"} /\ r.stage = "error")
  /\ editor' = IF r.stage = "ok" THEN Saved(r) ELSE DlgDone(editor, r)
  /\ unsaved' = unsaved \ savedPaths(r)
  /\ reqs' = rest /\ UNCHANGED excused

\* Save & Close commits what it has saved, then closes; on an error it stays.
handleSaveAndClose(r, rest) ==
  \/ /\ r.op = "close" /\ r.stage = "ok"
     /\ editor' = Saved(r)
     /\ unsaved' = unsaved \ savedPaths(r)
     /\ reqs' = rest \cup {[r EXCEPT !.op = "committing", !.path = finalTarget(r),
                                    !.stage = "sent"]}
     /\ UNCHANGED excused
  \/ /\ r.op = "committing" /\ r.stage = "ok"
     /\ CloseBy(r.closes, rest, {})
  \/ /\ r.op = "committing" /\ r.stage = "error"
     /\ editor' = DlgDone(editor, r)
     /\ reqs' = rest /\ UNCHANGED <<unsaved, excused>>

\* Save & Upgrade closes at once; the Upgrade window comes next.
handleSaveAndUpgrade(r, rest) ==
  /\ r.op = "upgrade" /\ r.stage = "ok"
  /\ CloseBy(r.path, rest, savedPaths(r))

\* A new device is opened in the editor, in place of what it shows by now.
DeviceCreated(r, rest) ==
  /\ r.op = "create" /\ r.stage = "ok"
  /\ unsaved' = unsaved \cup {r.path}
  /\ editor' = Mounted(r.path, rest)
  /\ reqs' = {IF Alive(q) /\ q.op = "load" THEN [q EXCEPT !.closes = r.path] ELSE q : q \in rest}
             \cup {Load(r.path, editor'.inst)}
  /\ excused' = IF Open THEN excused \cup {Name(editor.path)} ELSE excused

\* onFileChanged makes an editor of the same file load it again.
onFileChanged(r, rest) ==
  /\ r.op = "restore" /\ r.stage = "ok"
  /\ reqs' = IF Open /\ editor.path = r.path
             THEN rest \cup {Load(r.path, editor.inst)} ELSE rest
  /\ UNCHANGED <<editor, unsaved, excused>>

\* The answer makes a toast and nothing else.
Toasted(r, rest) ==
  /\ \/ r.op \in {"delete", "commit", "flush"}
     \/ r.op \in {"create", "restore"} /\ r.stage = "error"
  /\ reqs' = rest /\ UNCHANGED <<editor, unsaved, excused>>

Answered(r) ==
  /\ r \in reqs /\ r.stage # "sent"
  /\ LET rest == reqs \ {r}
     IN \/ LoadAnswered(r, rest) \/ SaveAnswered(r, rest) \/ handleSaveAndClose(r, rest)
        \/ handleSaveAndUpgrade(r, rest) \/ DeviceCreated(r, rest)
        \/ onFileChanged(r, rest) \/ Toasted(r, rest)
  /\ UNCHANGED <<files, seen, hist, ask, left>>

\* A request is lost on its way, or its answer is: the page hears of a failure.
Lost(r) ==
  /\ r \in reqs /\ r.stage # "error" /\ Spend("losses")
  /\ reqs' = (reqs \ {r}) \cup {[r EXCEPT !.stage = "error"]}
  /\ excused' = IF r.op \in {"create", "delete"} THEN excused \cup {Name(r.path)} ELSE excused
  /\ editor' = IF Open /\ Name(editor.path) = Name(r.path)
               THEN [editor EXCEPT !.calm = FALSE] ELSE editor
  /\ UNCHANGED <<files, seen, unsaved, hist, ask>>

----------------------------------------------------------------------------
(* HistoryPanel. A commit is its place in the log of the file; From and To    *)
(* hold one, or the working tree. due are the effects the next render runs,   *)
(* rounds a ghost: the renders since something happened.                      *)

WORKING_TREE == MaxCommits + 1
Elsewhere == MaxCommits + 2    \* a commit that is not in the history of the file

NoHist == [file |-> None]

Known(h, entries) == h \in 1..entries

\* Fault: a greater index in the list, which starts with the newest, is newer.
greaterIndex(a, b, entries) ==
  /\ a # b
  /\ \/ a = WORKING_TREE
     \/ /\ b # WORKING_TREE /\ entries # -1
        /\ Known(a, entries) /\ (Known(b, entries) => a < b)

\* compareRecency(a, b) > 0. entries = -1 before the list has come.
newer(a, b, entries) ==
  /\ a # b
  /\ \/ a = WORKING_TREE
     \/ /\ b # WORKING_TREE /\ entries # -1
        /\ Known(a, entries) /\ (Known(b, entries) => a > b)

\* From the tabs, with a commit to compare with or none, or from the editor.
OpenHistory(n, link) ==
  /\ hist = NoHist /\ seen.git = "on" /\ Spend("history")
  /\ Open => editor.path = Final(n) /\ link = 0
  /\ hist' = [file |-> n, link |-> link, entries |-> -1, from |-> 0, to |-> WORKING_TREE,
              due |-> {"swap", "preset"}, rounds |-> 0]
  /\ UNCHANGED <<files, seen, editor, unsaved, reqs, ask, excused>>

CloseHistory ==
  /\ hist # NoHist
  /\ hist' = NoHist
  /\ UNCHANGED <<files, seen, editor, unsaved, reqs, ask, excused, left>>

HistoryArrives ==
  /\ hist # NoHist /\ hist.entries # Len(log[hist.file])
  /\ hist' = [hist EXCEPT !.entries = Len(log[hist.file]), !.due = {"swap", "preset"},
                          !.rounds = 0]
  /\ UNCHANGED <<files, seen, editor, unsaved, reqs, ask, excused, left>>

Pick(from, to) ==
  /\ hist # NoHist /\ hist.due = {} /\ hist.entries > 0 /\ Spend("history")
  /\ <<from, to>> # <<hist.from, hist.to>>
  /\ hist' = [hist EXCEPT !.from = from, !.to = to, !.due = {"swap"}, !.rounds = 0]
  /\ UNCHANGED <<files, seen, editor, unsaved, reqs, ask, excused>>

\* The two dropdowns.
HashPicker(h) ==
  /\ hist # NoHist /\ h \in 1..hist.entries \cup {WORKING_TREE}
  /\ Pick(h, hist.to) \/ Pick(hist.from, h)

\* A click on a commit compares it with the one before.
ClickCommit(h) ==
  hist # NoHist /\ h \in 1..hist.entries /\ Pick(IF h = 1 THEN 1 ELSE h - 1, h)

\* The effects of one render, in their order: the pair is swapped when From is
\* newer, then the preset is applied when the list has changed.
Effects ==
  /\ hist # NoHist /\ hist.due # {}
  /\ LET e == hist.entries
         swap == "swap" \in hist.due /\ hist.from # 0 /\ newer(hist.from, hist.to, e)
         f1 == IF swap THEN hist.to ELSE hist.from
         t1 == IF swap THEN hist.from ELSE hist.to
         f2 == IF "preset" \notin hist.due THEN f1
               ELSE IF e <= 0 \/ (hist.link # 0 /\ Known(hist.link, e)) THEN hist.link
               ELSE IF Known(f1, e) THEN f1 ELSE e
         t2 == IF "preset" \in hist.due /\ (e <= 0 \/ ~Known(t1, e)) THEN WORKING_TREE ELSE t1
     IN hist' = [hist EXCEPT !.from = f2, !.to = t2, !.rounds = @ + 1,
                             !.due = IF <<f2, t2>> = <<hist.from, hist.to>> THEN {} ELSE {"swap"}]
  /\ UNCHANGED <<files, seen, editor, unsaved, reqs, ask, excused, left>>

\* A request about a file the editor shows, beside others about it, or while
\* the editor goes by the staged name.
Beside(n) ==
  IF Open /\ Name(editor.path) = n /\ (About(n) # {} \/ editor.path # Final(n))
  THEN [editor EXCEPT !.calm = FALSE] ELSE editor

handleRollback(k) ==
  /\ hist # NoHist /\ Known(k, hist.entries) /\ Spend("history")
  /\ log[hist.file][k] # None
  /\ reqs' = reqs \cup {Request("restore", Final(hist.file), log[hist.file][k])}
  /\ editor' = Beside(hist.file)
  /\ UNCHANGED <<files, seen, unsaved, hist, ask, excused>>

Commit(ns) ==
  /\ ns # {} /\ Spend("history")
  /\ reqs' = reqs \cup {Request("commit", Final(n), None) : n \in ns}
  /\ UNCHANGED <<files, seen, editor, unsaved, hist, ask, excused>>

\* "Commit..." of the panel, of a row, and of all dirty rows at once.
handleManualCommit == hist # NoHist /\ Commit({hist.file})

CommitRow(n) == hist = NoHist /\ ~Open /\ n \in seen.dirty /\ Commit({n})

handleCommitAll == hist = NoHist /\ ~Open /\ Commit(seen.dirty)

----------------------------------------------------------------------------
(* The Settings drawer and the versioning question of the first start. *)

Patched(b) == auto' = b /\ seen' = [seen EXCEPT !.auto = b]

\* Turning auto-commit on with dirty files asks what to do with them.
ToggleAuto ==
  /\ ~Open /\ hist = NoHist /\ ask = "none" /\ seen.git = "on" /\ Spend("setup")
  /\ IF ~seen.auto /\ seen.dirty # {}
     THEN ask' = "open" /\ UNCHANGED <<auto, seen>>
     ELSE Patched(~seen.auto) /\ UNCHANGED ask
  /\ UNCHANGED <<disk, log, timer, git, editor, unsaved, reqs, hist, excused>>

TurnOnAnyway ==
  /\ ask = "open"
  /\ Patched(TRUE) /\ ask' = "none"
  /\ UNCHANGED <<disk, log, timer, git, editor, unsaved, reqs, hist, excused, left>>

CommitAndTurnOn ==
  /\ ask = "open"
  /\ ask' = "busy"
  /\ reqs' = reqs \cup {Request("flush", Final(n), None) : n \in seen.dirty}
  /\ UNCHANGED <<files, seen, editor, unsaved, hist, excused, left>>

\* Once every commit has been answered, well or badly.
TurnOnAfterCommits ==
  /\ ask = "busy" /\ \A r \in reqs : r.op # "flush"
  /\ \/ Patched(TRUE) /\ ask' = "none"
     \/ ask' = "open" /\ UNCHANGED <<auto, seen>>
  /\ UNCHANGED <<disk, log, timer, git, editor, unsaved, reqs, hist, excused, left>>

DismissAsk ==
  /\ ask = "open"
  /\ ask' = "none"
  /\ UNCHANGED <<files, seen, editor, unsaved, reqs, hist, excused, left>>

\* VersioningOnboardingModal, which covers the page, and the switch in the
\* drawer; without a repository there is one with everything committed.
SetVersioning(v) ==
  /\ \/ git.enabled = "unset"
     \/ seen.git # "unset" /\ ~Open /\ hist = NoHist /\ v # seen.git /\ Spend("setup")
  /\ git' = [enabled |-> v, repo |-> git.repo \/ v = "on"]
  /\ log' = IF v = "on" /\ ~git.repo
            THEN [n \in Names |-> IF disk[Final(n)] = None THEN <<>> ELSE <<disk[Final(n)]>>]
            ELSE log
  /\ seen' = [seen EXCEPT !.git = v]
  /\ git.enabled = "unset" => UNCHANGED left
  /\ UNCHANGED <<disk, timer, auto, editor, unsaved, reqs, hist, ask, excused>>

----------------------------------------------------------------------------
View == [auto |-> auto, git |-> git.enabled,
         targets |-> {n \in Names : disk[Final(n)] # None},
         dirty |-> IF Versioned THEN {n \in Names : Dirty(n)} ELSE {}]

Poll ==
  /\ seen # View
  /\ seen' = View
  /\ UNCHANGED <<files, editor, unsaved, reqs, hist, ask, excused, left>>

\* Another page, a shell or a file share writes or removes a configuration.
OthersWrite(n, text) ==
  /\ Spend("others") /\ text # disk[Final(n)]
  /\ disk' = [disk EXCEPT ![Final(n)] = text]
  /\ editor' = IF Open /\ Name(editor.path) = n THEN [editor EXCEPT !.calm = FALSE] ELSE editor
  /\ excused' = IF text = None THEN excused \cup {n} ELSE excused
  /\ UNCHANGED <<log, timer, auto, git, seen, unsaved, reqs, hist, ask>>

Init ==
  /\ \E there \in SUBSET Names :
       disk = [p \in Paths |-> IF p[2] = "yaml" /\ p[1] \in there THEN Stub ELSE None]
  /\ git \in {[enabled |-> "unset", repo |-> FALSE], [enabled |-> "on", repo |-> TRUE]}
  /\ \E past \in {<<>>} \cup {<<text>> : text \in Texts \ {Stub}} :
       log = [n \in Names |-> IF git.repo /\ disk[Final(n)] # None
                              THEN Append(past, disk[Final(n)]) ELSE <<>>]
  /\ timer = {} /\ auto \in BOOLEAN
  /\ seen = View
  /\ editor = NoEditor(0) /\ unsaved = {} /\ reqs = {} /\ hist = NoHist /\ ask = "none"
  /\ excused = {} /\ left \in Budgets

Editing ==
  \/ \E n \in Names : OpenEditor(n) \/ \E text \in Texts : CreateDevice(n, text)
  \/ \E text \in Texts : Type(text)
  \/ handleSave \/ Validate \/ onSaveAndCloseClicked \/ onSaveAndUpgradeClicked
  \/ \E op \in {"close", "upgrade"} : confirmCommitDialog(op)
  \/ DismissDialog \/ CloseClicked

History ==
  \/ \E n \in Names, link \in {0, Elsewhere} \cup 1..MaxCommits : OpenHistory(n, link)
  \/ CloseHistory \/ HistoryArrives \/ Effects
  \/ \E h \in 1..WORKING_TREE : HashPicker(h) \/ ClickCommit(h)
  \/ \E k \in 1..MaxCommits : handleRollback(k)
  \/ \E n \in Names : CommitRow(n)
  \/ handleManualCommit \/ handleCommitAll

Settings ==
  \/ ToggleAuto \/ TurnOnAnyway \/ CommitAndTurnOn \/ TurnOnAfterCommits \/ DismissAsk
  \/ \E v \in {"on", "off"} : SetVersioning(v)

Next ==
  \/ Editing \/ History \/ Settings \/ Poll
  \/ \E r \in reqs : Serve(r) \/ Answered(r) \/ Lost(r)
  \/ \E n \in Names : TimerFires(n) \/ \E text \in Texts \cup {None} : OthersWrite(n, text)

Spec == Init /\ [][Next]_vars

----------------------------------------------------------------------------
(* Properties *)

\* When the editor has nothing on its way and shows the text it believes to be
\* saved, that text is in the file, whatever was typed while requests were on
\* their way. Left out are files somebody else has written, requests of the
\* editor that overlapped or were lost, and a version brought back while the
\* editor of a new device goes by the staged name: App.tsx compares the names.
CleanMeansSaved ==
  Open /\ editor.calm /\ About(Name(editor.path)) = {} /\ editor.buffer = editor.saved =>
    LET n == Name(editor.path)
    IN editor.buffer = (IF disk[Final(n)] # None THEN disk[Final(n)] ELSE disk[Staged(n)])

\* The stub of a new device that was never saved goes with the editor, however
\* it is closed: a save under way, refused or repeated leaves none behind. Left
\* out are lost requests, editors closed by the answer to another one, and files
\* somebody else removes: their stub may come back under the same name while the
\* answer to an old save is on its way.
NoOrphanStub ==
  \A n \in Names \ excused :
    disk[Staged(n)] # None => (Open /\ editor.path = Staged(n)) \/ About(n) # {}

\* What Save & Close commits is the text it saved, under the name the first
\* save of a new device gives the file.
CommitsWhatWasSaved ==
  [][\A r \in reqs : Serve(r) /\ r.op = "committing" /\ Alive(r) /\ editor.calm /\ Versioned =>
       LET n == Name(r.path)
       IN Len(log[n]) = MaxCommits \/ (log'[n] # <<>> /\ Last(log'[n]) = r.value)]_vars

\* The effects of the panel settle within three renders, and then the older
\* version is on the left.
OlderOnLeft ==
  hist # NoHist =>
    /\ hist.rounds <= 3
    /\ hist.due = {} /\ hist.from # 0 /\ hist.entries >= 0 =>
         \/ hist.from = hist.to \/ hist.to = WORKING_TREE
         \/ hist.from < hist.to

=============================================================================
