----------------------------- MODULE FleetPage -----------------------------
(* The page of the web UI against the server: App.tsx with the Queue,         *)
(* Devices, Workers and Schedules tabs, the Upgrade window, the routing-rule  *)
(* and tag windows. The page acts on what its last polls brought, several     *)
(* requests make up one operation, and other people edit meanwhile.           *)
EXTENDS FleetServer

CONSTANTS
  DeviceTags, WorkerTags, \* tags somebody may give to devices and to workers
  Filters,   \* tag expressions the user may write
  MaxSlots,  \* the most slots a worker may have, 32 in the code
  Budgets    \* bounds: how many operations of each kind a behaviour has

ASSUME PageAssumption ==
  /\ DeviceTags \cup WorkerTags \subseteq Tags
  /\ Filters \subseteq Clause
  /\ MaxSlots \in Nat \ {0}
  /\ Budgets \subseteq [{"queue", "compile", "bulk", "edits", "setup", "others",
                   "claims"} -> Nat]

VARIABLES
  seen,  \* what the page last read of the server
  dlg,   \* the window on top of the tabs
  task,  \* the operation whose requests are on their way
  left   \* what is left of the budget

vars == <<server, seen, dlg, task, left>>

View == [rows |-> rows, dev |-> dev, fleet |-> fleet, rules |-> rules, default |-> default]

NoDlg == [kind |-> "none"]
NoTask == [kind |-> "none"]
NoSeed == [pin |-> None, filter |-> NoFilter]
NoRules == [k \in {} |-> k]

\* The user acts: one operation at a time has requests on their way.
Spend(k) == left[k] > 0 /\ left' = [left EXCEPT ![k] = @ - 1]
Click(k) == task = NoTask /\ Spend(k)
AtTabs == dlg = NoDlg

----------------------------------------------------------------------------
(* Polling. Queue, devices and workers are read every second, the versions    *)
(* now and then; the routing rules when a window that needs them opens,       *)
(* unless they were read within the last two seconds.                         *)

Poll(k) ==
  /\ seen[k] # View[k]
  /\ seen' = [seen EXCEPT ![k] = View[k]]
  /\ UNCHANGED <<server, dlg, task, left>>

\* A deep link to a rule jumps into the builder each time the list changes.
RulesArrive ==
  /\ dlg.kind \in {"upgrade", "rules"} /\ dlg.fetch
  /\ seen' = [seen EXCEPT !.rules = rules]
  /\ dlg' = IF dlg.kind = "rules" /\ dlg.link \in DOMAIN rules
            THEN [dlg EXCEPT !.fetch = FALSE, !.mode = "edit", !.rule = rules[dlg.link]]
            ELSE [dlg EXCEPT !.fetch = FALSE]
  /\ UNCHANGED <<server, task, left>>

----------------------------------------------------------------------------
(* The Queue tab. A request changes the rows and the queue is read again; if  *)
(* its answer is lost, the next poll does so.                                 *)

Answered(R) == seen' \in {seen, [seen EXCEPT !.rows = R]}

QueueRequest(R) ==
  /\ Click("queue") /\ AtTabs
  /\ rows' = R
  /\ Answered(R)
  /\ UNCHANGED <<next, dev, fleet, rules, default, dlg, task>>

\* The buttons of a row.
ClearRow(i) ==
  /\ i \in Ids(seen.rows) /\ isJobFinished(seen.rows[i])
  /\ QueueRequest(RemoveJobs({i}))

CancelRow(i) ==
  /\ i \in Ids(seen.rows) /\ isJobInProgress(seen.rows[i])
  /\ QueueRequest(Cancel({i}))

\* Rerun of one row goes through the Upgrade window.
RerunRow(i) ==
  /\ AtTabs /\ left.compile > 0 /\ i \in Ids(seen.rows) /\ isJobRetryable(seen.rows[i])
  /\ dlg' \in [kind : {"upgrade"}, targets : {{seen.rows[i].target}}, fetch : BOOLEAN,
               seed : {[pin |-> seen.rows[i].pin, filter |-> seen.rows[i].filter]}]
  /\ UNCHANGED <<server, seen, task, left>>

\* The toolbar: selected rows, whatever their state, and whole classes.
ClearSelected(ids) == QueueRequest(RemoveJobs(ids))
CancelSelected(ids) == QueueRequest(Cancel(ids))

ClearSucceeded ==
  /\ \E i \in Ids(seen.rows) : isJobSuccessful(seen.rows[i])
  /\ QueueRequest(Clear({"success"}, TRUE))

ClearFinished ==
  /\ \E i \in Ids(seen.rows) : isJobFinished(seen.rows[i])
  /\ QueueRequest(Clear(Terminal, FALSE))

RerunRequest(ids) ==
  /\ Click("queue") /\ AtTabs
  /\ Retry(ids)
  /\ Answered(rows')
  /\ UNCHANGED <<dev, fleet, rules, default, dlg, task>>

RerunSelected(ids) ==
  /\ Cardinality(ids) > 1 /\ \A i \in ids : isJobRetryable(seen.rows[i])
  /\ RerunRequest(ids)

RerunAllFailed ==
  /\ \E i \in Ids(seen.rows) : isJobFailed(seen.rows[i])
  /\ RerunRequest(AllFailed)

\* Clear Entire Queue: what the page shows as pending or working is cancelled,
\* then everything that has ended is cleared.
ClearAll ==
  /\ Click("queue") /\ AtTabs /\ Ids(seen.rows) # {}
  /\ LET active == {i \in JobIds : seen.rows[i].state \in {"pending", "working"}}
     IN task' = [kind |-> "clear", ids |-> active,
                 stage |-> IF active = {} THEN "clear" ELSE "cancel"]
  /\ UNCHANGED <<server, seen, dlg>>

ClearAllCancels ==
  /\ task.kind = "clear" /\ task.stage = "cancel"
  /\ rows' = Cancel(task.ids)
  /\ task' = [task EXCEPT !.stage = "clear"]
  /\ UNCHANGED <<next, dev, fleet, rules, default, seen, dlg, left>>

ClearAllClears ==
  /\ task.kind = "clear" /\ task.stage = "clear"
  /\ rows' = Clear(Terminal, FALSE)
  /\ Answered(rows')
  /\ task' = NoTask
  /\ UNCHANGED <<next, dev, fleet, rules, default, dlg, left>>

ClearAllFails ==
  /\ task.kind = "clear"
  /\ task' = NoTask
  /\ UNCHANGED <<server, seen, dlg, left>>

----------------------------------------------------------------------------
(* The Upgrade window: what it offers and what it makes of the answers. *)

eligibleWorkers == {w \in Workers : Builds(seen.fleet[w])}

\* Worker choices: any worker, one of the list or the one of the job that is
\* run again, a tag expression.
WorkerChoices ==
  {NoSeed}
  \cup {[pin |-> w, filter |-> NoFilter] : w \in (eligibleWorkers \cup {dlg.seed.pin}) \ {None}}
  \cup {[pin |-> None, filter |-> f] : f \in (Filters \cup {dlg.seed.filter}) \ {NoFilter}}

\* A tag expression can meet a clause of a rule: it asks for all its tags, or
\* some worker of the list satisfies both.
clauseSatisfiesAllOf(clause, filter) ==
  filter.op = "all_of" /\ clause.op = "all_of" /\ clause.tags \subseteq filter.tags

tagFilterCanSatisfyRuleClause(clause, filter) ==
  \/ clauseSatisfiesAllOf(clause, filter)
  \/ \E w \in eligibleWorkers : /\ EvaluateClause(filter, seen.fleet[w].tags)
                                /\ EvaluateClause(clause, seen.fleet[w].tags)

\* Fault: only the first device of the selection is looked at.
conflictOfFirst(choice, targets) ==
  LET t == CHOOSE t \in targets : TRUE
  IN \E k \in DOMAIN seen.rules :
       /\ MatchesSide(seen.rules[k].device, seen.dev[t].tags)
       /\ choice.pin # None
       /\ ~MatchesSide(seen.rules[k].worker, seen.fleet[choice.pin].tags)

\* The rules that fire for a target and that the choice does not satisfy.
hasConflict(choice, targets) ==
  \E t \in targets, k \in DOMAIN seen.rules :
    LET rule == seen.rules[k]
    IN /\ MatchesSide(rule.device, seen.dev[t].tags)
       /\ \/ /\ choice.pin # None
             /\ ~MatchesSide(rule.worker, seen.fleet[choice.pin].tags)
          \/ /\ choice.filter # NoFilter
             /\ \E c \in rule.worker : ~tagFilterCanSatisfyRuleClause(c, choice.filter)

\* Fault: a pin is never brought along.
pinLeftAlone(targets, version, download) == None

\* A pin is moved along when a single pinned device is upgraded to another
\* version than its pin.
updatePin(targets, version, download) ==
  IF /\ Cardinality(targets) = 1 /\ ~download /\ version # None
     /\ \A t \in targets : seen.dev[t].pin \notin {None, version}
  THEN version ELSE None

\* "Current" is no version at all; "Other" is any of the list.
VersionChoices == Versions \cup {None}

OpenUpgrade(targets) ==
  /\ AtTabs /\ left.compile + left.bulk > 0
  /\ dlg' \in [kind : {"upgrade"}, targets : {targets}, seed : {NoSeed}, fetch : BOOLEAN]
  /\ UNCHANGED <<server, seen, task, left>>

\* "Schedule Selected..." of the Devices tab: the same window without its
\* version part.
OpenBulkSchedule(targets) ==
  /\ AtTabs /\ left.bulk > 0
  /\ dlg' = [kind |-> "bulk", targets |-> targets]
  /\ UNCHANGED <<server, seen, task, left>>

CloseDlg ==
  /\ dlg # NoDlg /\ (dlg.kind = "install" => task.kind # "compile")
  /\ dlg' = NoDlg
  /\ UNCHANGED <<server, seen, task, left>>

----------------------------------------------------------------------------
(* handleConfirm and handleUpgradeConfirm. version = None is "Current". The   *)
(* default is sent as no version at all.                                      *)

ConfirmNow(choice, version, download) ==
  /\ Click("compile") /\ dlg.kind = "upgrade"
  /\ LET pinTo == updatePin(dlg.targets, version, download)
     IN task' = [kind |-> "compile", stage |-> IF pinTo = None THEN "post" ELSE "pin",
                 targets |-> dlg.targets, todo |-> dlg.targets, pinTo |-> pinTo,
                 base |-> None, chosen |-> version,
                 q |-> [pin |-> choice.pin, filter |-> choice.filter,
                        version |-> IF version = seen.default THEN None ELSE version,
                        download_only |-> download, address |-> FALSE,
                        bypass |-> hasConflict(choice, dlg.targets)],
                 fresh |-> [View EXCEPT !.rows = <<>>] = [seen EXCEPT !.rows = <<>>]]
  /\ dlg' = NoDlg
  /\ UNCHANGED <<server, seen>>

\* InstallToAddressModal: an address that was edited is asked for twice. The
\* window stays until the answer has come.
OpenInstall(t) ==
  /\ AtTabs /\ left.compile > 0
  /\ dlg' = [kind |-> "install", targets |-> {t}, confirming |-> FALSE]
  /\ UNCHANGED <<server, seen, task, left>>

handlePrimary(edited) ==
  /\ dlg.kind = "install" /\ edited /\ ~dlg.confirming /\ task = NoTask
  /\ dlg' = [dlg EXCEPT !.confirming = TRUE]
  /\ UNCHANGED <<server, seen, task, left>>

fireInstall(edited) ==
  /\ dlg.kind = "install" /\ Click("compile") /\ (edited => dlg.confirming)
  /\ task' = [kind |-> "compile", stage |-> "post", targets |-> dlg.targets,
              todo |-> dlg.targets, pinTo |-> None, base |-> None, chosen |-> None,
              q |-> [pin |-> None, filter |-> NoFilter, version |-> None,
                     download_only |-> FALSE, address |-> TRUE, bypass |-> FALSE],
              fresh |-> FALSE]
  /\ UNCHANGED <<server, seen, dlg>>

CompilePins ==
  /\ task.kind = "compile" /\ task.stage = "pin"
  /\ \E t \in task.targets : dev' = PinVersion(t, task.pinTo)
  /\ task' = [task EXCEPT !.stage = "post"]
  /\ UNCHANGED <<rows, next, fleet, rules, default, seen, dlg, left>>

\* start_compile reads the default once and goes through the targets one by
\* one, with an await before each.
CompileArrives ==
  /\ task.kind = "compile" /\ task.stage = "post"
  /\ task' = [task EXCEPT !.stage = "loop", !.base = default]
  /\ UNCHANGED <<server, seen, dlg, left>>

CompileEnqueues(t) ==
  /\ task.kind = "compile" /\ task.stage = "loop" /\ t \in task.todo
  /\ Enqueue(t, task.q, task.base)
  /\ task' = [task EXCEPT !.todo = @ \ {t}]
  /\ UNCHANGED <<dev, fleet, rules, default, seen, dlg, left>>

\* The queue is read again, but for an install; how the log of a single job opens is LogViewer.
CompileLands ==
  /\ task.kind = "compile" /\ task.todo = {}
  /\ task' = NoTask
  /\ IF task.q.address THEN dlg' = NoDlg /\ UNCHANGED seen
     ELSE seen' = [seen EXCEPT !.rows = rows] /\ UNCHANGED dlg
  /\ UNCHANGED <<server, left>>

CompileFails ==
  /\ task.kind = "compile" /\ (task.stage # "loop" \/ task.todo = {})
  /\ task' = NoTask
  /\ UNCHANGED <<server, seen, dlg, left>>

----------------------------------------------------------------------------
(* Operations on several devices: one chain of requests per device, all at    *)
(* once, and a success only when none of them has failed. touched is a ghost: *)
(* devices the page did not see as they were, or that others have edited.     *)

Fan(op, targets, first, arg) ==
  task' = [kind |-> "fan", op |-> op, st |-> [t \in targets |-> first], arg |-> arg,
           apply |-> first = "version",
           pins |-> [t \in targets |-> seen.dev[t].pin],
           touched |-> {t \in targets : seen.dev[t] # dev[t]}]

\* onSaveSchedule and onSaveOnce; the window stays open until they are through.
SaveSchedule(op, version) ==
  /\ Click("bulk")
  /\ \/ /\ dlg.kind = "upgrade"
        /\ Fan(op, dlg.targets, "version", version)
     \/ /\ dlg.kind = "bulk" /\ version = None
        /\ Fan(op, dlg.targets, "write", version)
  /\ UNCHANGED <<server, seen, dlg>>

Scheduled(t) == seen.dev[t].cron \/ seen.dev[t].once

\* Schedules tab, Devices tab, and "Remove existing schedule" of the window,
\* which closes it at once.
RemoveSchedules(targets) ==
  /\ Click("bulk") /\ targets # {} /\ \A t \in targets : Scheduled(t)
  /\ \/ AtTabs
     \/ dlg.kind = "upgrade" /\ dlg.targets = targets /\ Cardinality(targets) = 1
  /\ Fan("unschedule", targets, "write", None)
  /\ dlg' = NoDlg
  /\ UNCHANGED <<server, seen>>

\* TagsEditDialog of the Devices tab replaces the tags of one device.
SaveTags(t, tags) ==
  /\ Click("bulk") /\ AtTabs
  /\ Fan("tags", {t}, "write", [s \in {t} |-> tags])
  /\ UNCHANGED <<server, seen, dlg>>

\* BulkTagsEditDialog sends to each device the tags the page knows, without
\* some and with others.
SaveBulkTags(targets, remove, add) ==
  /\ Click("bulk") /\ AtTabs /\ targets # {}
  /\ Fan("tags", targets, "write",
         [t \in targets |-> (seen.dev[t].tags \ remove) \cup add])
  /\ UNCHANGED <<server, seen, dlg>>

\* Fault: "Latest" leaves the pin in place.
applyOnlyPins(t) ==
  IF task.arg \notin {None, task.pins[t]} THEN PinVersion(t, task.arg) ELSE dev

\* applyScheduleVersion compares with the pin the page had seen.
applyScheduleVersion(t) ==
  IF task.arg # task.pins[t] THEN PinVersion(t, task.arg) ELSE dev

Written(t) ==
  CASE task.op = "cron" -> SetSchedule(t)
    [] task.op = "once" -> SetOnce(t)
    [] task.op = "unschedule" -> DeleteSchedule(t)
    [] task.op = "tags" -> SetTags(t, task.arg[t])

FanStep(t) ==
  /\ task.kind = "fan" /\ t \in DOMAIN task.st
  /\ \/ /\ task.st[t] = "version"
        /\ dev' = applyScheduleVersion(t)
        /\ task' = [task EXCEPT !.st[t] = "write"]
     \/ /\ task.st[t] = "write"
        /\ dev' = Written(t)
        /\ task' = [task EXCEPT !.st[t] = "done"]
  /\ UNCHANGED <<rows, next, fleet, rules, default, seen, dlg, left>>

\* A request is refused or lost, or its answer is.
FanFails(t) ==
  /\ task.kind = "fan" /\ t \in DOMAIN task.st
  /\ task.st[t] \in {"version", "write"}
  /\ dev' \in {dev, IF task.st[t] = "version" THEN applyScheduleVersion(t) ELSE Written(t)}
  /\ task' = [task EXCEPT !.st[t] = "failed"]
  /\ UNCHANGED <<rows, next, fleet, rules, default, seen, dlg, left>>

AllDone == task.kind = "fan" /\ \A t \in DOMAIN task.st : task.st[t] = "done"

\* The success of a save closes the window, whichever is open by now.
FanSucceeds ==
  /\ AllDone
  /\ dlg' = IF task.op \in {"cron", "once"} /\ dlg.kind \in {"upgrade", "bulk"}
            THEN NoDlg ELSE dlg
  /\ task' = NoTask
  /\ UNCHANGED <<server, seen, left>>

FanGivesUp ==
  /\ task.kind = "fan" /\ ~AllDone
  /\ \A t \in DOMAIN task.st : task.st[t] \in {"done", "failed"}
  /\ task' = NoTask
  /\ UNCHANGED <<server, seen, dlg, left>>

----------------------------------------------------------------------------
(* Edits of metadata, workers, rules and the default version, by others or    *)
(* through the windows of this page, which read the result back.              *)

Disturbed(ts) ==
  CASE task.kind = "compile" -> [task EXCEPT !.fresh = FALSE]
    [] task.kind = "fan" -> [task EXCEPT !.touched = @ \cup (ts \cap DOMAIN task.st)]
    [] OTHER -> task

Edit(k, ts) ==
  /\ Spend(k)
  /\ task' = Disturbed(ts)
  /\ UNCHANGED <<rows, next>>

\* A schedule fires, or somebody else compiles.
OthersCompile(t) ==
  /\ Spend("others")
  /\ Enqueue(t, [version |-> None, pin |-> None, filter |-> NoFilter,
                 bypass |-> FALSE, download_only |-> FALSE, address |-> FALSE], default)
  /\ UNCHANGED <<dev, fleet, rules, default, seen, dlg, task>>

DeviceEdited(t) ==
  /\ Edit("edits", {t})
  /\ \/ \E v \in Versions \cup {None} : dev' = PinVersion(t, v)
     \/ dev' \in {SetSchedule(t), SetOnce(t), DeleteSchedule(t)}
     \/ \E tags \in SUBSET DeviceTags : dev' = SetTags(t, tags)
  /\ dev' # dev
  /\ UNCHANGED <<fleet, rules, default, seen, dlg>>

\* SlotControl of the Workers tab: one more or one less than the worker is
\* known to have, once the buttons have been left alone for a while.
SlotControl(w, n) ==
  /\ Edit("setup", {})
  /\ n \in 0..MaxSlots /\ n \in {seen.fleet[w].slots - 1, seen.fleet[w].slots + 1}
  /\ fleet' = AskForSlots(w, n)
  /\ seen' \in {seen, [seen EXCEPT !.fleet = fleet']}
  /\ UNCHANGED <<dev, rules, default, dlg>>

\* TagsEditDialog of the Workers tab.
SaveWorkerTags(w, tags) ==
  /\ Edit("setup", {}) /\ tags # fleet[w].tags
  /\ fleet' = SetTagsOf(w, tags)
  /\ seen' \in {seen, [seen EXCEPT !.fleet = fleet']}
  /\ UNCHANGED <<dev, rules, default, dlg>>

\* A worker goes offline or comes back.
WorkerGoes(w) ==
  /\ Edit("setup", {})
  /\ fleet' = [fleet EXCEPT ![w].online = ~@]
  /\ UNCHANGED <<dev, rules, default, seen, dlg>>

SelectVersion(v) ==
  /\ Edit("setup", {}) /\ v # default
  /\ default' = v
  /\ seen' \in {seen, [seen EXCEPT !.default = v]}
  /\ UNCHANGED <<dev, fleet, rules, dlg>>

OthersEditRules ==
  /\ Edit("setup", {})
  /\ \/ \E r \in RulePool : rules' = WithRule(r)
     \/ \E id \in DOMAIN rules : rules' = WithoutRule(id)
  /\ rules' # rules
  /\ UNCHANGED <<dev, fleet, default, seen, dlg>>

----------------------------------------------------------------------------
(* RoutingRulesModal and RoutingRuleBuilder. *)

\* From the Workers tab, or from the badge of a blocked job with its rule.
OpenRules(link) ==
  /\ AtTabs /\ left.setup > 0
  /\ dlg' \in [kind : {"rules"}, link : {link}, mode : {"list"}, rule : {None}, fetch : BOOLEAN]
  /\ UNCHANGED <<server, seen, task, left>>

EnterBuilder(id) ==
  /\ dlg.kind = "rules" /\ dlg.mode = "list"
  /\ dlg' = IF id \in DOMAIN seen.rules
            THEN [dlg EXCEPT !.mode = "edit", !.rule = seen.rules[id]]
            ELSE [dlg EXCEPT !.mode = "create"]
  /\ UNCHANGED <<server, seen, task, left>>

LeaveBuilder ==
  /\ dlg.kind = "rules" /\ dlg.mode # "list"
  /\ dlg' = [dlg EXCEPT !.mode = "list", !.rule = None]
  /\ UNCHANGED <<server, seen, task, left>>

\* A new rule needs an id the list does not have; the server refuses one it
\* has, and the update of a rule it has not.
SaveRule(r) ==
  /\ dlg.kind = "rules" /\ Edit("setup", {})
  /\ \/ dlg.mode = "create" /\ r.id \notin DOMAIN seen.rules \cup DOMAIN rules
     \/ dlg.mode = "edit" /\ r.id = dlg.rule.id /\ r.id \in DOMAIN rules
  /\ rules' = WithRule(r)
  /\ seen' = [seen EXCEPT !.rules = rules']
  /\ dlg' = [dlg EXCEPT !.mode = "list", !.rule = None]
  /\ UNCHANGED <<dev, fleet, default>>

\* The list is read again, which sends a deep link back into the builder.
DeleteRule(id) ==
  /\ dlg.kind = "rules" /\ dlg.mode = "list" /\ Edit("setup", {})
  /\ id \in DOMAIN seen.rules \cap DOMAIN rules
  /\ rules' = WithoutRule(id)
  /\ seen' = [seen EXCEPT !.rules = rules']
  /\ dlg' = IF dlg.link \in DOMAIN rules'
            THEN [dlg EXCEPT !.mode = "edit", !.rule = rules[dlg.link]] ELSE dlg
  /\ UNCHANGED <<dev, fleet, default>>

----------------------------------------------------------------------------
Init ==
  /\ rows = [i \in JobIds |-> NoRow] /\ next = 1
  /\ dev \in [Targets -> [tags : SUBSET DeviceTags, pin : {None}, cron : {FALSE}, once : {FALSE}]]
  /\ fleet \in [Workers -> [tags : SUBSET WorkerTags, online : {TRUE}, slots : {1}, want : {None}]]
  /\ rules = NoRules
  /\ default \in Versions
  /\ seen = View /\ dlg = NoDlg /\ task = NoTask
  /\ left \in Budgets

QueueTab ==
  \/ \E i \in JobIds : ClearRow(i) \/ CancelRow(i) \/ RerunRow(i)
  \/ \E ids \in (SUBSET Ids(seen.rows)) \ {{}} :
       ClearSelected(ids) \/ CancelSelected(ids) \/ RerunSelected(ids)
  \/ ClearSucceeded \/ ClearFinished \/ RerunAllFailed
  \/ ClearAll \/ ClearAllCancels \/ ClearAllClears \/ ClearAllFails

UpgradeModal ==
  \/ \E ts \in (SUBSET Targets) \ {{}} : OpenUpgrade(ts) \/ OpenBulkSchedule(ts)
  \/ CloseDlg
  \/ /\ dlg.kind = "upgrade"
     /\ \E c \in WorkerChoices, v \in VersionChoices, d \in BOOLEAN : ConfirmNow(c, v, d)
  \/ \E t \in Targets : OpenInstall(t)
  \/ \E edited \in BOOLEAN : handlePrimary(edited) \/ fireInstall(edited)
  \/ CompilePins \/ CompileArrives \/ CompileLands \/ CompileFails
  \/ \E t \in Targets : CompileEnqueues(t)

Bulk ==
  \/ \E op \in {"cron", "once"}, v \in VersionChoices : SaveSchedule(op, v)
  \/ \E ts \in SUBSET Targets :
       \/ RemoveSchedules(ts)
       \/ \E tag \in DeviceTags : SaveBulkTags(ts, {tag}, {}) \/ SaveBulkTags(ts, {}, {tag})
  \/ \E t \in Targets :
       \/ FanStep(t) \/ FanFails(t)
       \/ \E tags \in SUBSET DeviceTags : SaveTags(t, tags)
  \/ FanSucceeds \/ FanGivesUp

Edits ==
  \/ \E t \in Targets : DeviceEdited(t) \/ OthersCompile(t)
  \/ \E w \in Workers : \/ WorkerGoes(w)
                         \/ \E n \in 0..MaxSlots : SlotControl(w, n)
                         \/ \E tags \in SUBSET WorkerTags : SaveWorkerTags(w, tags)
  \/ \E v \in Versions : SelectVersion(v)
  \/ OthersEditRules

RulesModal ==
  \/ \E link \in RuleIds \cup {None} : OpenRules(link)
  \/ \E id \in RuleIds \cup {None} : EnterBuilder(id)
  \/ LeaveBuilder
  \/ \E r \in RulePool : SaveRule(r)
  \/ \E id \in RuleIds : DeleteRule(id)

JobsProgress ==
  /\ \/ \E i \in JobIds : Claim(i) /\ Spend("claims")
     \/ \E i \in JobIds : (Finish(i) \/ OtaEnds(i)) /\ UNCHANGED left
     \/ Sweep /\ UNCHANGED left
     \/ \E w \in Workers : AdoptSlots(w) /\ UNCHANGED left
  /\ UNCHANGED <<seen, dlg, task>>

Polls == RulesArrive \/ \E k \in {"rows", "dev", "fleet", "default"} : Poll(k)

Next == QueueTab \/ UpgradeModal \/ Bulk \/ Edits \/ RulesModal \/ JobsProgress \/ Polls

Spec == Init /\ [][Next]_vars

----------------------------------------------------------------------------
(* Properties *)

\* A job the page shows as finished is finished or gone, however old the page
\* is: the Clear and Rerun buttons of a row never meet a running job.
FinishedStays ==
  \A i \in Ids(seen.rows) :
    isJobFinished(seen.rows[i]) => rows[i].state = "none" \/ isJobFinished(rows[i])

\* When Clear Entire Queue says so, every job it found active is gone, even if
\* it was claimed, finished or blocked between the two requests.
QueueCleared ==
  [][ClearAllClears => \A i \in task.ids : rows'[i].state = "none"]_vars

\* claim_next does not ask the rules about a pinned job, so the window must:
\* unless somebody edits behind its back, a job goes to a worker the rules
\* exclude only with the user's override, and the override is sent only when
\* some device needs it. Nothing is said of a window confirmed before the rules were
\* ever fetched, which checks none: the model begins with a page that has read them.
NoSilentOverride ==
  [][\A t \in Targets : CompileEnqueues(t) /\ task.fresh /\ task.q.pin # None =>
       task.q.bypass <=> \E s \in task.targets :
                           ~IsEligible(dev[s].tags, fleet[task.q.pin].tags, rules)]_vars

\* The version picked in the window is the one that is built, although the
\* default travels as no version and the pin by a request of its own. Left out
\* is the default for pinned devices whose pin the window does not move:
\* downloads and several devices.
VersionKept ==
  [][\A t \in Targets : CompileEnqueues(t) /\ task.fresh /\ task.chosen # None /\ rows' # rows =>
       LET kept == task.chosen = default /\ dev[t].pin \notin {None, default}
                   /\ (task.q.download_only \/ Cardinality(task.targets) > 1)
       IN kept \/ \E i \in JobIds : rows'[i] # rows[i] /\ rows'[i].target = t
                                    /\ rows'[i].version = task.chosen]_vars

\* A bulk operation reports success only when every device has what was asked
\* for, version included, unless somebody else has edited the device.
SaidDone ==
  [][FanSucceeds =>
       \A t \in DOMAIN task.st \ task.touched :
         CASE task.op = "unschedule" -> ~dev[t].cron /\ ~dev[t].once
           [] task.op = "tags" -> dev[t].tags = task.arg[t]
           [] OTHER -> /\ IF task.op = "cron" THEN dev[t].cron ELSE dev[t].once
                       /\ task.apply => dev[t].pin = task.arg]_vars

=============================================================================
