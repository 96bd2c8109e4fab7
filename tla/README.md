# A TLA+ development of ESPHome Fleet

ESPHome Fleet compiles and flashes ESPHome devices on a fleet of build workers. A
server (the Home Assistant add-on, `src/ha-addon/server`) keeps a queue of compile
jobs, workers (`src/ha-addon/client`) poll it over HTTP, build, upload the firmware
and flash the device, or leave the flashing to the server. A web UI
(`src/ha-addon/ui/src`) polls the server, shows the queue, the devices and the workers,
and sends all that users do as HTTP requests.

This directory holds TLA+ modules of its core, TLC configurations that check them on
small instances, and TLAPS proofs of the most important results for every instance.
`PROJECT.json` lists components, runs, mutants, the map from definitions to source
lines, hazards and theorems. All paths below are under `src/ha-addon/`
unless they say otherwise.

    tlc -workers 2 -config MCJobQueue.cfg MCJobQueue     # a run
    tlapm StorageProofs.tla                              # the proofs of a module

## 1. The system

| Component | State it keeps | Operations | Where it is hard |
|---|---|---|---|
| Job queue (`server/job_queue.py`) | rows of jobs in memory; `queue.json`; flags and counters of a row | enqueue, claim_next, submit_result, patch_ota_result, check_timeouts, release_for_retry, cancel, retry, remove, clear, re_evaluate_routing, mark_firmware_stored, load | three stores (queue.json, SQLite history, firmware directory) written one after the other; results after timeouts, cancels and restarts; coalescing against requeues |
| Job history (`server/job_history.py`) | one row per finished job | record_terminal (upsert), query, evict_older_than | recorded after the queue was persisted; a copy of `has_firmware` that ages |
| Firmware storage (`server/firmware_storage.py`) | binaries per job and variant | save, delete, reconcile_orphans, enforce_max_age, enforce_budget | what protects a binary is computed from two other stores |
| Worker API (`server/api.py`) | open requests; `_server_ota_tasks` | register, heartbeat, jobs/next, firmware upload, result | handlers await between check and use; clients retry, die, come late |
| Routing (`server/routing.py`, `routing_eligibility.py`) | rule list | rule CRUD, sweep, claim predicate | verdicts go stale while tags, rules and the fleet change |
| Dispatch (`get_next_job`) | none of its own | the deferral of a worker to better ones | every worker decides alone from the same snapshot |
| Worker registry (`server/registry.py`) | workers, heartbeat times, tags, quotas, health | register, heartbeat, set_*, remove | identity adoption, health hysteresis, persistence |
| Background tasks (`server/main.py`) | none | timeout_checker, routing watchdog, retention, pollers | run at any time between handlers |
| Worker client (`client/client.py`) | `_active_jobs`, three flags, threads | worker_loop, run_job, heartbeat_loop, _apply_update, _clean_build_cache | threads that look at a counter and act later |
| Version manager (`client/version_manager.py`) | `_lru`, `_installing`, file locks, venv directories | ensure_version, _evict_lru, _install | slots, other processes and sweeps share one directory |
| Disk quota (`client/disk_quota.py`) | pins, usage | sweep: venvs, targets, toolchains | a snapshot of pins while jobs begin |
| Page (`ui/src/App.tsx`, Queue, Schedules, Workers tabs, Upgrade, rule and tag windows) | the last poll of queue, devices, workers, rules; the open window | cancel, clear, remove, retry, compile, pin, schedule, tag, slot and rule requests | acts on copies that may be old; one click is several requests; other people edit |
| Log windows (`LogModal.tsx`, `DeviceLogModal.tsx`) | refs to a socket, a poll chain, an offset, a terminal | open, stream, poll, reconnect, hand over to the live log | callbacks of earlier sources run beside the current one |
| Editor (`EditorModal.tsx`, `NewDeviceModal.tsx`, `HistoryPanel.tsx`, the versioning part of `SettingsDrawer.tsx`) with files and `git_versioning.py` | buffer, text believed saved, unsaved new devices, sides of a diff; files, commits, debounce timer | load, type, save, save & close, create, discard, commit, restore, compare, switch auto-commit | requests overlap, get lost, are answered to a page that has moved on; a save renames the file |
| Devices tab (`DevicesTab.tsx`, `components/devices/`) | selection, filter, memoised row menus, stored columns | archive, restore, rename, delete, pin, bulk operations, column choice | old rows, several people, handlers of earlier renders, stored formats of earlier releases |
| History windows (`QueueHistoryDialog.tsx`, `CompileHistoryPanel.tsx`, `TimeRangePicker.tsx`) | pages, hasMore, loading, filter | filter, sort, search, scroll, load more | offsets into a table that changes |
| Scheduler, device poller, settings, event bus, brokers | see `PROJECT.json` | | section 7 |
| Config scanner, auth, discovery, integration, one-answer dialogs | | | pure I/O or presentation |

How they interact: a UI request enqueues a job; a worker's poll (`get_next_job`)
asks routing and dispatch whether this worker may claim it, claims it in the queue,
then awaits the bundle of the configuration and sends the assignment. The worker
makes sure of the ESPHome version (version manager), pins it (disk quota), compiles,
uploads firmware variants, perhaps flashes, and reports. The result handler finishes
the row and may start a server-side push. `timeout_checker` requeues what stays
WORKING for too long or belongs to an offline worker. Heartbeats carry requests
back to the worker: update, registration, clean cache. A restart of the server
rebuilds the queue from `queue.json`, and sweeps the firmware directory with what
queue and history say.

What makes each part correct:

* queue: no accepted job is lost, verdicts are final, retries are bounded, requests
  of one target are coalesced, and all this through a kill between any two writes;
* protocol: no reply, loss or late message makes the server do what the queue's
  rules do not allow; every job ends; a device is flashed only when that was asked;
* dispatch and routing: somebody takes what somebody may take; a job waits as
  blocked only for a reason, and the reason named is the reason;
* firmware: the budget is kept, oldest first, no more than needed, and nothing goes
  that a row still announces;
* worker: flags are served, code is swapped only under no job, a version is
  installed once, waiters wake up, pins count the jobs;
* page: a button does what the row it stands on says, however old the row is; a version, an
  override and a success message mean what they say;
* log windows: the whole log is shown in the end, a closed window is quiet;
* editor and devices: what is shown as saved is saved, no configuration is lost, no stub is
  left behind;
* history: the list answers the filter although the table changes under it.

## 2. Modules

| Module | Models | Built on |
|---|---|---|
| `JobLifecycle` | the abstract promise for one job: its stages and its verdict in the history | |
| `JobQueue` | every method of the queue that changes rows, with its writes to queue.json, history and firmware directory | |
| `WorkerProtocol` | handlers, worker slots, uploads, pushes, timeout checker, failures | extends `JobQueue` |
| `WorkerProtocolProofs` | proofs about it and its refinement of `JobQueue` | `WorkerProtocol`, `StorageProofs` |
| `Routing` | the rule evaluator and the predicates made of it | |
| `RoutingSweep` | one waiting job under changing rules, tags and workers | extends `Routing` |
| `RoutingProofs` | proofs about both | `RoutingSweep` |
| `Dispatch` | polling, deferral and claims of several workers | extends `JobQueue`, `Routing` |
| `FirmwareStore` | binaries with variants, ages and sizes, and all that deletes them | |
| `StorageProofs` | proofs about the queue, its refinement of `JobLifecycle`, and the firmware store | `JobQueue`, `FirmwareStore` |
| `WorkerLifecycle` | slot, heartbeat and main threads of a worker, its flags | |
| `VenvCache` | version manager, pins and quota sweep over the venv directory | |
| `WorkerProofs` | proofs about both | `WorkerLifecycle`, `VenvCache` |
| `JobRows` | what a row of the queue means to the page: `jobState.ts` | |
| `FleetServer` | the server as the page meets it: queue, device metadata, fleet, rules, default version | extends `JobRows`, `Routing` |
| `FleetPage` | the page: polls, Queue tab, Upgrade window, schedules, tags, slots, rules | extends `FleetServer` |
| `FleetPageProofs` | proofs about it | `FleetPage` |
| `LogViewer` | log windows and the hand-over | extends `JobRows` |
| `ConfigEditor` | editor, new devices, file history, versioning switches, files and git behind them | |
| `ConfigEditorProofs` | proofs about it | `ConfigEditor` |
| `DeviceTable` | Devices tab, directory and archive, row menus, stored columns | |
| `DeviceTableProofs` | proofs about it | `DeviceTable` |
| `HistoryBrowser` | the two history windows over the history table | |
| `WindowProofs` | proofs about it, about log windows and `JobRows` | `LogViewer`, `HistoryBrowser` |
| `MC*` | constants for TLC | |

### JobQueue

`jobs` is `_jobs`, `disk` is `queue.json`, `history` the SQLite table, `files` the
job ids with a binary. A method holds the queue's asyncio lock and never awaits
inside, so it is one action. Its effect on disk is not one write: `Finish(J, h, rec,
F)` gives a method that computes rows `J` all its outcomes: it completes (rows
persisted, then `rec` recorded in the history), or, when `Kills`, it is cut before the
first write, between persist and record, or after it, and `Restarted` applies what
`load()` does to what is on disk: WORKING goes back to PENDING, a lost server-side
push becomes a failed OTA result, orphaned binaries go. Methods that record first
(`enqueue`, `retry` for the rows they push out) pass the recorded history as `h`.
Ids are numbers in creation order, which is the order of the OrderedDict. Which jobs a
worker may claim and whether it defers are parameters of `ClaimNext`; `Dispatch`
gives them values. `address` keeps whether `ota_address` is known, not what it is.

### WorkerProtocol

Adds the workers and the handlers of `api.py`. A handler that awaits is split there:
`Poll` claims and leaves an entry in `handing` until `HandOver` or `BundleFails`;
`BeginUpload` checks and leaves an entry in `uploads` until `EndUpload`, which does not
check again; a push is a task counted in `pushing`. `Report` and `LoseReport` are one
attempt of `_submit_result` with and without its arrival; the reply may be lost as
well. `Die` is a worker process that dies and comes back, `Heartbeat` a late one,
`ServerRestart` a kill of the server, `Sweep` a round of `timeout_checker`. A worker
has one slot here; several slots differ only in whose poll claims.

### Routing, RoutingSweep, Dispatch

`Routing` holds `evaluate_clause` up to `find_blocking_rule` and the claim predicate as
operators on sets of tags. `RoutingSweep` puts one job under them: users edit rules
and tags, workers come and go, the sweep runs some time later, and the reason of a
block is persisted only with a change of state, as in the code. `Dispatch` takes the
queue and models the second half of `get_next_job`: `DeferralPool`, `ShouldDefer` and
the claim.

### FirmwareStore

The row of a job is reduced to whether it is in the queue and says `has_firmware`; the
binaries have variants, sizes and modification times. `Scan` is the paged scan of the
history with the callers' page size and the clamp of `query`; `Enforce` is one round of
`firmware_retention_enforcer`, `Forget` of `job_history_retention`, `Reconcile` the
sweep at startup. The loop over the budget is stated by what it takes: a file that is not kept goes if,
without those that are not kept and come before it (`FreeBefore`), the directory is still over the
budget (`Evicted`), so no recursion is needed.

### WorkerLifecycle

`slot[s]` is where a `worker_loop` thread is, `active` is `_active_jobs`, `rereg`,
`update` and `clean` are the three flags, `main` is the phase of the main thread and `hb`
that of the heartbeat thread. `server` is what the server holds about the worker: whether it knows
it, has newer code for it, and has a pending clean request, which it drops as it builds the
reply. A slot counts itself in `StartJob`, after the server has answered its poll. `attempts` stops at
the cap of `_MAX_UPDATE_ATTEMPTS`, from where `ApplyFails` only takes the flag down (`GivenUp` as long as
the server announces newer code).

### VenvCache

`dirs` and `complete` are the directory and the venvs in it that are usable, `lru` and
`installing` the fields of the worker's manager, `lock` the file locks, `sentinel` the
version the server publishes. `Own` is the slot that installs and evicts first,
`LockFile` to `Installed` the install under the file lock, `Select` the server's own
manager, `BeginSweep` to `EndPass` the quota sweep with its snapshot of pins.

### JobRows, FleetServer, FleetPage

`JobRows` has the predicates of `jobState.ts` (`isJobInProgress`, `isJobFinished`, ...) and
`getJobBadge`. `FleetServer` is a second, flatter view of the queue (`JobQueue` has the full
one): a row keeps what the page shows and what the Upgrade window asks for, and each
request of `ui_api.py` is an operator on it. In `FleetPage`, `seen` is what the last polls brought, `dlg` the
window on top, `task` the operation whose requests are on their way: the fan-out of a bulk
operation has a state per device (`task.st`), compile requests follow the request that moves the pin,
and Clear Entire Queue is a cancel and then a clear. `Poll(k)`, workers that claim and
finish, and other people's edits happen in between. `task.fresh` and `task.touched` are history
variables: whether somebody else has changed what the operation was based on.

### LogViewer

An action is one browser event with all the effects React runs before the next one.
`io` holds the refs of `LogModal` (terminal, socket, poll chain), `watch` is `logWatchRef`,
`live` the device log. Sockets and chains of polls are objects of their own that go on after
their window has turned to something else, with the callbacks the code gives them.

### ConfigEditor

`disk` and `log` are files and commits, `timer` the debounced commits, `reqs` the requests on
their way, each of which is served or lost, and answered, in steps of its own. `editor` is
`EditorModal` (`inst` tells one mounting from the next, `calm` that none of its requests
overlapped), `unsaved` is `unsavedNewTargetsRef`, `hist` the two sides of `HistoryPanel` with the effects
that are due, `ask` the dialog of the auto-commit switch.

### DeviceTable

`files` and `arch` map names to configurations, so that a move keeps its identity and a loss
shows. `menu` has what each memoised row menu was last rendered with (`cellEqual`, `menuEqual`
decide when it is rendered again). `layout` is the running release, its columns and localStorage.

### HistoryBrowser

A row of the history is named by its place in the order of finishing. `Query` is the SQL of
`job_history.query`; `dlg` and `call` are the state of `QueueHistoryDialog` and its
request, `panel` the SWR cache of `CompileHistoryPanel`. A page is given by the ranks of its rows
among those that match. `since` is a history variable: the rows that matched when the list was begun,
whether no other answer was under way then (`calm`), and whether old rows have gone since (`purged`).
`sentinel` says whether the row under the list is watched. The effect that attaches the observer
(`Observe`) runs when pages, `hasMore` or `loading` change, not when the search does, so `setQ` takes the
observer away with the table and never gives it back. `sentinel.hidden` is a history variable: a search has
hidden everything loaded since the effect last ran.

## 3. Runs

Bounds are constants named in the modules. In each case they are large enough for the
situation the property is about, and every property has a mutant of the code
(`PROJECT.json`, "mutants"; the definitions marked `Fault:` in the modules) that breaks
it within the same bounds.

| Run | Shows | Bounds |
|---|---|---|
| `queue` | `TypeOK`; `HistoryNotAhead`: a kill may lose a history row, but no row shows a verdict queue.json does not hold; `RetryBudget`; `OneFollowup`; `EvictionRecorded`: a finished row that a newer job pushes out is in the history; `ImplementsLifecycle`: the refinement of `JobLifecycle` | one target, two workers, MAX_RETRIES 2, a kill in any method; two jobs do all they can, and a third is followed as long as all three are unfinished, pinned and without a binary (constraint `ThirdOnlyQueues`): one runs, two could wait |
| `protocol` | `ImplementsQueue`: the handlers take only the queue's steps; `DownloadOnlyNeverFlashed`; `PushHasFirmware`; `JobFinishes`; `PushSettles` | one job, two workers (a stale one and the current one), two pushes at a time, one restart, three kinds of request |
| `dispatch` | `JobStarts` | two workers that differ in tags, score and slots, two jobs, one of them perhaps pinned, one change of the fleet |
| `store` | `BudgetHolds`; `EvictsOldestAsNeeded`: nothing announced goes, the oldest go first, and with the newest of what the budget cost the directory would be too large | two jobs with two variants of different size, budget for one, three instants |
| `routing` | `BlamedRuleBlocks`, `MoreChoiceNeverBlocks`, `VerdictSettles` | two tags, two rules and one of the device, any fleet of tag sets |
| `lifecycle` | `QuietSwap`; `FlagsServed` and `WorkResumes`, as long as no failed set-up has leaked a count, the latter also as long as the worker has not given up on an update for good (section 6) | two slots; one release, clean request, lost registration, restart and failed set-up; three failing updates, the cap, so that giving up is reached and the restart after it |
| `venv` | `OneInstaller`, `PinsCountJobs`, `EnsureReturns` | two slots and the server, two versions, room for one, three tasks (jobs, sweeps of the heartbeat, installs of the server) |
| `page` | `FinishedStays`: a row shown as finished is finished or gone; `QueueCleared`; `NoSilentOverride`: a job goes to a worker the rules exclude only with the user's override; `VersionKept`: the version picked is the one built; `SaidDone`: a bulk success is one on every device | two devices, one worker, two versions, two rules, four jobs; `Budgets` lists the mixes: clicks on the queue beside claims and other requests, an upgrade beside each kind of change, a bulk operation beside an edit, work on the rules |
| `logs` | `HandOverEarned`; `LogComplete`: a window on a finished job ends up with the whole log; `ClosedIsQuiet` | two jobs, one of them a download, a worker's log, two lines, two openings, two sockets and two poll chains alive at once: an abandoned one and the current one |
| `editor` | `CleanMeansSaved`, `NoOrphanStub`, `OlderOnLeft`, `CommitsWhatWasSaved` | two names, two texts, three commits; `Budgets`: up to two windows, two saves, a lost request or another writer, three steps in the file history |
| `devices` | `NothingLost`, `PinAsShown`, `ColumnsRemembered` | two names and two configurations, so that each name can be taken; three columns in two releases; up to three requests on files, two pins, four steps on columns |
| `history` | `RowsAnswerView`: the list holds rows of the filter, those it was begun with in order and without a gap, and at the end all of them; `HistoryLoads`: whoever scrolls on reaches the end, unless a search has hidden everything loaded | pages of two, up to seven rows, so four pages; `Budgets`: three clicks beside a job that finishes and a round of retention, one click beside three jobs, more than a page, or two openings of the panel |

`JobQueue`, `WorkerProtocol`, `Dispatch`, `FirmwareStore`, `VenvCache` and the modules of the web UI run with
`CHECK_DEADLOCK FALSE`: with their bounds used up and all jobs ended, nothing is left to
do. The page, editor and device runs have budgets: each behaviour draws one of several small mixes of
steps, which keeps unrelated operations from multiplying. `RoutingSweep` and `WorkerLifecycle` never stop and are checked for deadlock.

## 4. Fairness

* `WorkerProtocol`: a slot polls for ever (`worker_loop`), and each step of a build has a
  timeout (compile, upload and result requests), so `Poll`, `GiveUp` and the steps of a slot
  are weakly fair; a push ends by its absolute timeout; `timeout_checker` runs every 30 s
  and sees a job that stays WORKING. No fairness for users, deaths, heartbeats, losses,
  bundle failures and restarts. `HandOver` has none either: the slot's own timeout and the
  timeout checker make up for a handler that never answers.
* `Dispatch`: workers poll, jobs end (which `JobFinishes` establishes), and the routing
  watchdog runs every 30 s.
* `RoutingSweep`: the watchdog.
* `WorkerLifecycle`: the threads run, a poll is answered or times out, `run_job` ends by
  its timeouts, a reply arrives if beats go on; failures, releases and clicks owe nothing.
* `VenvCache`: threads run and pip has a timeout; a file lock is given to a waiter that finds
  it free again and again (strong fairness of `LockFile`), which flock gives in practice.

* `LogViewer`: the queue is polled every second, effects run, a socket opens, fails or
  closes, a request is answered or fails, and timers fire; a request that is sent again and again gets
  through some time (strong fairness of `PollAnswered`). Nothing makes the user act or a job end.
* `HistoryBrowser`: effects run, the reader scrolls the observed row into view (an unobserved one owes
  nothing), and a request that is repeated succeeds some time (strong fairness of `Loaded`; SWR repeats failed
  requests of a shown key).

The properties of `FleetPage`, `ConfigEditor` and `DeviceTable` are safety properties: no fairness.

## 5. Proofs

`StorageProofs`, the queue (for any sets of targets and workers, any requests, results and
uploads, any number of jobs and any MAX_RETRIES > 0, kills or not; assumptions:
`QueueAssumption`, `RequestsAssumption`, `ResultsAssumption` of `JobQueue`):

* `InductiveInvariant`: `Spec => []IInv`. `TypeOK`, `HistoryNotAhead`, `RetryBudget` and
  `OneFollowup` are not inductive: a restart replaces the rows in memory by what
  queue.json holds, so whatever is wanted of `jobs` must hold of `disk` as well, and
  memory and disk must be related. `IInv` says: rows in memory and on disk are each
  *sound* (typed, empty from `nextId` on, retries within the budget, one follow-up
  waiting per target), memory is the disk up to what `load()` changes, and the
  history agrees with the disk and is empty for ids not given out yet. Every method is first
  shown to be a `Method`: a table step (each row moves as `RowStep` allows, new ids get
  `NewRow`s) followed by `Finish`; `MethodSound` then covers all methods with all their
  kills at once, and `RestartedSound` the restarts.
* `TypeCorrect`, `HistoryIsNotAhead`, `RetriesAreBounded`, `AtMostOneFollowup`: the four
  invariants.
* `EvictionsAreRecorded`: a finished row that `enqueue` or `retry` pushes out has its verdict in the history by
  then, because both record before they drop; a kill in between leaves the row where it was.
* `QueueImplementsLifecycle`: `Spec => ImplementsLifecycle`. Initial states map to
  initial states; a `RowStep` maps to a `Move` or to nothing; a killed method maps to a
  `Move` too, because memory and disk differ only by WORKING that became PENDING.

`StorageProofs`, the firmware store (for any jobs, sizes, budgets, page sizes and times):

* `StoreInvariant`: times for finitely many binaries, and nothing else; what the properties say is a
  fact about one round.
* `RoundMeetsBudget`, `RoundEvictsOldest`: the loop would call for an induction over the sequence of files,
  which the provers cannot be given. Instead the proof takes the first file that stays without being kept:
  all before it that were not kept are gone, so what is left is what the loop had counted when it
  spared that file, and fits; likewise the last file that goes, which is a newest one of those that go, and with
  which the rest would not have fitted.
  That there is a first and a last (`Least`, `Greatest`) comes from the strict subset order on finite
  sets, which the library proves well-founded. Sizes add up because the bytes of a set of files are the
  cardinality of a disjoint union (`BytesOfPart`).

`RoutingProofs` (any tags, rules, devices and fleets):

* `BlamedRuleIsToBlame`: the rule a blocked job names excludes every worker by itself.
* `ChoiceHelps`: a worker that joins or a rule that goes never turns an eligible job into a
  blocked one. Eligibility is monotone in the fleet (an existential) and antitone in the rules
  (a conjunction); the empty fleet is the special case and needs its own argument.

`WorkerProtocolProofs` (any workers, requests, sends, variants, pushes and restarts, and all that
`StorageProofs` leaves open of the queue; `ProtocolAssumption` says in addition that `Kills` is off, because a kill of
the server takes its open requests along and so is `ServerRestart` here, and that a build may report
any result and upload for any job; kills between two writes of one method are the matter of
`StorageProofs`, which has them):

* `ProtocolInvariant`: `WSpec => [](IInv /\ PInv)`. A slot, a handler that waits, an upload that is read
  and a push all act on what they were told or have checked some time ago. `PInv` says what is left
  of that: the job was claimed and is nobody's follow-up any more (`Held`); what a slot was told about downloads and
  pushes still describes the row, or the row is gone (`Faithful`, `Consistent`); a push runs for a
  success that is to be pushed (`PushOK`); an upload under way belongs to the build its worker is archiving.
  `Tame` is what any step of the queue does to claimed rows; every method is shown tame once, and
  `TameKeeps` carries `PInv` over all of them.
* `ProtocolImplementsQueue`: every step of handlers, slots and tasks is a step of `JobQueue` or
  leaves the queue alone. `QueuePromisesKept` draws the conclusion for the retries, the follow-ups, the
  evictions and the life cycle.
* `DownloadsAreNotFlashed`, `PushesHaveFirmware`: the two invariants the `protocol` run checks.

`WorkerProofs`, the threads (any number of slots, bounds and failures; the set of slots is finite and not empty):

* `LifecycleInvariant`, `SwapIsQuiet`, `IdleIsIdle`: `QuietSwap` needs the boot of the main thread added,
  from which it may go straight to an update. The count of jobs is an upper bound only: a job whose set-up
  failed never counts itself out. That a worker with count zero runs nothing follows all the same.

`WorkerProofs`, the venvs (any slots, versions, limits and tasks):

* `VenvInvariant`, `InstallsExcludeEachOther`, `PinsAreCounts`, `NoLostWakeup`: two mechanisms exclude, the file lock
  between processes and `_installing` between the slots of a worker. The invariant says who holds which
  between which steps, and that a waiter's version has an installer, which is also what makes no wake-up be lost.

`FleetPageProofs` (any devices, workers, versions, rules and budgets; the set of devices is finite):

* `PageInvariant`: besides types, what an operation may rely on while its requests are on their way.
  `ClearOK`: after the cancel no job of Clear Entire Queue runs again; `CompileOK`: what the version, the pin and the
  override mean, as long as nobody else has edited (`task.fresh`); `FanOK`: how far each device has got,
  unless somebody else touched it (`task.touched`).
* `ButtonsMeetNoRunningJob`, `ClearAllClearsAll`, `OverrideIsDeliberate`, `PickedVersionIsBuilt`, `SuccessIsTrue`: the five
  properties of the `page` run.

`ConfigEditorProofs` (any devices, texts, budgets, and bound on the commits from 2 on; no file is named
like the value that stands for no file):

* `EditorInvariant`: `FilesOK` and `PageOK` are types and what a request of each kind is about; `StubOK` where
  the stub of a new device can be; `CalmOK` that a calm editor has one request under way at most and what
  that request means for the file and the text believed saved; `HistOK` how many renders the effects of
  the history panel still need.
* `CleanIsOnDisk`, `StubsAreLookedAfter`, `OlderVersionOnLeft`, `CommitIsWhatWasSaved`: the four properties
  of the `editor` run.

The attempt to prove the first two found that they were true of the run's budgets only. With larger
ones TLC shows the counterexamples: somebody removes the file of a new device and the device is created
again while the answer to the first save is on its way, which then takes the mark off the new
stub (`App.tsx:1152`); and a version is brought back while the editor of a new device still goes by the
staged name, which the comparison at `App.tsx:1231` does not recognise, so the editor keeps the old
text as saved. Both properties now name these cases, and section 6 lists them.

`WindowProofs`, the log windows (any jobs, downloads and bounds):

* `RowsPartition`, `BadgeAgrees`, about `JobRows`: every row is exactly one of in progress, successful,
  failed and cancelled, and the badge, a cascade of its own, shows the class the buttons go by. The predicates are
  defined by one another and by the OTA result, so neither is obvious.
* `LogInvariant`, `HandOversAreEarned`: what the page has read of a finished job stays true, or the job is gone;
  the watched job is the one whose log is open; a log opened after the end was never seen running.
  Together they say that a live log that opens by itself follows a flash.

`WindowProofs`, the history windows (any devices, verdicts, page size, filters, histories and budgets):

* `Ranks`, `QueryPage`: ranks in the order of the query follow the order, are distinct and leave none
  out up to the number of rows (an injection of a finite set into one of its size is onto), so a page
  holds exactly the rows of its ranks. This replaces the induction over a sorted sequence.
* `HistoryInvariant`: `RowsAnswerView` is not inductive, because the next page is cut from another table
  than the list was. `HInv` adds that the answer under way is the next page (`CallFits`) and that
  whatever of the beginning would *now* be on the pages already loaded is in the list (`Filled`).
  It is kept because a row the list was begun with never moves up (`RankStays`): new jobs only push it down,
  and retention takes rows from behind it when the newest come first. In the other orders
  retention does move rows up, which is why the property leaves it out there.
* `ListsAnswerTheirView`: the property the `history` run checks.

The attempt to prove it found that the property was true of one finished job only: it used to say that the
list, with repetitions left out, is in the order asked for. When two jobs finish between two pages of two,
a whole page comes again and the list reads 4, 3, 4, 3; TLC shows it once the budget has two jobs. The property
now says what does hold, a row that was there at the beginning has all that precede it above it, and
the run has three jobs.

`DeviceTableProofs` (any names, configurations, versions, releases, columns and budgets):

* `TableInvariant`: git tracks nothing without versioning; what the page asks for has a name; the open menu was
  last rendered with a version its row has shown since (`MenuFresh`); what is stored is a layout of some
  release, the page's own one unless another page has written since (`LayoutKept`).
* `ConfigurationsStay`, `PinIsAsShown`, `ColumnsAreRemembered`: the three properties of the `devices` run, as
  action properties from that invariant. The first is one case per request: none but a
  deletion for good, and an archiving over an untracked file (section 6), takes a configuration out of
  directory and archive together.

Only model-checked:

* liveness (`JobFinishes`, `PushSettles`, `JobStarts`, `VerdictSettles`, `FlagsServed`, `WorkResumes`,
  `EnsureReturns`, `LogComplete`, `ClosedIsQuiet`, `HistoryLoads`): fairness and ENABLED are outside what the prover
  handles.

All other properties the runs check are theorems.

## 6. Known deviations

Statements of the code's own comments that the code does not keep, and places where it
does less than one would expect. They were seen while modelling; the steps they consist of are
in the modules, and the properties name what they leave out because of them.

Server and worker:

* an upload that was admitted while the job ran and ends after it stopped running is cleaned up
  with `delete_firmware(job_id)`, which deletes the accepted variants too, while `has_firmware`
  stays True (`server/api.py:1112`);
* `my_eligible_pending` leaves follow-ups out; with only a follow-up pending every other worker
  counts as eligible, and the only worker that may take the job defers for ever
  (`server/api.py:477` against 402-403);
* the scan that protects binaries asks for pages of 1000 and takes a page of 500, which is
  `query`'s clamp, for the last (`server/job_queue.py:443`, `server/job_history.py:422`), so a restart
  deletes the older ones;
* a follow-up may start while its predecessor, requeued, is PENDING again
  (`job_queue.py:668` against the comment at 90-92);
* `retry` makes an active job beside one that is queued or runs (`job_queue.py:1096`
  against 480), drops `download_only`, so that the retry of a download flashes the device
  (against `ui_api.py:2523`), and drops `ota_address`, so that the retry of a server-side OTA
  never gets its OTA result before a restart (against 391);
* the checks of an upload are not repeated after its body was read, so the binary of a
  stale worker is accepted for another's claim (`api.py:1080` against `job_queue.py:1274`);
* a bundle that fails after the claim was taken away fails or releases the job under the worker that holds it
  by then, as neither `submit_result` nor `release_for_retry` is told whose claim it was (`api.py:583`, 605);
* the push gate looks at the row, not at the result, so a late result that says the device
  was flashed may start a push (`api.py:938` against 926);
* a restart deletes a binary whose history row is no success or was written before the
  upload (`job_queue.py:437` against 423);
* the build cache may be wiped while a slot that had polled before goes on to compile
  (`client.py:1443` against 222);
* once the three update attempts are used up (`client.py:1504`) and while the server announces newer code, each
  heartbeat raises the flag and `_apply_update` only takes it down. The restarted heartbeat beats at once, before
  main's next turn, so a pending clean, which comes last in the chain (3056), is never served. It keeps
  the slots from polling: the worker takes no job until it is restarted, against the comment that the clean runs
  and pollers resume (3052-3055). Without a pending clean they poll only between two of these turns;
* a job whose build directory cannot be made leaves
  `_active_jobs` up for ever (`client.py:2005`);
* `_evict_lru` takes the venv another slot builds with (`version_manager.py:286` against
  `disk_quota.py:31`), a sweep takes one pinned after its snapshot (`client.py:2009`), and a
  stale LRU entry lets one slot wipe what another installs (`version_manager.py:522`).

Page:

* the Upgrade window says that Current uses the server's default version, the server builds a
  pinned device with its pin (`UpgradeModal.tsx:620`); picking the default explicitly for a download or for
  several devices builds the pin as well;
* Clear Succeeded, Clear Finished and Clear Selected remove successful jobs whose OTA push still runs,
  Cancel on such a job does nothing, and a retry removes them with the other finished rows;
* Clear Entire Queue leaves out blocked jobs and says 'Queue cleared' (`App.tsx:698`);
* a schedule save that ends late closes whichever Upgrade window is open, and moves a pin from an old
  copy (`App.tsx:1341`);
* the conflict check knows neither a device's own rules nor unknown workers, and with a tag
  expression looks at one clause at a time (`UpgradeModal.tsx:407` says more);
* a rerun of several jobs drops filter, bypass, download and address; a follow-up that takes over a request
  keeps its old download flag; Install to Address is swallowed by a waiting job though the toast
  says it is queued;
* the rules window opened from a blocked job jumps back into the builder whenever the list changes
  (`RoutingRulesModal.tsx:91`); the slot buttons count from the last report of the worker, so two quick
  clicks are one (`WorkersTab.tsx:222`); bulk tag edits write whole lists from the polled copy.

Log windows:

* a finished log is polled for ever (`LogModal.tsx:141` against 235);
* `onclose` of an old socket forgets the new one (229), and closing a socket that connects fires `onerror`, which
  stops the new socket and polls the old job, even in a closed window (225);
* a poll on its way when the source changes writes its text into the new log and its offset into the
  new chain; the server sends the log so far and then subscribes, with a gap in between
  (`ui_api.py:1490`).

Editor:

* a second Save of a new device is refused, as its file was renamed under the editor; Validate on a
  new device saves it without telling the page, so the close tries to remove it;
* a buffer from which text was only deleted closes without asking (`e2e/editor.spec.ts:8`);
* a late Save & Close or failed load of an earlier editor closes the one that is open; a device whose creation
  is answered after its window was dismissed takes the open editor over;
* a file that somebody removes and a device of the same name made again, while the answer to a save of the
  first is on its way: that answer counts the new stub as saved, and it outlives its editor (`App.tsx:1152`);
* a version brought back while the editor of a new device still goes by its staged name is not
  recognised as the open file (`App.tsx:1231`), and the editor keeps the older text as saved;
* overlapping saves may be applied out of order, and a load answered after a save overwrites the
  buffer; Restore to the text the editor first loaded leaves the old buffer (`EditorModal.tsx:110`);
* a failed commit is reported as "no changes to commit"; a plain Save within two seconds of a committing
  action is committed with it; Settings announce that every save commits, saves of the editor do not;
* `HistoryPanel` re-applies its preset on every change of the entries (171-176 say it does not).

Devices tab:

* archiving a name that is in the archive overwrites it when versioning is off or git does not track the
  file (`git_versioning.py:1095`);
* Upgrade Selected passes archived rows on (`DevicesTab.tsx:611` says none does), a duplicate of an
  archived device gets a 404, the success of an archiving is announced before the request ends;
* renaming leaves the jobs of the old name in the queue;
* the flat list of columns an early release stored shows columns again that had been hidden since;
* the tag filter is a conjunction (`DevicesTab.tsx:734` says OR).

History windows:

* a filter changed, or the dialog closed and opened again, while a page is loading: the answer
  for the old filter becomes the first page of the new one and the real one is never fetched
  (`QueueHistoryDialog.tsx:119` says that the next fetch starts clean);
* a failed load is repeated at once and without end; a job that finishes between two pages shows a
  row twice, several of them a stretch of rows again, out of order; from the oldest or by device, retention between two pages skips rows;
* a search that matches nothing loaded removes the row that would load more, and nobody observes the row that
  comes back when the search is cleared, because the search is not among the effect's dependencies
  (`QueueHistoryDialog.tsx:192`): the list shows its rows and loads no more until a filter changes or the
  dialog is reopened;
* sorting by Worker
  selection sorts by time, sorting by device goes by file name and not by what is shown;
* Load more of the device panel replaces the rows instead of adding to them.

## 7. Abstractions, what is left out, and the plan

Assumptions: persisting succeeds; a kill and the following load are one step;
`submit_result` after `release_for_retry` is one step, as nothing awaits in between under
an uncontended lock; `validate_only` is never set by a caller, and `prune_old_terminal` has
none; a push may succeed whatever it pushes; `_restart_self` is a restart; the number of
bytes of a venv is not modelled, so a sweep may stop after any eviction; a waiter's event
and the entry in `_installing` go in one step; a file lock that cannot be taken, and a
binary that cannot be removed in a round of the budget, are not modelled. `update_status` and `append_log` change text no method reads.

In the web UI: a request is served in one step; React's effects run to completion before the
next event; polls of one kind are one read; what a cell looks like is left out. `FleetPage` has one
operation with requests on their way at a time, `ConfigEditor` and `DeviceTable` have several.
The page has read the routing rules once before anything is clicked: an Upgrade window
confirmed earlier checks no rule (`UpgradeModal.tsx:385`).
`HistoryBrowser` serves a request when its answer arrives. A row of the history is submitted in the order it
finishes.

Not modelled: YAML parsing and bundling (pure I/O, present as the outcome of
`HandOver`/`BundleFails`), authentication and discovery (stateless), the Home Assistant
integration (it polls and presents), statistics (pure reads), completion and validation output
of the editor, ping, rendered configuration and connect dialogs (one answer each), worker
removal and diagnostics buttons (one request each).

Plan, in this order:

1. Settings rows of the drawer (`SettingsDrawer.tsx` 576-863): a value that arrives while a change is on
   its way and then fails is overwritten by the older one.
2. Target build caches and the ESP-IDF install lock (`client.py` 530-990, 1798-1912), with the
   targets and toolchains of the quota sweep (`disk_quota.py` 194-504).
3. Registry: identity adoption, persistence, health hysteresis (`registry.py`,
   `worker_tags.py`, `worker_disk_quotas.py`).
4. Scheduler: recurring and one-time fires against edits, at most one fire per slot of time.
5. ESPHome install and refresh (`main.py` 1221-1367, `scanner.py` 109-253); device poller;
   event bus, log and diagnostics brokers; Proxmox scaler.
