------------------------------ MODULE VenvCache ------------------------------
(***************************************************************************)
(* The ESPHome virtualenvs under /esphome-versions: VersionManager of      *)
(* ha-addon/client/version_manager.py, the pins and the sweep of           *)
(* disk_quota.py, and run_job of client.py, which uses both.               *)
(*                                                                         *)
(* The slots of a worker share one manager.  The server of the add-on      *)
(* makes a manager of its own for every call, over the same directory as   *)
(* the embedded worker.  A manager evicts what its LRU list names when a   *)
(* version is to be installed; a sweep evicts what a snapshot of the pins  *)
(* does not name.  Neither looks at the other.                             *)
(*                                                                         *)
(* Target caches and toolchain directories, which a sweep takes after the  *)
(* venvs by the same rule, are left out.                                   *)
(***************************************************************************)
EXTENDS Integers, SequencesExt

CONSTANTS
  Threads,    \* slot threads of the worker
  Server,     \* the server process
  Heartbeat,  \* the heartbeat thread, which sweeps when the quota goes down
  Versions,   \* ESPHome versions
  None,       \* no version and no owner
  MaxVersions,   \* MAX_ESPHOME_VERSIONS: 1
  ServerVersions,\* max_versions of ensure_esphome_installed: 5
  MaxTasks    \* bound: jobs of the slots, sweeps of the heartbeat and versions the
              \* server is told to install, together

ASSUME VenvAssumption ==
  /\ IsFiniteSet(Threads) /\ {Server, Heartbeat} \cap Threads = {} /\ Server # Heartbeat
  /\ None \notin Versions \cup Threads \cup {Server}
  /\ {MaxVersions, ServerVersions} \subseteq Nat \ {0}
  /\ MaxTasks \in Nat

VARIABLES
  dirs,       \* version directories, oldest modification time first
  complete,   \* versions with bin/esphome
  lru,        \* _lru of the worker's manager, least recently used first
  installing, \* _installing of the worker's manager
  lock,       \* lock[v]: who holds the file lock of v
  sentinel,   \* .server-active-version
  at,         \* at[p]: where a slot or the server is
  ver,        \* ver[p]: the version it works with
  pins,       \* _venvs of the ActiveJobSet: a count per version
  sweep,      \* sweep[p]: a sweep of slot or heartbeat under way
  tasksLeft   \* what is left of MaxTasks

venvVars == <<dirs, complete, lru, installing, lock, sentinel, at, ver, pins, sweep, tasksLeft>>

Procs == Threads \cup {Server}
Sweepers == Threads \cup {Heartbeat}

\* passes: the quota pass and the disk floor pass still to come.
NoSweep == [passes |-> 0, pinned |-> {}, todo |-> <<>>]

\* A worker starts with the venvs of earlier runs: _load_existing.
VenvInit ==
  /\ dirs \in UNION {SetToSeqs(V) : V \in SUBSET Versions}
  /\ complete = Range(dirs) /\ lru = dirs /\ installing = {}
  /\ lock = [v \in Versions |-> None]
  /\ sentinel \in Versions \cup {None}
  /\ at = [p \in Procs |-> "free"] /\ ver = [p \in Procs |-> None]
  /\ pins = [v \in Versions |-> 0]
  /\ sweep = [p \in Sweepers |-> NoSweep]
  /\ tasksLeft = MaxTasks

SpendTask == tasksLeft > 0 /\ tasksLeft' = tasksLeft - 1

MoveToEnd(s, v) == Append(Remove(s, v), v)

\* The directories with bin/esphome, oldest first.
Venvs == SelectSeq(dirs, LAMBDA v : v \in complete)

\* read_server_active_versions.
Protected == {sentinel} \ {None}

\* rmtree of the directories of the versions in V.
Wiped(V) ==
  /\ dirs' = SelectSeq(dirs, LAMBDA v : v \notin V)
  /\ complete' = complete \ V

-----------------------------------------------------------------------------
(* ensure_version *)

\* _evict_lru over list s: what n calls take, oldest first, sparing v and the
\* server's version.
Victims(s, v, n) ==
  LET free == SelectSeq(s, LAMBDA w : w # v /\ w \notin Protected)
  IN  {free[k] : k \in 1..(IF n < Len(free) THEN n ELSE Len(free))}

\* The victims of an install of v by a manager with list s that keeps max versions:
\* what its capacity takes, and more when the disk is low, but never the last one.
Evictions(s, v, max) ==
  LET must == IF Len(s) >= max THEN Len(s) - max + 1 ELSE 0
  IN  {Victims(s, v, n) : n \in must..(IF must < Len(s) THEN Len(s) - 1 ELSE must)}

\* A slot takes a job and calls ensure_version.
TakeJob(p, v) ==
  /\ p \in Threads /\ at[p] = "free" /\ SpendTask
  /\ at' = [at EXCEPT ![p] = "ensure"] /\ ver' = [ver EXCEPT ![p] = v]
  /\ UNCHANGED <<dirs, complete, lru, installing, lock, sentinel, pins, sweep>>

\* The version is there: it becomes the most recently used.
Hit(p) ==
  /\ p \in Threads /\ at[p] = "ensure" /\ ver[p] \in complete
  /\ lru' = MoveToEnd(lru, ver[p])
  /\ at' = [at EXCEPT ![p] = "ready"]
  /\ UNCHANGED <<dirs, complete, installing, lock, sentinel, ver, pins, sweep, tasksLeft>>

\* Another slot installs it: wait for its event.
Wait(p) ==
  /\ p \in Threads /\ at[p] = "ensure" /\ ver[p] \notin complete /\ ver[p] \in installing
  /\ at' = [at EXCEPT ![p] = "waiting"]
  /\ UNCHANGED <<dirs, complete, lru, installing, lock, sentinel, ver, pins, sweep, tasksLeft>>

\* Ten minutes have passed: ensure_version raises and the job fails.
WaitTimesOut(p) ==
  /\ at[p] = "waiting" /\ at' = [at EXCEPT ![p] = "free"]
  /\ UNCHANGED <<dirs, complete, lru, installing, lock, sentinel, ver, pins, sweep, tasksLeft>>

\* This slot will install it, and makes room first.
Own(p) ==
  /\ p \in Threads /\ at[p] = "ensure" /\ ver[p] \notin complete \cup installing
  /\ \E V \in Evictions(lru, ver[p], MaxVersions) :
       Wiped(V) /\ lru' = SelectSeq(lru, LAMBDA w : w \notin V)
  /\ installing' = installing \cup {ver[p]}
  /\ at' = [at EXCEPT ![p] = "locking"]
  /\ UNCHANGED <<lock, sentinel, ver, pins, sweep, tasksLeft>>

\* ensure_esphome_installed: a new manager whose list is what is on disk.
Select(v) ==
  /\ at[Server] = "free" /\ SpendTask
  /\ ver' = [ver EXCEPT ![Server] = v]
  /\ IF v \in complete
     THEN at' = [at EXCEPT ![Server] = "ready"] /\ UNCHANGED <<dirs, complete>>
     ELSE /\ at' = [at EXCEPT ![Server] = "locking"]
          /\ \E V \in Evictions(Venvs, v, ServerVersions) : Wiped(V)
  /\ UNCHANGED <<lru, installing, lock, sentinel, pins, sweep>>

\* Fault: an install goes ahead without the file lock.
LockFileUnlocked(p) ==
  LET v == ver[p]
  IN  /\ at[p] = "locking"
      /\ lock' = [lock EXCEPT ![v] = p]
      /\ IF v \in complete
         THEN at' = [at EXCEPT ![p] = "installed"] /\ UNCHANGED dirs
         ELSE at' = [at EXCEPT ![p] = "installing"] /\ dirs' = MoveToEnd(dirs, v)
      /\ UNCHANGED <<complete, lru, installing, sentinel, ver, pins, sweep, tasksLeft>>

\* The file lock is acquired.  Unless somebody else has finished in the meantime,
\* _install wipes what is there and starts with an empty directory.
LockFile(p) ==
  LET v == ver[p]
  IN  /\ at[p] = "locking" /\ lock[v] = None
      /\ lock' = [lock EXCEPT ![v] = p]
      /\ IF v \in complete
         THEN at' = [at EXCEPT ![p] = "installed"] /\ UNCHANGED dirs
         ELSE at' = [at EXCEPT ![p] = "installing"] /\ dirs' = MoveToEnd(dirs, v)
      /\ UNCHANGED <<complete, lru, installing, sentinel, ver, pins, sweep, tasksLeft>>

\* pip has returned 0.  If the directory went away meanwhile, the files that were
\* written after that decide whether there is a bin/esphome.
InstallWorks(p) ==
  LET v == ver[p]
  IN  /\ at[p] = "installing"
      /\ at' = [at EXCEPT ![p] = "installed"]
      /\ IF Contains(dirs, v)
         THEN complete' = complete \cup {v} /\ UNCHANGED dirs
         ELSE complete' \in {complete, complete \cup {v}} /\ dirs' = Append(dirs, v)
      /\ UNCHANGED <<lru, installing, lock, sentinel, ver, pins, sweep, tasksLeft>>

\* The end of the with statement of the file lock, by the one that may hold it.
Unlocked(p) == lock' = [lock EXCEPT ![ver[p]] = IF @ = p THEN None ELSE @]

\* pop from _installing and set the event: the waiters look again.
Woken(p, to) ==
  /\ installing' = installing \ {ver[p]}
  /\ at' = [q \in Procs |-> CASE q = p -> to
                              [] at[q] = "waiting" /\ ver[q] = ver[p] -> "ensure"
                              [] OTHER -> at[q]]

\* Fault: a failed install leaves its entry in _installing.
InstallFailsSilently(p) ==
  /\ at[p] = "installing"
  /\ Wiped({ver[p]}) /\ Unlocked(p)
  /\ at' = [q \in Procs |-> CASE q = p -> "free"
                              [] at[q] = "waiting" /\ ver[q] = ver[p] -> "ensure"
                              [] OTHER -> at[q]]
  /\ UNCHANGED <<lru, installing, sentinel, ver, pins, sweep, tasksLeft>>

\* _install removes its directory and raises: the job fails.
InstallFails(p) ==
  /\ at[p] = "installing"
  /\ Wiped({ver[p]}) /\ Unlocked(p)
  /\ IF p = Server THEN at' = [at EXCEPT ![p] = "free"] /\ UNCHANGED installing
     ELSE Woken(p, "free")
  /\ UNCHANGED <<lru, sentinel, ver, pins, sweep, tasksLeft>>

\* The lock is released, the list updated, and the version handed out.
Installed(p) ==
  /\ at[p] = "installed" /\ Unlocked(p)
  /\ IF p = Server THEN at' = [at EXCEPT ![p] = "ready"] /\ UNCHANGED <<lru, installing>>
     ELSE /\ lru' = IF Contains(lru, ver[p]) THEN lru ELSE Append(lru, ver[p])
          /\ Woken(p, "ready")
  /\ UNCHANGED <<dirs, complete, sentinel, ver, pins, sweep, tasksLeft>>

\* The server publishes the version it bundles with.
Publish ==
  /\ at[Server] = "ready" /\ at' = [at EXCEPT ![Server] = "free"]
  /\ sentinel' = ver[Server]
  /\ UNCHANGED <<dirs, complete, lru, installing, lock, ver, pins, sweep, tasksLeft>>

-----------------------------------------------------------------------------
(* run_job around its pin, and _run_disk_quota_sweep *)

Pin(p) ==
  /\ p \in Threads /\ at[p] = "ready" /\ at' = [at EXCEPT ![p] = "building"]
  /\ pins' = [pins EXCEPT ![ver[p]] = @ + 1]
  /\ UNCHANGED <<dirs, complete, lru, installing, lock, sentinel, ver, sweep, tasksLeft>>

\* Fault: the key goes with the first job that ends.
UnpinAll(p) ==
  /\ at[p] = "building" /\ at' = [at EXCEPT ![p] = "done"]
  /\ pins' = [pins EXCEPT ![ver[p]] = 0]
  /\ UNCHANGED <<dirs, complete, lru, installing, lock, sentinel, ver, sweep, tasksLeft>>

Unpin(p) ==
  /\ at[p] = "building" /\ at' = [at EXCEPT ![p] = "done"]
  /\ pins' = [pins EXCEPT ![ver[p]] = @ - 1]
  /\ UNCHANGED <<dirs, complete, lru, installing, lock, sentinel, ver, sweep, tasksLeft>>

\* ActiveJobSet.snapshot and the sentinel.
Snapshot == {v \in Versions : pins[v] > 0} \cup Protected

\* A sweep starts: after a job, or when a heartbeat lowers the quota.
BeginSweep(p) ==
  /\ sweep[p] = NoSweep
  /\ IF p = Heartbeat THEN SpendTask /\ UNCHANGED at
     ELSE at[p] = "done" /\ at' = [at EXCEPT ![p] = "free"] /\ UNCHANGED tasksLeft
  /\ sweep' = [sweep EXCEPT ![p] = [passes |-> 2, pinned |-> Snapshot, todo |-> <<>>]]
  /\ UNCHANGED <<dirs, complete, lru, installing, lock, sentinel, ver, pins>>

\* _evict_until lists the venvs: all but the newest may go, unless they are pinned.
ListVenvs(p) ==
  LET old == IF Venvs = <<>> THEN <<>> ELSE Front(Venvs)
  IN  /\ sweep[p].passes > 0 /\ sweep[p].todo = <<>>
      /\ sweep' = [sweep EXCEPT ![p].passes = @ - 1,
                     ![p].todo = SelectSeq(old, LAMBDA v : v \notin sweep[p].pinned)]
      /\ UNCHANGED <<dirs, complete, lru, installing, lock, sentinel, at, ver, pins, tasksLeft>>

\* Usage is still too high: the oldest of the list goes.  The LRU list is not told.
EvictVenv(p) ==
  /\ sweep[p].todo # <<>>
  /\ Wiped({Head(sweep[p].todo)})
  /\ sweep' = [sweep EXCEPT ![p].todo = Tail(@)]
  /\ UNCHANGED <<lru, installing, lock, sentinel, at, ver, pins, tasksLeft>>

\* Usage is low enough, so a pass ends; after the last one the sweep is over.
EndPass(p) ==
  /\ sweep[p] # NoSweep
  /\ sweep' = [sweep EXCEPT ![p] = IF @.passes = 0 THEN NoSweep ELSE [@ EXCEPT !.todo = <<>>]]
  /\ sweep' # sweep
  /\ UNCHANGED <<dirs, complete, lru, installing, lock, sentinel, at, ver, pins, tasksLeft>>

-----------------------------------------------------------------------------
Install(p) == LockFile(p) \/ InstallWorks(p) \/ InstallFails(p) \/ Installed(p)
Ensure(p) == Hit(p) \/ Wait(p) \/ Own(p) \/ Install(p)
Sweep(p) == ListVenvs(p) \/ EvictVenv(p) \/ EndPass(p)

VenvNext ==
  \/ \E p \in Threads, v \in Versions : TakeJob(p, v)
  \/ \E p \in Threads : Ensure(p) \/ WaitTimesOut(p) \/ Pin(p) \/ Unpin(p)
  \/ \E v \in Versions : Select(v)
  \/ Install(Server) \/ Publish
  \/ \E p \in Sweepers : BeginSweep(p) \/ Sweep(p)

VenvSpec == VenvInit /\ [][VenvNext]_venvVars

\* Threads run, a file lock goes to somebody who waits for it, and pip has a timeout.
\* Nobody needs the ten minutes of a waiter.
VenvFairSpec ==
  /\ VenvSpec
  /\ \A p \in Threads : WF_venvVars(Ensure(p)) /\ SF_venvVars(LockFile(p))
  /\ WF_venvVars(Install(Server))

-----------------------------------------------------------------------------
(* Properties *)

\* No two processes or threads install the same version at a time, or one would wipe
\* the directory the other is filling.
OneInstaller ==
  \A p, q \in Procs :
    at[p] = "installing" /\ at[q] = "installing" /\ ver[p] = ver[q] => p = q

\* A venv is pinned by every job that builds with it until the last of them ends.
PinsCountJobs ==
  \A v \in Versions :
    pins[v] = Cardinality({p \in Threads : at[p] = "building" /\ ver[p] = v})

\* ensure_version comes back, with the version or with an exception, whoever else
\* installs and evicts meanwhile.
EnsureReturns == \A p \in Threads : at[p] = "ensure" ~> at[p] \in {"ready", "free"}

=============================================================================
