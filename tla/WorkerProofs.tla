---------------------------- MODULE WorkerProofs ----------------------------
(***************************************************************************)
(* Proofs about the process of a build worker: its threads and flags       *)
(* (WorkerLifecycle), for every number of slots, every cap of the update   *)
(* attempts and every bound on failures, releases, requests and restarts;  *)
(* and the virtualenvs it builds with (VenvCache), for any number of slots *)
(* and versions, any limits of the two managers and any number of tasks.   *)
(***************************************************************************)
EXTENDS WorkerLifecycle, VenvCache, FiniteSetTheorems, TLAPS

(* The threads of the worker *)

Stations == {"check", "polling", "claimed", "job", "stopped"}

\* The slots inside run_job, for the states sl of the slot threads.
Running(sl) == {s \in Slots : sl[s] = "job"}

AllStopped == \A s \in Slots : slot[s] = "stopped"

\* While the main thread boots, registers or replaces the code, no slot thread is alive.
\* main starts in boot, from which it may go straight to apply, so boot is part of it.
Quiet == main \in {"boot", "register", "apply"} => AllStopped

\* _active_jobs counts every slot in run_job, and perhaps jobs whose set-up failed.
Counted == active \in Int /\ active >= Cardinality(Running(slot))

LInv ==
  /\ slot \in [Slots -> Stations]
  /\ Quiet
  /\ Counted

-----------------------------------------------------------------------------
(* Counting the slots in run_job *)

\* The number of running slots after one slot has moved.
LEMMA RunningMoves ==
  ASSUME NEW sl \in [Slots -> Stations], NEW s \in Slots, NEW to \in Stations
  PROVE  LET new == [sl EXCEPT ![s] = to]
         IN  /\ Cardinality(Running(sl)) \in Nat
             /\ (sl[s] = "job" <=> to = "job") =>
                  Cardinality(Running(new)) = Cardinality(Running(sl))
             /\ sl[s] # "job" /\ to = "job" =>
                  Cardinality(Running(new)) = Cardinality(Running(sl)) + 1
             /\ sl[s] = "job" /\ to # "job" =>
                  Cardinality(Running(new)) = Cardinality(Running(sl)) - 1
<1> DEFINE new == [sl EXCEPT ![s] = to]
<1>1. IsFiniteSet(Running(sl)) /\ Cardinality(Running(sl)) \in Nat
  BY LifecycleAssumption, FS_Subset, FS_CardinalityType DEF Running
<1>2. (sl[s] = "job" <=> to = "job") => Running(new) = Running(sl)
  BY DEF Running
<1>3. sl[s] # "job" /\ to = "job" => s \notin Running(sl) /\ Running(new) = Running(sl) \cup {s}
  BY DEF Running
<1>4. sl[s] = "job" /\ to # "job" => s \in Running(sl) /\ Running(new) = Running(sl) \ {s}
  BY DEF Running
<1>5. s \notin Running(sl) => Cardinality(Running(sl) \cup {s}) = Cardinality(Running(sl)) + 1
  BY <1>1, FS_AddElement
<1>6. s \in Running(sl) => Cardinality(Running(sl) \ {s}) = Cardinality(Running(sl)) - 1
  BY <1>1, FS_RemoveElement
<1> QED
  BY <1>1, <1>2, <1>3, <1>4, <1>5, <1>6

\* No slot runs a job when every slot is in one and the same other place.
LEMMA NoneRunning ==
  ASSUME NEW where, where # "job"
  PROVE  Cardinality(Running([s \in Slots |-> where])) = 0
<1>1. Running([s \in Slots |-> where]) = {}
  BY DEF Running
<1> QED
  BY <1>1, FS_EmptySet

-----------------------------------------------------------------------------
(* The invariant *)

LEMMA InitLInv == Init => LInv
<1> SUFFICES ASSUME Init PROVE LInv
  OBVIOUS
<1>1. slot \in [Slots -> Stations] /\ AllStopped
  BY DEF Init, Stations, AllStopped
<1>2. Cardinality(Running([s \in Slots |-> "stopped"])) = 0
  BY NoneRunning
<1>3. Counted
  BY <1>2 DEF Init, Counted
<1> QED
  BY <1>1, <1>3 DEF LInv, Quiet

\* A slot thread that is alive moves; the main thread is then not in the quiet part.
LEMMA SlotMoves ==
  ASSUME LInv, NEW s \in Slots, NEW from \in Stations, NEW to \in Stations,
         Goto(s, from, to), from # "stopped",
         main' = main,
         \/ active' = active /\ to # "job"
         \/ active' = active + 1 /\ to = "job"
         \/ active' = active - 1 /\ from = "job" /\ to # "job"
  PROVE  LInv'
<1>1. slot[s] = from /\ slot' = [slot EXCEPT ![s] = to] /\ slot \in [Slots -> Stations]
  BY DEF Goto, LInv
<1>2. slot' \in [Slots -> Stations]
  BY <1>1
<1>3. main \notin {"boot", "register", "apply"}
  BY <1>1 DEF LInv, Quiet, AllStopped
<1>4. active \in Int /\ active >= Cardinality(Running(slot))
  BY DEF LInv, Counted
<1>5. /\ Cardinality(Running(slot)) \in Nat
      /\ (slot[s] = "job" <=> to = "job") =>
           Cardinality(Running(slot')) = Cardinality(Running(slot))
      /\ slot[s] # "job" /\ to = "job" =>
           Cardinality(Running(slot')) = Cardinality(Running(slot)) + 1
      /\ slot[s] = "job" /\ to # "job" =>
           Cardinality(Running(slot')) = Cardinality(Running(slot)) - 1
  BY <1>1, RunningMoves
<1>6. active' \in Int /\ active' >= Cardinality(Running(slot'))
  <2> DEFINE n == Cardinality(Running(slot))
             m == Cardinality(Running(slot'))
  <2>1. /\ n \in Nat /\ active >= n
        /\ (from = "job" <=> to = "job") => m = n
        /\ from # "job" /\ to = "job" => m = n + 1
        /\ from = "job" /\ to # "job" => m = n - 1
    BY <1>1, <1>4, <1>5
  <2> HIDE DEF n, m
  <2>2. active' \in Int /\ active' >= m
    BY <1>4, <2>1
  <2> QED
    BY <2>2 DEF m
<1>7. Counted'
  BY <1>6 DEF Counted, Running
<1>8. Quiet'
  BY <1>3 DEF Quiet
<1> QED
  BY <1>2, <1>7, <1>8 DEF LInv

\* A process that has just started keeps it, whatever went before.
LEMMA BootedLInv == Booted => LInv'
<1> SUFFICES ASSUME Booted PROVE LInv'
  OBVIOUS
<1>1. slot' = [s \in Slots |-> "stopped"] /\ active' = 0 /\ main' = "boot"
  BY DEF Booted
<1>2. slot' \in [Slots -> Stations] /\ AllStopped'
  BY <1>1 DEF Stations, AllStopped
<1>3. Cardinality(Running(slot')) = 0
  BY <1>1, NoneRunning
<1>4. Counted'
  BY <1>1, <1>3 DEF Counted, Running
<1> QED
  BY <1>2, <1>4 DEF LInv, Quiet

\* _launch_workers: the main thread leaves the quiet part as it starts the slots.
LEMMA LaunchLInv ==
  ASSUME LInv, Launch, active' = active
  PROVE  LInv'
<1>1. slot' = [s \in Slots |-> "check"] /\ main' = "loop"
  BY DEF Launch
<1>2. slot' \in [Slots -> Stations]
  BY <1>1 DEF Stations
<1>3. active \in Int /\ active >= Cardinality(Running(slot))
  BY DEF LInv, Counted
<1>4. Cardinality(Running(slot)) \in Nat
  BY LifecycleAssumption, FS_Subset, FS_CardinalityType DEF Running
<1>5. Cardinality(Running(slot')) = 0
  BY <1>1, NoneRunning
<1>6. Counted'
  BY <1>3, <1>4, <1>5 DEF Counted, Running
<1> QED
  BY <1>1, <1>2, <1>6 DEF LInv, Quiet

\* A step that moves no slot, and enters the quiet part only with all of them ended.
LEMMA OthersLInv ==
  ASSUME LInv, slot' = slot, active' = active,
         main' \in {"boot", "register", "apply"} =>
           main \in {"boot", "register", "apply"} \/ AllStopped
  PROVE  LInv'
  BY DEF LInv, Quiet, AllStopped, Counted, Running

LEMMA NextLInv ==
  ASSUME LInv, [Next]_vars
  PROVE  LInv'
<1> USE DEF Stations
<1>0. active \in Int
  BY DEF LInv, Counted
<1>1. ASSUME NEW s \in Slots, Check(s)
      PROVE  LInv'
  <2>1. main' = main /\ active' = active
    BY <1>1 DEF Check
  <2>2. Goto(s, "check", "stopped") \/ Goto(s, "check", "polling")
    BY <1>1 DEF Check
  <2> QED
    BY <1>0, <2>1, <2>2, SlotMoves
<1>2. ASSUME NEW s \in Slots, Answer(s)
      PROVE  LInv'
  <2>1. main' = main /\ active' = active
    BY <1>2 DEF Answer
  <2>2. Goto(s, "polling", "claimed") \/ Goto(s, "polling", "check")
    BY <1>2 DEF Answer
  <2> QED
    BY <1>0, <2>1, <2>2, SlotMoves
<1>3. ASSUME NEW s \in Slots, StartJob(s)
      PROVE  LInv'
  <2>1. main' = main /\ active' = active + 1 /\ Goto(s, "claimed", "job")
    BY <1>3 DEF StartJob
  <2> QED
    BY <1>0, <2>1, SlotMoves
<1>4. ASSUME NEW s \in Slots, Finish(s)
      PROVE  LInv'
  <2>1. main' = main /\ active' = active - 1 /\ Goto(s, "job", "check")
    BY <1>4 DEF Finish
  <2> QED
    BY <1>0, <2>1, SlotMoves
<1>5. ASSUME NEW s \in Slots, SetupFails(s)
      PROVE  LInv'
  <2>1. main' = main /\ active' = active /\ Goto(s, "job", "check")
    BY <1>5 DEF SetupFails
  <2> QED
    BY <1>0, <2>1, SlotMoves
<1>6. CASE BeatStep \/ BeatLost
  BY <1>6, OthersLInv DEF BeatStep, Beat, BeatReceived, BeatCleaned, BeatLost
<1>7. CASE Boot
  <2>1. active' = active
    BY <1>7 DEF Boot
  <2>2. Launch \/ (main = "boot" /\ main' = "apply" /\ slot' = slot)
    BY <1>7 DEF Boot
  <2> QED
    BY <2>1, <2>2, LaunchLInv, OthersLInv
<1>8. CASE BeginReregister \/ BeginUpdate \/ BeginClean \/ EndClean
  BY <1>8, OthersLInv DEF BeginReregister, BeginUpdate, BeginClean, EndClean
<1>9. CASE Joined
  BY <1>9, OthersLInv DEF Joined, AllStopped
<1>10. CASE Register
  BY <1>10, LaunchLInv DEF Register
<1>11. CASE ApplyFails
  BY <1>11, LaunchLInv DEF ApplyFails
<1>12. CASE ApplyWorks \/ Restart
  BY <1>12, BootedLInv DEF ApplyWorks, Restart
<1>13. CASE Forget \/ Release \/ AskClean
  BY <1>13, OthersLInv DEF Forget, Release, AskClean
<1>14. CASE UNCHANGED vars
  BY <1>14, OthersLInv DEF vars
<1> QED
  BY <1>1, <1>2, <1>3, <1>4, <1>5, <1>6, <1>7, <1>8, <1>9, <1>10, <1>11, <1>12, <1>13, <1>14
     DEF Next, SlotStep, MainStep

\* The inductive invariant of the worker's threads.
THEOREM LifecycleInvariant == Spec => []LInv
<1>1. LInv /\ [Next]_vars => LInv'
  BY NextLInv
<1> QED
  BY <1>1, InitLInv, PTL DEF Spec

\* Registration and code change only when no slot thread is alive: for any number of
\* slots, whatever polls, jobs, set-up failures and restarts came before.
THEOREM SwapIsQuiet == Spec => []QuietSwap
<1>1. LInv => QuietSwap
  BY DEF LInv, Quiet, AllStopped, QuietSwap
<1> QED
  BY <1>1, LifecycleInvariant, PTL

\* What _is_idle promises to the main thread and to a clean request of the heartbeat:
\* with the count at zero no slot is inside run_job, leaked counts or not.
IdleRunsNothing == Idle => \A s \in Slots : slot[s] # "job"

\* _is_idle is true only when no slot thread is inside run_job: the counter may
\* be too high, after a failed set-up, but never too low.
THEOREM IdleIsIdle == Spec => []IdleRunsNothing
<1>1. LInv => IdleRunsNothing
  <2> SUFFICES ASSUME LInv, active = 0, NEW s \in Slots, slot[s] = "job"
               PROVE  FALSE
    BY DEF IdleRunsNothing, Idle
  <2>1. IsFiniteSet(Running(slot)) /\ Cardinality(Running(slot)) \in Nat
    BY LifecycleAssumption, FS_Subset, FS_CardinalityType DEF Running
  <2>2. Cardinality(Running(slot)) = 0
    BY <2>1 DEF LInv, Counted
  <2>3. Running(slot) = {}
    BY <2>1, <2>2, FS_EmptySet
  <2> QED
    BY <2>3 DEF Running
<1> QED
  BY <1>1, LifecycleInvariant, PTL

-----------------------------------------------------------------------------
(* The virtualenvs *)

Places == {"free", "ensure", "waiting", "locking", "installing", "installed",
           "ready", "building", "done"}

\* Between _installing[v] = event and the pop that wakes the waiters.
Owning == {"locking", "installing", "installed"}

\* The jobs that build with v.
Builders(v) == {p \in Threads : at[p] = "building" /\ ver[p] = v}

\* What the proofs need of the types.
Typed ==
  /\ at \in [Procs -> Places]
  /\ ver \in [Procs -> Versions \cup {None}]
  /\ \A p \in Procs : at[p] # "free" => ver[p] \in Versions
  /\ lock \in [Versions -> Procs \cup {None}]
  /\ installing \subseteq Versions
  /\ pins \in [Versions -> Int]

\* Whoever is inside the with statement of the file lock holds it.
HoldsLock == \A p \in Procs : at[p] \in {"installing", "installed"} => lock[ver[p]] = p

\* _installing names exactly the versions that a slot of this worker is installing,
\* and only one slot does.
Registered ==
  /\ \A p \in Threads : at[p] \in Owning => ver[p] \in installing
  /\ \A p, q \in Threads : at[p] \in Owning /\ at[q] \in Owning /\ ver[p] = ver[q] => p = q
  /\ \A v \in installing : \E p \in Threads : at[p] \in Owning /\ ver[p] = v

\* A slot that waits for an event waits for one that is still to be set.
WaitersRegistered == \A p \in Threads : at[p] = "waiting" => ver[p] \in installing

\* The server waits for no event.
ServerPlaces == at[Server] \in {"free", "ready"} \cup Owning

VInv == Typed /\ HoldsLock /\ Registered /\ WaitersRegistered /\ ServerPlaces /\ PinsCountJobs

-----------------------------------------------------------------------------
(* Steps that leave the pins alone, and steps that pin or unpin *)

\* Pins and builders stay what they are.
LEMMA SameBuilders ==
  ASSUME PinsCountJobs, pins' = pins,
         \A p \in Threads, v \in Versions :
           (at'[p] = "building" /\ ver'[p] = v) <=> (at[p] = "building" /\ ver[p] = v)
  PROVE  PinsCountJobs'
<1>1. \A v \in Versions : {p \in Threads : at'[p] = "building" /\ ver'[p] = v} = Builders(v)
  BY DEF Builders
<1> QED
  BY <1>1 DEF PinsCountJobs, Builders

LEMMA InitVInv == VenvInit => VInv
<1> SUFFICES ASSUME VenvInit PROVE VInv
  OBVIOUS
<1>1. at = [p \in Procs |-> "free"] /\ ver = [p \in Procs |-> None]
  BY DEF VenvInit
<1>2. Server \in Procs /\ \A p \in Threads : p \in Procs
  BY DEF Procs
<1>3. Typed
  BY <1>1 DEF VenvInit, Typed, Places
<1>4. HoldsLock /\ Registered /\ WaitersRegistered /\ ServerPlaces
  BY <1>1, <1>2 DEF VenvInit, HoldsLock, Registered, WaitersRegistered, ServerPlaces, Owning
<1>5. ASSUME NEW v \in Versions
      PROVE  pins[v] = Cardinality({p \in Threads : at[p] = "building" /\ ver[p] = v})
  <2>1. {p \in Threads : at[p] = "building" /\ ver[p] = v} = {}
    BY <1>1, <1>2
  <2> QED
    BY <2>1, FS_EmptySet DEF VenvInit
<1> QED
  BY <1>3, <1>4, <1>5 DEF VInv, PinsCountJobs

\* The steps that change nothing the invariant speaks of.
LEMMA QuietStep ==
  ASSUME VInv, UNCHANGED <<installing, lock, at, ver, pins>>
  PROVE  VInv'
  BY DEF VInv, Typed, HoldsLock, Registered, WaitersRegistered, ServerPlaces, PinsCountJobs

\* A slot or the server moves on its own, between places outside run_job's pin.
LEMMA MoveStep ==
  ASSUME VInv, NEW p \in Procs, NEW to \in Places, NEW v \in Versions \cup {None},
         at' = [at EXCEPT ![p] = to], ver' = [ver EXCEPT ![p] = v],
         UNCHANGED <<installing, lock, pins>>,
         v # ver[p] => at[p] = "free",
         to # "free" => v \in Versions,
         at[p] \notin Owning \cup {"building"},
         to \notin Owning \cup {"building"},
         to = "waiting" => p \in Threads /\ v \in installing,
         p = Server => to \in {"free", "ready"}
  PROVE  VInv'
<1>1. Typed'
  BY DEF VInv, Typed
<1>2. HoldsLock'
  BY DEF VInv, Typed, HoldsLock, Owning
<1>3. Registered'
  BY DEF VInv, Typed, Registered, Procs
<1>4. WaitersRegistered'
  BY DEF VInv, Typed, WaitersRegistered, Procs
<1>5. ServerPlaces'
  BY DEF VInv, Typed, ServerPlaces, Procs
<1>6. PinsCountJobs'
  BY SameBuilders DEF VInv, Typed, Procs
<1> QED
  BY <1>1, <1>2, <1>3, <1>4, <1>5, <1>6 DEF VInv

-----------------------------------------------------------------------------
(* ensure_version *)

\* A slot that finds the version neither complete nor in _installing enters it there.
LEMMA OwnStep ==
  ASSUME VInv, NEW p \in Threads, Own(p)
  PROVE  VInv'
<1>1. /\ at[p] = "ensure" /\ ver[p] \notin installing
      /\ at' = [at EXCEPT ![p] = "locking"]
      /\ installing' = installing \cup {ver[p]}
      /\ UNCHANGED <<lock, ver, pins>>
  BY DEF Own
<1>2. p \in Procs /\ p # Server /\ ver[p] \in Versions
  BY <1>1, VenvAssumption DEF VInv, Typed, Procs
<1>3. Typed'
  BY <1>1, <1>2 DEF VInv, Typed, Places
<1>4. HoldsLock'
  BY <1>1, <1>2 DEF VInv, Typed, HoldsLock
<1>5. Registered'
  BY <1>1, <1>2 DEF VInv, Typed, Registered, Owning, Procs
<1>6. WaitersRegistered' /\ ServerPlaces'
  BY <1>1, <1>2 DEF VInv, Typed, WaitersRegistered, ServerPlaces, Procs
<1>7. PinsCountJobs'
  BY <1>1, <1>2, SameBuilders DEF VInv, Typed, Procs
<1> QED
  BY <1>3, <1>4, <1>5, <1>6, <1>7 DEF VInv

\* The server's own manager has a list of its own, and enters nothing in _installing.
LEMMA SelectStep ==
  ASSUME VInv, NEW v \in Versions, Select(v)
  PROVE  VInv'
<1>1. /\ at[Server] = "free" /\ ver' = [ver EXCEPT ![Server] = v]
      /\ at' = [at EXCEPT ![Server] = "ready"] \/ at' = [at EXCEPT ![Server] = "locking"]
      /\ UNCHANGED <<installing, lock, pins>>
  BY DEF Select
<1>2. Server \in Procs /\ Server \notin Threads
  BY VenvAssumption DEF Procs
<1>3. Typed'
  BY <1>1, <1>2 DEF VInv, Typed, Places
<1>4. HoldsLock'
  BY <1>1, <1>2 DEF VInv, Typed, HoldsLock
<1>5. Registered' /\ WaitersRegistered'
  BY <1>1, <1>2 DEF VInv, Typed, Registered, WaitersRegistered, Procs
<1>6. ServerPlaces'
  BY <1>1, <1>2 DEF VInv, Typed, ServerPlaces, Owning
<1>7. PinsCountJobs'
  BY <1>1, <1>2, SameBuilders DEF VInv, Typed, Procs
<1> QED
  BY <1>3, <1>4, <1>5, <1>6, <1>7 DEF VInv

\* The file lock goes to one process at a time.
LEMMA LockFileStep ==
  ASSUME VInv, NEW p \in Procs, LockFile(p)
  PROVE  VInv'
<1>1. /\ at[p] = "locking" /\ lock[ver[p]] = None
      /\ lock' = [lock EXCEPT ![ver[p]] = p]
      /\ at' = [at EXCEPT ![p] = "installed"] \/ at' = [at EXCEPT ![p] = "installing"]
      /\ UNCHANGED <<installing, ver, pins>>
  BY DEF LockFile
<1>2. ver[p] \in Versions /\ None \notin Procs
  BY <1>1, VenvAssumption DEF VInv, Typed, Procs
<1>3. Typed'
  BY <1>1, <1>2 DEF VInv, Typed, Places
<1>4. HoldsLock'
  BY <1>1, <1>2 DEF VInv, Typed, HoldsLock
<1>5. Registered'
  BY <1>1, <1>2 DEF VInv, Typed, Registered, Owning, Procs
<1>6. WaitersRegistered' /\ ServerPlaces'
  BY <1>1, <1>2 DEF VInv, Typed, WaitersRegistered, ServerPlaces, Owning, Procs
<1>7. PinsCountJobs'
  BY <1>1, <1>2, SameBuilders DEF VInv, Typed, Procs
<1> QED
  BY <1>3, <1>4, <1>5, <1>6, <1>7 DEF VInv

LEMMA InstallWorksStep ==
  ASSUME VInv, NEW p \in Procs, InstallWorks(p)
  PROVE  VInv'
<1>1. /\ at[p] = "installing" /\ at' = [at EXCEPT ![p] = "installed"]
      /\ UNCHANGED <<installing, lock, ver, pins>>
  BY DEF InstallWorks
<1>2. Typed'
  BY <1>1 DEF VInv, Typed, Places
<1>3. HoldsLock'
  BY <1>1 DEF VInv, Typed, HoldsLock
<1>4. Registered'
  BY <1>1 DEF VInv, Typed, Registered, Owning, Procs
<1>5. WaitersRegistered' /\ ServerPlaces'
  BY <1>1 DEF VInv, Typed, WaitersRegistered, ServerPlaces, Owning, Procs
<1>6. PinsCountJobs'
  BY <1>1, SameBuilders DEF VInv, Typed, Procs
<1> QED
  BY <1>2, <1>3, <1>4, <1>5, <1>6 DEF VInv

\* The lock is released and, by a slot, the event set: every waiter for it looks again.
LEMMA LeaveStep ==
  ASSUME VInv, NEW p \in Procs, NEW to \in {"free", "ready"},
         at[p] \in {"installing", "installed"},
         Unlocked(p), UNCHANGED <<ver, pins>>,
         IF p = Server THEN at' = [at EXCEPT ![p] = to] /\ UNCHANGED installing
         ELSE Woken(p, to)
  PROVE  VInv'
<1>1. ver[p] \in Versions /\ lock[ver[p]] = p /\ lock' = [lock EXCEPT ![ver[p]] = None]
  BY DEF VInv, Typed, HoldsLock, Unlocked
<1>2. /\ at' \in [Procs -> Places] /\ at'[p] = to
      /\ \A q \in Procs : q # p => at'[q] = at[q] \/ (at[q] = "waiting" /\ at'[q] = "ensure")
  BY DEF VInv, Typed, Woken, Places
<1>3. Typed'
  BY <1>1, <1>2 DEF VInv, Typed, Woken
<1>4. HoldsLock'
  BY <1>1, <1>2 DEF VInv, Typed, HoldsLock
<1>5. Registered' /\ WaitersRegistered' /\ ServerPlaces'
  <2>1. CASE p = Server
    <3>1. Server \notin Threads /\ at' = [at EXCEPT ![p] = to] /\ installing' = installing
      BY <2>1, VenvAssumption
    <3> QED
      BY <2>1, <3>1, <1>2
         DEF VInv, Typed, Registered, WaitersRegistered, ServerPlaces, Procs, Owning
  <2>2. CASE p # Server
    <3>1. /\ p \in Threads /\ Server \in Procs
          /\ installing' = installing \ {ver[p]}
          /\ \A q \in Procs : at[q] = "waiting" /\ ver[q] = ver[p] => at'[q] = "ensure"
      BY <2>2 DEF Procs, Woken, VInv, Typed
    <3>2. \A q \in Threads : at'[q] \in Owning => q # p /\ at'[q] = at[q]
      BY <1>2 DEF Owning, Procs
    <3>3. \A q \in Threads : at[q] \in Owning /\ q # p => at'[q] = at[q]
      BY <1>2 DEF Owning, Procs
    <3>4. at[p] \in Owning
      BY DEF Owning
    <3>5. Registered'
      BY <3>1, <3>2, <3>3, <3>4 DEF VInv, Registered
    <3>6. WaitersRegistered'
      BY <1>2, <3>1 DEF VInv, WaitersRegistered, Procs
    <3>7. ServerPlaces'
      BY <1>2, <2>2, <3>1 DEF VInv, ServerPlaces, Owning
    <3> QED
      BY <3>5, <3>6, <3>7
  <2> QED
    BY <2>1, <2>2
<1>6. PinsCountJobs'
  BY <1>2, SameBuilders DEF VInv, Procs
<1> QED
  BY <1>3, <1>4, <1>5, <1>6 DEF VInv

-----------------------------------------------------------------------------
(* run_job around its pin *)

\* The two steps that change a pin: p joins or leaves the builders of its version.
LEMMA PinStep ==
  ASSUME VInv, NEW p \in Threads, Pin(p) \/ Unpin(p)
  PROVE  VInv'
<1>1. /\ at[p] \in {"ready", "building"} /\ UNCHANGED <<installing, lock, ver>>
      /\ at' = [at EXCEPT ![p] = IF at[p] = "ready" THEN "building" ELSE "done"]
      /\ pins' = [pins EXCEPT ![ver[p]] = IF at[p] = "ready" THEN @ + 1 ELSE @ - 1]
  BY DEF Pin, Unpin
<1>2. p \in Procs /\ p # Server /\ ver[p] \in Versions
  BY <1>1, VenvAssumption DEF VInv, Typed, Procs
<1>3. Typed'
  BY <1>1, <1>2 DEF VInv, Typed, Places
<1>4. HoldsLock'
  BY <1>1, <1>2 DEF VInv, Typed, HoldsLock
<1>5. Registered'
  BY <1>1, <1>2 DEF VInv, Typed, Registered, Owning, Procs
<1>6. WaitersRegistered' /\ ServerPlaces'
  BY <1>1, <1>2 DEF VInv, Typed, WaitersRegistered, ServerPlaces, Procs
<1>7. ASSUME NEW v \in Versions
      PROVE  pins'[v] = Cardinality(Builders(v)')
  <2>1. IsFiniteSet(Builders(v)) /\ pins[v] = Cardinality(Builders(v))
    BY VenvAssumption, FS_Subset DEF Builders, VInv, PinsCountJobs
  <2>2. CASE v # ver[p]
    <3>1. Builders(v)' = Builders(v)
      BY <1>1, <1>2, <2>2 DEF Builders, VInv, Typed, Procs
    <3>2. pins'[v] = pins[v]
      BY <1>1, <2>2 DEF VInv, Typed
    <3> QED
      BY <2>1, <3>1, <3>2
  <2>3. CASE v = ver[p] /\ at[p] = "ready"
    <3>1. p \notin Builders(v) /\ Builders(v)' = Builders(v) \cup {p}
      BY <1>1, <1>2, <2>3 DEF Builders, VInv, Typed, Procs
    <3>2. pins'[v] = pins[v] + 1
      BY <1>1, <2>3 DEF VInv, Typed
    <3>3. Cardinality(Builders(v) \cup {p}) = Cardinality(Builders(v)) + 1
      BY <2>1, <3>1, FS_AddElement
    <3> QED
      BY <2>1, <3>1, <3>2, <3>3
  <2>4. CASE v = ver[p] /\ at[p] = "building"
    <3>1. p \in Builders(v) /\ Builders(v)' = Builders(v) \ {p}
      BY <1>1, <1>2, <2>4 DEF Builders, VInv, Typed, Procs
    <3>2. pins'[v] = pins[v] - 1
      BY <1>1, <2>4 DEF VInv, Typed
    <3>3. Cardinality(Builders(v) \ {p}) = Cardinality(Builders(v)) - 1
      BY <2>1, <3>1, FS_RemoveElement
    <3> QED
      BY <2>1, <3>1, <3>2, <3>3
  <2> QED
    BY <1>1, <2>2, <2>3, <2>4
<1>8. PinsCountJobs'
  BY <1>7 DEF PinsCountJobs, Builders
<1> QED
  BY <1>3, <1>4, <1>5, <1>6, <1>8 DEF VInv

-----------------------------------------------------------------------------

LEMMA NextVInv ==
  ASSUME VInv, [VenvNext]_venvVars
  PROVE  VInv'
<1>0. /\ Server \in Procs /\ Server \notin Threads /\ Threads \subseteq Procs
      /\ ver \in [Procs -> Versions \cup {None}]
      /\ \A p \in Procs : ver = [ver EXCEPT ![p] = ver[p]]
      /\ \A p \in Procs : at[p] # "free" => ver[p] \in Versions
  BY VenvAssumption DEF Procs, VInv, Typed
<1>1. ASSUME NEW p \in Threads, NEW v \in Versions, TakeJob(p, v)
      PROVE  VInv'
  <2>1. /\ at[p] = "free" /\ at' = [at EXCEPT ![p] = "ensure"]
        /\ ver' = [ver EXCEPT ![p] = v] /\ UNCHANGED <<installing, lock, pins>>
    BY <1>1 DEF TakeJob
  <2> QED
    BY <1>0, <2>1, MoveStep DEF Places, Owning
<1>2. ASSUME NEW p \in Threads, Hit(p)
      PROVE  VInv'
  <2>1. /\ at[p] = "ensure" /\ at' = [at EXCEPT ![p] = "ready"]
        /\ ver' = ver /\ UNCHANGED <<installing, lock, pins>>
    BY <1>2 DEF Hit
  <2> QED
    BY <1>0, <2>1, MoveStep DEF Places, Owning
<1>3. ASSUME NEW p \in Threads, Wait(p)
      PROVE  VInv'
  <2>1. /\ at[p] = "ensure" /\ at' = [at EXCEPT ![p] = "waiting"] /\ ver[p] \in installing
        /\ ver' = ver /\ UNCHANGED <<installing, lock, pins>>
    BY <1>3 DEF Wait
  <2> QED
    BY <1>0, <2>1, MoveStep DEF Places, Owning
<1>4. ASSUME NEW p \in Threads, WaitTimesOut(p)
      PROVE  VInv'
  <2>1. /\ at[p] = "waiting" /\ at' = [at EXCEPT ![p] = "free"]
        /\ ver' = ver /\ UNCHANGED <<installing, lock, pins>>
    BY <1>4 DEF WaitTimesOut
  <2> QED
    BY <1>0, <2>1, MoveStep DEF Places, Owning
<1>5. ASSUME NEW p \in Procs, Install(p)
      PROVE  VInv'
  <2>1. CASE InstallFails(p)
    BY <2>1, LeaveStep DEF InstallFails
  <2>2. CASE Installed(p)
    BY <2>2, LeaveStep DEF Installed
  <2> QED
    BY <1>5, <2>1, <2>2, LockFileStep, InstallWorksStep DEF Install
<1>6. CASE Publish
  <2>1. /\ at[Server] = "ready" /\ at' = [at EXCEPT ![Server] = "free"]
        /\ ver' = ver /\ UNCHANGED <<installing, lock, pins>>
    BY <1>6 DEF Publish
  <2> QED
    BY <1>0, <2>1, MoveStep DEF Places, Owning
<1>7. ASSUME NEW p \in Sweepers, BeginSweep(p)
      PROVE  VInv'
  <2>1. CASE p = Heartbeat
    BY <1>7, <2>1, QuietStep DEF BeginSweep
  <2>2. CASE p # Heartbeat
    <3>1. /\ p \in Threads /\ at[p] = "done" /\ at' = [at EXCEPT ![p] = "free"]
          /\ ver' = ver /\ UNCHANGED <<installing, lock, pins>>
      BY <1>7, <2>2 DEF BeginSweep, Sweepers
    <3> QED
      BY <1>0, <3>1, MoveStep DEF Places, Owning
  <2> QED
    BY <2>1, <2>2
<1>8. ASSUME NEW p \in Sweepers, Sweep(p)
      PROVE  VInv'
  BY <1>8, QuietStep DEF Sweep, ListVenvs, EvictVenv, EndPass
<1>9. CASE UNCHANGED venvVars
  BY <1>9, QuietStep DEF venvVars
<1> QED
  BY <1>0, <1>1, <1>2, <1>3, <1>4, <1>5, <1>6, <1>7, <1>8, <1>9, OwnStep, SelectStep, PinStep
     DEF VenvNext, Ensure

\* The inductive invariant of the version cache.
THEOREM VenvInvariant == VenvSpec => []VInv
<1>1. VInv /\ [VenvNext]_venvVars => VInv'
  BY NextVInv
<1> QED
  BY <1>1, InitVInv, PTL DEF VenvSpec

\* For any number of slots, versions, limits and sweeps, no two threads or processes
\* run _install for one version at a time: whoever does holds its file lock.
THEOREM InstallsExcludeEachOther == VenvSpec => []OneInstaller
<1>1. VInv => OneInstaller
  BY DEF VInv, HoldsLock, OneInstaller
<1> QED
  BY <1>1, VenvInvariant, PTL

\* The pins count the jobs that build with a version, however many begin and end
\* side by side, so snapshot() never misses a version in use.
THEOREM PinsAreCounts == VenvSpec => []PinsCountJobs
<1>1. VInv => PinsCountJobs
  BY DEF VInv
<1> QED
  BY <1>1, VenvInvariant, PTL

\* A slot that waits for an install waits for a slot that is still to set the event.
NobodyWaitsInVain ==
  \A p \in Threads : at[p] = "waiting" =>
    \E q \in Threads : at[q] \in {"locking", "installing", "installed"} /\ ver[q] = ver[p]

\* No wake-up of ensure_version is lost: through failed installs, time-outs and
\* evictions, every waiter has an installer that will set its event.
THEOREM NoLostWakeup == VenvSpec => []NobodyWaitsInVain
<1>1. VInv => NobodyWaitsInVain
  BY DEF VInv, Registered, WaitersRegistered, Owning, NobodyWaitsInVain
<1> QED
  BY <1>1, VenvInvariant, PTL

=============================================================================
