--------------------------- MODULE WorkerLifecycle ---------------------------
(***************************************************************************)
(* The threads of one build worker, ha-addon/client/client.py: a slot      *)
(* thread per parallel job (worker_loop), the heartbeat thread and the     *)
(* main thread.                                                            *)
(*                                                                         *)
(* The heartbeat raises flags, the slots stop polling while one is up, and *)
(* the main thread waits until _active_jobs is 0 before it re-registers,   *)
(* replaces the code or wipes the build cache.  A slot counts itself in    *)
(* only inside run_job, after the server has given it a job.               *)
(***************************************************************************)
EXTENDS Integers, FiniteSets

CONSTANTS
  Slots,          \* slot threads: MAX_PARALLEL_JOBS of them
  MaxAttempts,    \* _MAX_UPDATE_ATTEMPTS
  UpdateFailures, \* bound: downloads of new code that fail
  SetupFailures,  \* bound: jobs whose build directory cannot be made
  Forgets,        \* bound: times the server loses the worker's row
  Releases,       \* bound: upgrades of the server
  Cleans,         \* bound: Clean Cache clicks
  Restarts        \* bound: restarts of the process

ASSUME LifecycleAssumption ==
  /\ IsFiniteSet(Slots) /\ Slots # {}
  /\ MaxAttempts \in Nat \ {0}
  /\ {UpdateFailures, SetupFailures, Forgets, Releases, Cleans, Restarts} \subseteq Nat

VARIABLES
  slot,      \* slot[s]: check, polling, claimed, job or stopped
  active,    \* _active_jobs
  rereg,     \* _reregister_needed
  update,    \* _update_available
  clean,     \* _clean_pending
  stop,      \* worker_stop
  main,      \* boot, loop, rejoin, register, upjoin, apply or cleaning
  hb,        \* where the heartbeat thread is
  reply,     \* what the heartbeat reply on its way says
  attempts,  \* _update_attempts, up to the value that gives up
  server,    \* what the server holds about this worker
  left       \* what is left of each bound

flags == <<rereg, update, clean>>
vars == <<slot, active, flags, stop, main, hb, reply, attempts, server, left>>

\* The state in which main() starts: nothing runs and every flag is down.
Booted ==
  /\ slot' = [s \in Slots |-> "stopped"]
  /\ active' = 0 /\ attempts' = 0
  /\ rereg' = FALSE /\ update' = FALSE /\ clean' = FALSE
  /\ stop' = FALSE /\ main' = "boot" /\ hb' = "wait" /\ reply' = {}

Init ==
  /\ slot = [s \in Slots |-> "stopped"]
  /\ active = 0 /\ attempts = 0
  /\ rereg = FALSE /\ update = FALSE /\ clean = FALSE
  /\ stop = FALSE /\ main = "boot" /\ hb = "wait" /\ reply = {}
  /\ server = [known |-> FALSE, newer |-> FALSE, clean |-> FALSE]
  /\ left = [update |-> UpdateFailures, setup |-> SetupFailures,
             forget |-> Forgets, release |-> Releases,
             clean |-> Cleans, restart |-> Restarts]

Spend(what) == left[what] > 0 /\ left' = [left EXCEPT ![what] = @ - 1]

\* _is_idle.
Idle == active = 0

-----------------------------------------------------------------------------
(* worker_loop and run_job *)

Goto(s, from, to) == slot[s] = from /\ slot' = [slot EXCEPT ![s] = to]

\* The head of the loop.  With a flag up the thread sleeps a second and looks again.
Check(s) ==
  /\ \/ stop /\ Goto(s, "check", "stopped")
     \/ ~stop /\ ~(rereg \/ update \/ clean) /\ Goto(s, "check", "polling")
  /\ UNCHANGED <<active, flags, stop, main, hb, reply, attempts, server, left>>

\* The answer of /jobs/next: a job, or nothing (204, an error, a timeout).
Answer(s) ==
  /\ Goto(s, "polling", "claimed") \/ Goto(s, "polling", "check")
  /\ UNCHANGED <<active, flags, stop, main, hb, reply, attempts, server, left>>

\* The first statement of run_job.
StartJob(s) ==
  /\ Goto(s, "claimed", "job")
  /\ active' = active + 1
  /\ UNCHANGED <<flags, stop, main, hb, reply, attempts, server, left>>

\* Fault: an early return of run_job leaves the count as it is.
FinishUncounted(s) ==
  /\ Goto(s, "job", "check")
  /\ UNCHANGED <<active, flags, stop, main, hb, reply, attempts, server, left>>

\* The end of run_job: its early return or its finally.
Finish(s) ==
  /\ Goto(s, "job", "check")
  /\ active' = active - 1
  /\ UNCHANGED <<flags, stop, main, hb, reply, attempts, server, left>>

\* os.makedirs of the build directory raises: this is before the try, so only
\* worker_loop catches it and the count stays.
SetupFails(s) ==
  /\ Goto(s, "job", "check")
  /\ Spend("setup")
  /\ UNCHANGED <<active, flags, stop, main, hb, reply, attempts, server>>

-----------------------------------------------------------------------------
(* heartbeat_loop *)

\* The request and the handler of the server, which drops pending_clean as it
\* tells the worker.
Beat ==
  /\ hb = "wait" /\ main # "boot"
  /\ hb' = "sent"
  /\ reply' = IF ~server.known THEN {"unknown"}
              ELSE {w \in {"newer", "clean"} : server[w]}
  /\ server' = [server EXCEPT !.clean = @ /\ ~server.known]
  /\ UNCHANGED <<slot, active, flags, stop, main, attempts, left>>

\* The reply is lost, and what it said with it.
BeatLost ==
  /\ hb = "sent" /\ hb' = "wait" /\ reply' = {}
  /\ UNCHANGED <<slot, active, flags, stop, main, attempts, server, left>>

\* The reply is processed: 404 asks for a registration, a newer version for an
\* update, and a clean request is served at once by an idle worker.
BeatReceived ==
  LET now == "clean" \in reply /\ Idle
  IN  /\ hb = "sent" /\ hb' = IF now THEN "cleaning" ELSE "wait"
      /\ reply' = {}
      /\ rereg' = (rereg \/ "unknown" \in reply)
      /\ update' = (update \/ "newer" \in reply)
      /\ clean' = (clean \/ ("clean" \in reply /\ ~now))
      /\ UNCHANGED <<slot, active, stop, main, attempts, server, left>>

BeatCleaned ==
  /\ hb = "cleaning" /\ hb' = "wait"
  /\ UNCHANGED <<slot, active, flags, stop, main, reply, attempts, server, left>>

-----------------------------------------------------------------------------
(* main *)

\* _launch_workers.
Launch ==
  /\ slot' = [s \in Slots |-> "check"]
  /\ stop' = FALSE /\ main' = "loop"

\* Registration, and the version check before the first poll: a heartbeat that may
\* not reach the server, or whose reply may be lost.  The server drops
\* pending_clean, and the check does not look at it.
Boot ==
  /\ main = "boot"
  /\ \E reached, heard \in BOOLEAN :
       /\ heard => reached
       /\ server' = [server EXCEPT !.known = TRUE, !.clean = @ /\ ~reached]
       /\ update' = (heard /\ server.newer)
       /\ IF update' THEN main' = "apply" /\ UNCHANGED <<slot, stop>> ELSE Launch
  /\ UNCHANGED <<active, rereg, clean, hb, reply, attempts, left>>

\* The flag goes down, then _stop_workers.
BeginReregister ==
  /\ main = "loop" /\ Idle /\ rereg
  /\ rereg' = FALSE /\ stop' = TRUE /\ main' = "rejoin"
  /\ UNCHANGED <<slot, active, update, clean, hb, reply, attempts, server, left>>

\* Fault: a pending clean is waited for, while the clean waits for the update.
BeginUpdateLast ==
  /\ main = "loop" /\ Idle /\ ~rereg /\ ~clean /\ update
  /\ stop' = TRUE /\ main' = "upjoin"
  /\ UNCHANGED <<slot, active, flags, hb, reply, attempts, server, left>>

BeginUpdate ==
  /\ main = "loop" /\ Idle /\ ~rereg /\ update
  /\ stop' = TRUE /\ main' = "upjoin"
  /\ UNCHANGED <<slot, active, flags, hb, reply, attempts, server, left>>

\* Fault: no thread is joined.
JoinedAtOnce ==
  /\ main \in {"rejoin", "upjoin"}
  /\ main' = IF main = "rejoin" THEN "register" ELSE "apply"
  /\ UNCHANGED <<slot, active, flags, stop, hb, reply, attempts, server, left>>

\* _stop_workers returns: every slot thread has ended.
Joined ==
  /\ main \in {"rejoin", "upjoin"}
  /\ \A s \in Slots : slot[s] = "stopped"
  /\ main' = IF main = "rejoin" THEN "register" ELSE "apply"
  /\ UNCHANGED <<slot, active, flags, stop, hb, reply, attempts, server, left>>

\* register() goes on until the server accepts, then the threads start anew.
Register ==
  /\ main = "register"
  /\ server' = [server EXCEPT !.known = TRUE]
  /\ Launch
  /\ UNCHANGED <<active, flags, hb, reply, attempts, left>>

\* _apply_update when it gives up or fails: the old code goes on.
ApplyFails ==
  /\ main = "apply"
  /\ update' = FALSE
  /\ IF attempts >= MaxAttempts THEN UNCHANGED <<attempts, left>>
     ELSE attempts' = attempts + 1 /\ Spend("update")
  /\ Launch
  /\ UNCHANGED <<active, rereg, clean, hb, reply, server>>

\* _apply_update when it works: os.execv with the server's code.
ApplyWorks ==
  /\ main = "apply" /\ attempts < MaxAttempts
  /\ Booted
  /\ server' = [server EXCEPT !.newer = FALSE]
  /\ UNCHANGED left

BeginClean ==
  /\ main = "loop" /\ Idle /\ ~rereg /\ ~update /\ clean
  /\ main' = "cleaning"
  /\ UNCHANGED <<slot, active, flags, stop, hb, reply, attempts, server, left>>

EndClean ==
  /\ main = "cleaning" /\ main' = "loop"
  /\ clean' = FALSE
  /\ UNCHANGED <<slot, active, rereg, update, stop, hb, reply, attempts, server, left>>

-----------------------------------------------------------------------------
(* What happens to the worker *)

\* _restart_self, which the heartbeat calls when the number of slots is to change,
\* or a stop and a start of the container: jobs do not end first.
Restart ==
  /\ Spend("restart") /\ Booted
  /\ UNCHANGED server

\* The server loses its registry.
Forget ==
  /\ server.known /\ Spend("forget")
  /\ server' = [server EXCEPT !.known = FALSE, !.clean = FALSE]
  /\ UNCHANGED <<slot, active, flags, stop, main, hb, reply, attempts>>

\* The server is upgraded.
Release ==
  /\ ~server.newer /\ Spend("release")
  /\ server' = [server EXCEPT !.newer = TRUE]
  /\ UNCHANGED <<slot, active, flags, stop, main, hb, reply, attempts>>

\* A user asks for a clean cache.
AskClean ==
  /\ server.known /\ Spend("clean")
  /\ server' = [server EXCEPT !.clean = TRUE]
  /\ UNCHANGED <<slot, active, flags, stop, main, hb, reply, attempts>>

-----------------------------------------------------------------------------
SlotStep(s) == Check(s) \/ Answer(s) \/ StartJob(s) \/ Finish(s)
BeatStep == Beat \/ BeatReceived \/ BeatCleaned
MainStep ==
  \/ Boot \/ BeginReregister \/ BeginUpdate \/ Joined \/ Register
  \/ ApplyFails \/ ApplyWorks \/ BeginClean \/ EndClean

Next ==
  \/ \E s \in Slots : SlotStep(s) \/ SetupFails(s)
  \/ BeatStep \/ BeatLost \/ MainStep
  \/ Restart \/ Forget \/ Release \/ AskClean

Spec == Init /\ [][Next]_vars

\* The threads run, a poll is answered or times out and run_job ends by its own
\* timeouts.  Lost replies, failures, releases and clicks need not happen.
FairSpec ==
  /\ Spec
  /\ WF_vars(MainStep) /\ WF_vars(BeatStep)
  /\ \A s \in Slots : WF_vars(SlotStep(s))

-----------------------------------------------------------------------------
(* Properties *)

\* The code and the registration change only when no slot thread is alive, so no
\* job sees two client ids or half of an update.
QuietSwap == main \in {"register", "apply"} => \A s \in Slots : slot[s] = "stopped"

\* Every job so far has been counted out again: none has failed in its set-up.
NoLeak == left.setup = SetupFailures

\* What the heartbeat asks for is served: a lost registration is renewed and an
\* update is tried, whatever the slots are doing, unless a count has leaked.
FlagsServed == []NoLeak => (rereg ~> ~rereg) /\ (update ~> ~update)

\* All attempts at an update are used up and the server still announces one: every
\* heartbeat raises the flag, and _apply_update does no more than take it down.
GivenUp == attempts = MaxAttempts /\ server.newer

\* No drain is for ever: a slot thread polls again, through failed updates and
\* cleans that wait for each other. Left out are a count that has leaked and a
\* worker that has given up on an update for good: there a pending clean is never
\* reached and keeps the slots from polling, until a restart.
WorkResumes ==
  []NoLeak /\ []<>~GivenUp => \A s \in Slots : []<>(slot[s] = "polling")

=============================================================================
