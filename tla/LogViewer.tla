----------------------------- MODULE LogViewer -----------------------------
(* The log windows of the web UI: LogModal.tsx with its WebSocket and its     *)
(* polling chain, DeviceLogModal.tsx, and the effect of App.tsx that hands a  *)
(* build log over to the live log of the device it has flashed.               *)
(*                                                                            *)
(* A log is a number of lines. React runs effects to completion before the    *)
(* next event, so an action is one event with all the effects it causes.      *)
(* Callbacks of sockets, timers and requests are events of their own, and     *)
(* nothing ties them to the window that started them.                         *)
EXTENDS JobRows, Naturals, FiniteSets

CONSTANTS
  Jobs,       \* jobs of the queue
  Downloads,  \* those that are compiled for download only
  Worker,     \* the worker whose own log can be shown in the same window
  None,       \* the null of the code
  MaxLines,   \* bound on the length of a log
  MaxSockets, \* bound on WebSockets that are not yet fully closed
  MaxChains,  \* bound on polling chains alive at once
  MaxOpens    \* bound on how often the user opens a log

ASSUME LogAssumption ==
  /\ Downloads \subseteq Jobs
  /\ None \notin Jobs \cup {Worker}
  /\ Worker \notin Jobs
  /\ MaxLines \in Nat /\ MaxSockets \in Nat /\ MaxChains \in Nat /\ MaxOpens \in Nat

VARIABLES
  job,    \* the server's queue: state, OTA result and log of every job
  view,   \* what the last poll of /ui/api/queue brought
  log,    \* logJobId or logWorkerId: the source the log window shows
  watch,  \* logWatchRef
  editor, \* editorTarget # null
  live,   \* deviceLogTarget, deviceLogAwaitBoot and the state of its socket
  io,     \* the refs of LogModal: terminal, socket, polling
  opens   \* how many windows have been opened, and on what the last one

vars == <<job, view, log, watch, editor, live, io, opens>>

Sources == Jobs \cup {Worker}
Sockets == 1..MaxSockets
Chains == 1..MaxChains

\* A job is "new" before it is enqueued and "gone" after it was removed.
Present(row) == row.state \notin {"new", "gone"}

Row(j) == [state |-> job[j].state, ota |-> job[j].ota]
Queue == [j \in Jobs |-> Row(j)]

NoSocket == [state |-> "off", src |-> None, hint |-> FALSE]
NoChain == [state |-> "off", job |-> None, from |-> 0, upto |-> 0]
NoWatch == [job |-> None, saw |-> FALSE]
NoLive == [target |-> None, boot |-> FALSE, conn |-> "none"]
Closed == [src |-> None, present |-> FALSE, refresh |-> <<>>]

\* Lines a source offers to a reader that has none.
Lines(src) == IF src = Worker THEN MaxLines ELSE job[src].log
Text(src, from, upto) == {<<src, n>> : n \in (from + 1)..upto}

----------------------------------------------------------------------------
(* What the window asks of a row of the queue. *)

Running(j, row) ==
  isJobInProgress([state |-> row.state, ota |-> row.ota, download_only |-> j \in Downloads])

\* Fault: the outcome of the job is not part of the key.
KeyOfSource(src, v) ==
  [src |-> src, present |-> src \in Jobs /\ Present(v[src]), refresh |-> <<>>]

\* The job list entry a running window belongs to, its key for effects:
\* source, whether the queue has it, and the outcome once it is finished.
Key(src, v) ==
  [src     |-> src,
   present |-> src \in Jobs /\ Present(v[src]),
   refresh |-> IF src \in Jobs /\ v[src].state \in {"success", "failed"}
               THEN <<v[src].state, v[src].ota>> ELSE <<>>]

----------------------------------------------------------------------------
(* The effect of LogModal. w stands for the refs, a copy of io. *)

stopWs(w) ==
  [w EXCEPT !.sockets =
              [s \in Sockets |->
                 IF s # w.ref THEN @[s]
                 ELSE IF @[s].state = "connecting"
                      THEN [NoSocket EXCEPT !.state = "aborted", !.src = w.sockets[s].src]
                      ELSE [NoSocket EXCEPT !.state = "closing"]],
            !.ref = 0]

\* Fault: the job that is polled is not forgotten.
stopTimerOnly(w) ==
  [w EXCEPT !.chains = [c \in Chains |-> IF c = w.timer /\ @[c].state = "timer"
                                         THEN NoChain ELSE @[c]],
            !.timer = 0,
            !.offset = 0]

stopPolling(w) ==
  [w EXCEPT !.chains = [c \in Chains |-> IF c = w.timer /\ @[c].state = "timer"
                                         THEN NoChain ELSE @[c]],
            !.timer = 0,
            !.pollJob = None,
            !.offset = 0]

disposeTerminal(w) == [w EXCEPT !.term = {}, !.hasTerm = FALSE]

\* poll issues a request for the job and the offset the refs hold now.
\* A job the server no longer has is answered with 404.
Request(w) ==
  [state |-> IF ~Present(job[w.pollJob]) THEN "refused" ELSE "flight",
   job |-> w.pollJob, from |-> w.offset, upto |-> Lines(w.pollJob)]

FreeChains(w) == {c \in Chains : w.chains[c].state = "off"}
FreeSockets(w) == {s \in Sockets : w.sockets[s].state = "off"}

startJobPolling(w, j) ==
  LET armed == [w EXCEPT !.pollJob = j, !.offset = 0]
      c == CHOOSE c \in FreeChains(w) : TRUE
  IN [armed EXCEPT !.chains[c] = Request(armed)]

openSocket(w, src, hint) ==
  LET s == CHOOSE s \in FreeSockets(w) : TRUE
  IN [w EXCEPT !.sockets[s] = [state |-> "connecting", src |-> src, hint |-> hint],
               !.ref = s]

CleanUp(w) == disposeTerminal(stopPolling(stopWs(w)))

\* A new key disposes of everything and starts over for the new source.
Effect(w, src, v) ==
  LET key == Key(src, v)
      clean == [CleanUp(w) EXCEPT !.key = key]
      fresh == [clean EXCEPT !.hasTerm = TRUE]
  IN CASE key = w.key -> w
       [] key # w.key /\ src = None -> clean
       [] key # w.key /\ src = Worker -> openSocket(fresh, Worker, TRUE)
       [] key # w.key /\ src \in Jobs /\ ~key.present -> fresh
       [] key # w.key /\ src \in Jobs /\ key.present ->
            IF v[src].state \in {"working", "pending"}
            THEN openSocket(fresh, src, v[src].state = "pending")
            ELSE startJobPolling(fresh, src)

\* No callback of an abandoned socket has interfered with the refs of another
\* window. Behaviours are not followed further when one has: nothing is
\* claimed about what the window shows then.
Sound == ~io.stray

\* What an effect may need: the bounds leave room for it.
Room == Sound /\ FreeChains(io) # {} /\ FreeSockets(io) # {}

----------------------------------------------------------------------------
(* The effect of App that watches the open job. *)

\* Fault: what was seen of the job outlives the window.
WatchedOnce(src, v, w) ==
  IF src \notin Jobs THEN w
  ELSE IF ~Present(v[src]) THEN w
  ELSE [job |-> src, saw |-> w.saw \/ Running(src, v[src])]

Watched(src, v, w) ==
  LET own == IF w.job = src THEN w ELSE [job |-> src, saw |-> FALSE]
  IN IF src \notin Jobs THEN NoWatch
     ELSE IF ~Present(v[src]) THEN w
     ELSE [own EXCEPT !.saw = @ \/ Running(src, v[src])]

HandsOver(src, v, w, ed) ==
  /\ src \in Jobs
  /\ w.saw
  /\ v[src].state = "success" /\ v[src].ota = "success"
  /\ src \notin Downloads
  /\ ~ed

\* One render with its effects: of LogModal first, of App second, and again
\* of LogModal when App has closed the window.
Render(src, v, w, ed, lv) ==
  LET first == Effect(io, src, v)
      seen == Watched(src, v, w)
  IN IF HandsOver(src, v, seen, ed)
     THEN /\ log' = None
          /\ watch' = NoWatch
          /\ io' = Effect(first, None, v)
          /\ live' = [target |-> src, boot |-> TRUE, conn |-> "connecting"]
     ELSE /\ log' = src
          /\ watch' = seen
          /\ io' = first
          /\ live' = lv

----------------------------------------------------------------------------
(* The server. *)

Start(j) ==
  /\ Sound /\ job[j].state = "pending"
  /\ job' = [job EXCEPT ![j].state = "working"]
  /\ UNCHANGED <<view, log, watch, editor, live, io, opens>>

\* A frame goes to the terminal that exists now, whoever owns it; the first
\* one of a socket opened with a hint clears it.
Write(w, s, text) ==
  IF ~w.hasTerm \/ text = {} THEN w
  ELSE [w EXCEPT !.term = IF w.sockets[s].hint THEN text ELSE @ \cup text,
                 !.sockets[s].hint = FALSE]

\* At most one socket per job is live in the instances checked, so the order
\* of two subscribers does not matter.
append_log(j) ==
  /\ Sound /\ job[j].state = "working" /\ job[j].log < MaxLines - 1
  /\ job' = [job EXCEPT ![j].log = @ + 1]
  /\ LET subs == {s \in Sockets : io.sockets[s].state = "live" /\ io.sockets[s].src = j}
         line == Text(j, job[j].log, job[j].log + 1)
     IN \/ subs = {} /\ UNCHANGED io
        \/ \E s \in subs : io' = Write(io, s, line)
  /\ UNCHANGED <<view, log, watch, editor, live, opens>>

\* The result brings the whole log; without one the streamed text is kept.
Finish(j) ==
  /\ Sound /\ job[j].state = "working"
  /\ \E st \in {"success", "failed"}, ota \in OtaResults, n \in {job[j].log, MaxLines - 1} :
       /\ ota # "none" => st = "success" /\ j \notin Downloads
       /\ job' = [job EXCEPT ![j] = [state |-> st, ota |-> ota, log |-> n]]
  /\ UNCHANGED <<view, log, watch, editor, live, io, opens>>

\* The server's own push ends; its diagnostics are appended to the log.
OtaEnds(j) ==
  /\ Sound /\ job[j].state = "success" /\ job[j].ota = "none" /\ j \notin Downloads
  /\ \E ota \in {"success", "failed"} :
       job' = [job EXCEPT ![j].ota = ota, ![j].log = MaxLines]
  /\ UNCHANGED <<view, log, watch, editor, live, io, opens>>

\* Somebody clears a finished job in another browser tab. The removal of one
\* whose log is not open here makes no difference to the windows.
RemoveJob(j) ==
  /\ Sound /\ job[j].state \in {"success", "failed"} /\ view[j] = Row(j) /\ log = j
  /\ job' = [job EXCEPT ![j] = [state |-> "gone", ota |-> "none", log |-> 0]]
  /\ UNCHANGED <<view, log, watch, editor, live, io, opens>>

----------------------------------------------------------------------------
(* The page. *)

\* The 1 Hz poll of the queue.
Poll ==
  /\ Room /\ view # Queue
  /\ view' = Queue
  /\ Render(log, Queue, watch, editor, live)
  /\ UNCHANGED <<job, editor, opens>>

\* A ghost: was the job finished for the user when the log was opened?
Opened(how) == [n |-> opens.n + 1, how |-> how]

\* Nothing is on top of the tabs.
AtTabs == log = None /\ live.target = None

OpenLog(src) ==
  /\ Room /\ opens.n < MaxOpens
  /\ AtTabs
  /\ src \in Jobs => Present(view[src]) /\ view[src].state # "pending"
  /\ opens' = Opened(IF src \in Jobs /\ ~Running(src, view[src])
                     THEN "finished" ELSE "running")
  /\ Render(src, view, watch, editor, live)
  /\ UNCHANGED <<job, view, editor>>

\* The end of handleUpgradeConfirm for one device: the queue is read again
\* and the log of the new job opens, whatever is open by then.
UpgradeConfirmed(j) ==
  /\ Room /\ opens.n < MaxOpens
  /\ job[j].state = "new"
  /\ opens' = Opened("running")
  /\ job' = [job EXCEPT ![j].state = "pending"]
  /\ view' = [Queue EXCEPT ![j].state = "pending"]
  /\ Render(j, view', [job |-> j, saw |-> TRUE], editor, live)
  /\ UNCHANGED editor

\* Close, Rerun (which goes on in the Upgrade window) and Diff since compile.
CloseLog ==
  /\ log # None
  /\ Render(None, view, watch, editor, live)
  /\ UNCHANGED <<job, view, editor, opens>>

EditFromLog ==
  /\ log \in Jobs /\ Present(view[log]) /\ ~editor
  /\ editor' = TRUE
  /\ Render(None, view, watch, TRUE, live)
  /\ UNCHANGED <<job, view, opens>>

CloseEditor ==
  /\ Room /\ editor
  /\ editor' = FALSE
  /\ Render(log, view, watch, FALSE, live)
  /\ UNCHANGED <<job, view, opens>>

----------------------------------------------------------------------------
(* Callbacks of LogModal's sockets and of its polling chains. *)

\* The server sends what it has, and only then subscribes the socket.
WsHydrates(s) ==
  /\ io.sockets[s].state = "connecting"
  /\ io' = [Write(io, s, Text(io.sockets[s].src, 0, Lines(io.sockets[s].src)))
              EXCEPT !.sockets[s].state = "hydrated"]
  /\ UNCHANGED <<job, view, log, watch, editor, live, opens>>

WsSubscribes(s) ==
  /\ io.sockets[s].state = "hydrated"
  /\ io' = [io EXCEPT !.sockets[s].state = "live"]
  /\ UNCHANGED <<job, view, log, watch, editor, live, opens>>

\* onerror of a job's socket, followed by onclose. The handlers act on the
\* refs of the window, whichever socket those hold by now.
onerror(s) ==
  /\ FreeChains(io) # {}
  /\ LET src == io.sockets[s].src
         polled == IF src = Worker THEN io ELSE startJobPolling(stopWs(io), src)
     IN io' = [polled EXCEPT !.sockets[s] = NoSocket,
                             !.ref = 0,
                             !.stray = @ \/ s # io.ref]
  /\ UNCHANGED <<job, view, log, watch, editor, live, opens>>

\* onclose sets wsRef to null, even when it holds another socket by now.
onclose(s) ==
  /\ io' = [io EXCEPT !.sockets[s] = NoSocket,
                      !.ref = 0,
                      !.stray = @ \/ (s # io.ref /\ io.ref # 0)]
  /\ UNCHANGED <<job, view, log, watch, editor, live, opens>>

WsFails(s) == io.sockets[s].state \in {"connecting", "hydrated", "live"} /\ onerror(s)

WsDrops(s) == io.sockets[s].state = "live" /\ onclose(s)

\* A socket that close() found still connecting reports an error as well.
WsAborted(s) == io.sockets[s].state = "aborted" /\ onerror(s)

WsCloses(s) == io.sockets[s].state = "closing" /\ onclose(s)

\* The answer of a poll. finished makes no difference: both branches wait for
\* half a second and poll again.
PollAnswered(c) ==
  /\ io.chains[c].state = "flight"
  /\ LET r == io.chains[c]
         text == Text(r.job, r.from, r.upto)
     IN io' = [io EXCEPT !.term = IF io.hasTerm THEN @ \cup text ELSE @,
                         !.offset = IF io.pollJob = None THEN 0 ELSE r.upto,
                         !.chains[c] = [NoChain EXCEPT !.state = "timer"],
                         !.timer = c]
  /\ UNCHANGED <<job, view, log, watch, editor, live, opens>>

PollLost(c) ==
  /\ io.chains[c].state \in {"flight", "refused"}
  /\ io' = [io EXCEPT !.chains[c] = [NoChain EXCEPT !.state = "timer"], !.timer = c]
  /\ UNCHANGED <<job, view, log, watch, editor, live, opens>>

PollAgain(c) ==
  /\ io.chains[c].state = "timer"
  /\ io' = [io EXCEPT !.chains[c] = IF io.pollJob = None THEN NoChain ELSE Request(io),
                      !.timer = IF @ = c THEN 0 ELSE @]
  /\ UNCHANGED <<job, view, log, watch, editor, live, opens>>

----------------------------------------------------------------------------
(* DeviceLogModal. *)

\* By hand, from the Devices tab: deviceLogAwaitBoot is left as it is.
OpenLive(t) ==
  /\ opens.n < MaxOpens /\ AtTabs
  /\ opens' = Opened("running")
  /\ live' = [live EXCEPT !.target = t, !.conn = "connecting"]
  /\ UNCHANGED <<job, view, log, watch, editor, io>>

LiveStreams ==
  /\ live.conn = "connecting"
  /\ live' = [live EXCEPT !.conn = "open"]
  /\ UNCHANGED <<job, view, log, watch, editor, io, opens>>

\* onclose. Whether 90 s have passed since the window was opened is an input.
LiveDrops ==
  /\ live.conn \in {"connecting", "open"}
  /\ \E inWindow \in BOOLEAN :
       live' = [live EXCEPT !.conn = IF live.boot /\ inWindow THEN "waiting" ELSE "closed"]
  /\ UNCHANGED <<job, view, log, watch, editor, io, opens>>

LiveRetries ==
  /\ live.conn = "waiting"
  /\ live' = [live EXCEPT !.conn = "connecting"]
  /\ UNCHANGED <<job, view, log, watch, editor, io, opens>>

CloseLive ==
  /\ live.target # None
  /\ live' = NoLive
  /\ UNCHANGED <<job, view, log, watch, editor, io, opens>>

----------------------------------------------------------------------------
\* All jobs but one have run already, so that a log can be opened late.
Fresh == [state |-> "new", ota |-> "none", log |-> 0]
Done == [state |-> "success", ota |-> "success", log |-> MaxLines]

Init ==
  /\ \E j \in Jobs : job = [k \in Jobs |-> IF k = j THEN Fresh ELSE Done]
  /\ view = Queue
  /\ log = None /\ watch = NoWatch /\ editor = FALSE
  /\ live = NoLive
  /\ io = [key |-> Closed, hasTerm |-> FALSE, term |-> {},
           ref |-> 0, sockets |-> [s \in Sockets |-> NoSocket],
           pollJob |-> None, offset |-> 0, timer |-> 0,
           chains |-> [c \in Chains |-> NoChain], stray |-> FALSE]
  /\ opens = [n |-> 0, how |-> "running"]

Server == \E j \in Jobs : Start(j) \/ append_log(j) \/ Finish(j) \/ OtaEnds(j) \/ RemoveJob(j)

User ==
  \/ \E src \in Sources : OpenLog(src)
  \/ \E j \in Jobs : UpgradeConfirmed(j) \/ OpenLive(j)
  \/ CloseLog \/ EditFromLog \/ CloseEditor \/ CloseLive

Callbacks ==
  \/ \E s \in Sockets : WsHydrates(s) \/ WsSubscribes(s) \/ WsFails(s) \/ WsDrops(s)
                         \/ WsAborted(s) \/ WsCloses(s)
  \/ \E c \in Chains : PollAnswered(c) \/ PollLost(c) \/ PollAgain(c)
  \/ LiveStreams \/ LiveDrops \/ LiveRetries

Next == Server \/ User \/ Callbacks \/ Poll

Spec == Init /\ [][Next]_vars

(* The page polls once a second, close handshakes end, timers fire, and a     *)
(* request is answered or fails; of one that is repeated for ever, some are   *)
(* answered.                                                                  *)
Fairness ==
  /\ WF_vars(Poll)
  /\ \A s \in Sockets : WF_vars(WsAborted(s) \/ WsCloses(s))
  /\ \A c \in Chains : /\ SF_vars(PollAnswered(c))
                       /\ WF_vars(PollLost(c) \/ PollAgain(c))

FairSpec == Spec /\ Fairness

----------------------------------------------------------------------------
(* Properties *)

Shown(j) == Text(j, 0, job[j].log) \subseteq io.term
Finished(j) == job[j].state \in {"success", "failed"}

\* The window is on a finished job, and no callback of an abandoned socket
\* has interfered.
Reading(j) == log = j /\ Finished(j) /\ Room

\* A window that stays on a finished job ends up with the whole log, although
\* the job may finish, be pushed by the server and get its last lines while the
\* window streams, reconnects or polls.
LogComplete == \A j \in Jobs : Reading(j) ~> (Shown(j) \/ ~Reading(j))

Quiet == \A c \in Chains : io.chains[c].state = "off"
\* A closed window stops asking: a poll that was on its way when the window
\* closed does not keep the chain of polls alive.
ClosedIsQuiet == (log = None /\ Sound) ~> (Quiet \/ log # None \/ ~Sound)

\* The live log of a device takes over by itself only from the log of a job
\* that was opened while it ran and has been flashed since: never from a log
\* opened later, from a download, or over an editor.
HandOverEarned ==
  [][live'.boot /\ live'.target # live.target =>
       /\ log \in Jobs \ Downloads /\ live'.target = log
       /\ opens.how = "running" /\ ~editor'
       /\ job[log].ota = "success" \/ job[log].state = "gone"]_vars

=============================================================================
