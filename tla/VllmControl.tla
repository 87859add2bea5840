---------------------------- MODULE VllmControl ----------------------------
(***************************************************************************)
(* ui/backend/vllm_control.py: start, stop and status of a managed `vllm   *)
(* serve`, and the watcher thread that every start leaves behind.  A       *)
(* critical section under _state.lock is one action; Popen, the signals,   *)
(* the wait, and the watcher's reads of the process, the log, the endpoint *)
(* and the clock are not under the lock and are actions of their own.      *)
(***************************************************************************)
EXTENDS Naturals

CONSTANTS
  Proc,         \* the vLLM processes the operating system may create; all are
                \* told to serve the one port the wizard proposes
  Starters,     \* threads that serve POST /system/vllm/start
  Stoppers,     \* threads that serve POST /system/vllm/stop
  Pollers,      \* threads that serve GET /system/vllm/status
  NoProc,       \* Python's None
  Foreign,      \* a server on that port which this backend did not start
  MaxReloads    \* bound: how often the backend process is replaced

ASSUME NoProcAssumption == NoProc \notin Proc
ASSUME ForeignAssumption == Foreign \notin Proc \cup {NoProc}
ASSUME ThreadsAssumption == (Starters \cup Stoppers) \cap Pollers = {}
ASSUME MaxReloadsAssumption == MaxReloads \in Nat

VARIABLES
  life,      \* life[p]: what the operating system knows of process p
  serving,   \* who has bound the port and answers, or NoProc
  served,    \* history: everybody who ever answered
  process,   \* _state.process
  state,     \* _state.state
  stopEvent, \* _state.stop_event.is_set()
  watch,     \* watch[p]: where the watcher thread of process p is
  pc,        \* where each request is in its handler
  arg,       \* the handler's local `process` (start) or `p` (stop)
  resp,      \* what each thread last answered: 200, 409 or 422
  reloads,   \* how often the backend was replaced
  born       \* history: born[p] is the backend that spawned p

osVars  == <<life, serving, served, born>>
svcVars == <<process, state, stopEvent>>
reqVars == <<pc, arg, resp>>
vars == <<osVars, svcVars, watch, reqVars, reloads>>

Controllers == Starters \cup Stoppers
Client == Controllers \cup Pollers

VLLMState == {"stopped", "starting", "downloading", "ready", "failed"}
Pending   == {"starting", "downloading"}

Alive(p)    == life[p] \in {"running", "terming"}
Unreaped(p) == life[p] \in {"running", "terming", "killed"}   \* poll() is None
Mine        == {p \in Proc : Alive(p) /\ born[p] = reloads}
-----------------------------------------------------------------------------
TypeOK ==
  /\ life \in [Proc -> {"unborn", "running", "terming", "killed", "exited"}]
  /\ serving \in Proc \cup {Foreign, NoProc}
  /\ served \subseteq Proc \cup {Foreign}
  /\ process \in Proc \cup {NoProc}
  /\ state \in VLLMState
  /\ stopEvent \in BOOLEAN
  /\ watch \in [Proc -> {"none", "loop", "poll", "tail", "probe", "up",
                         "clock", "done"}]
  /\ pc \in [Client -> {"idle", "spawn", "register", "thread", "reply",
                        "signal", "wait", "clear"}]
  /\ arg \in [Client -> Proc \cup {NoProc}]
  /\ resp \in [Client -> {"none", "conflict", "error", "ok"}]
  /\ reloads \in 0..MaxReloads
  /\ born \in [Proc -> 0..MaxReloads]

Init ==
  /\ life = [p \in Proc |-> "unborn"]
  /\ serving = NoProc
  /\ served = {}
  /\ process = NoProc
  /\ state = "stopped"
  /\ stopEvent = FALSE
  /\ watch = [p \in Proc |-> "none"]
  /\ pc = [c \in Client |-> "idle"]
  /\ arg = [c \in Client |-> NoProc]
  /\ resp = [c \in Client |-> "none"]
  /\ reloads = 0
  /\ born = [p \in Proc |-> 0]

Goto(c, label) == /\ pc' = [pc EXCEPT ![c] = label]
                  /\ UNCHANGED <<arg, resp>>

Continue(c, label, p) == /\ pc' = [pc EXCEPT ![c] = label]
                         /\ arg' = [arg EXCEPT ![c] = p]
                         /\ resp' = [resp EXCEPT ![c] = "none"]

Return(c, r) == /\ pc' = [pc EXCEPT ![c] = "idle"]
                /\ arg' = [arg EXCEPT ![c] = NoProc]
                /\ resp' = [resp EXCEPT ![c] = r]
-----------------------------------------------------------------------------
Running == process # NoProc /\ Unreaped(process)

StartRefused(c) ==
  /\ pc[c] = "idle"
  /\ Running
  /\ Return(c, "conflict")
  /\ UNCHANGED <<osVars, svcVars, watch, reloads>>

\* The handle of a process that exited is dropped and the stop event is
\* replaced; the state keeps whatever it was.
StartCheck(c) ==
  /\ pc[c] = "idle"
  /\ ~Running
  /\ process' = NoProc
  /\ stopEvent' = FALSE
  /\ Continue(c, "spawn", NoProc)
  /\ UNCHANGED <<osVars, state, watch, reloads>>

\* `vllm` is not on PATH any more: VLLMNotInstalledError, and a 422.
StartFails(c) ==
  /\ pc[c] = "spawn"
  /\ Return(c, "error")
  /\ UNCHANGED <<osVars, svcVars, watch, reloads>>

StartSpawn(c, p) ==
  /\ pc[c] = "spawn"
  /\ life[p] = "unborn"
  /\ life' = [life EXCEPT ![p] = "running"]
  /\ born' = [born EXCEPT ![p] = reloads]
  /\ Continue(c, "register", p)
  /\ UNCHANGED <<serving, served, svcVars, watch, reloads>>

\* Mutation: the handle is forgotten, only the state is set.
StartRegisterLost(c) ==
  /\ pc[c] = "register"
  /\ state' = "starting"
  /\ Goto(c, "thread")
  /\ UNCHANGED <<osVars, process, stopEvent, watch, reloads>>

StartRegister(c) ==
  /\ pc[c] = "register"
  /\ process' = arg[c]
  /\ state' = "starting"
  /\ Goto(c, "thread")
  /\ UNCHANGED <<osVars, stopEvent, watch, reloads>>

StartThread(c) ==
  /\ pc[c] = "thread"
  /\ watch' = [watch EXCEPT ![arg[c]] = "loop"]
  /\ Goto(c, "reply")
  /\ UNCHANGED <<osVars, svcVars, reloads>>
-----------------------------------------------------------------------------
\* stop() reads the handle and sets the event in one critical section ...
StopCheck(c) ==
  /\ pc[c] = "idle"
  /\ stopEvent' = TRUE
  /\ Continue(c, IF Running THEN "signal" ELSE "clear", process)
  /\ UNCHANGED <<osVars, process, state, watch, reloads>>

StopSignal(c) ==
  /\ pc[c] = "signal"
  /\ life' = [life EXCEPT ![arg[c]] = IF @ = "running" THEN "terming" ELSE @]
  /\ Goto(c, "wait")
  /\ UNCHANGED <<serving, served, born, svcVars, watch, reloads>>

StopExited(c) ==
  /\ pc[c] = "wait"
  /\ ~Unreaped(arg[c])
  /\ Goto(c, "clear")
  /\ UNCHANGED <<osVars, svcVars, watch, reloads>>

\* Five seconds passed: SIGKILL, and no further wait.
StopTimeout(c) ==
  /\ pc[c] = "wait"
  /\ Unreaped(arg[c])
  /\ life' = [life EXCEPT ![arg[c]] = "killed"]
  /\ serving' = IF serving = arg[c] THEN NoProc ELSE serving
  /\ Goto(c, "clear")
  /\ UNCHANGED <<served, born, svcVars, watch, reloads>>

\* ... and clears the singleton in another, whatever it holds by then.
StopClear(c) ==
  /\ pc[c] = "clear"
  /\ process' = NoProc
  /\ state' = "stopped"
  /\ Return(c, "ok")
  /\ UNCHANGED <<osVars, stopEvent, watch, reloads>>
-----------------------------------------------------------------------------
\* status(), and the status call with which the start route ends: one
\* critical section, which notices a process that died.
Died == process # NoProc /\ ~Unreaped(process)

StatusSection(c) ==
  /\ state' = IF Died /\ state \notin {"failed", "stopped"}
              THEN "failed" ELSE state
  /\ Return(c, "ok")
  /\ UNCHANGED <<osVars, process, stopEvent, watch, reloads>>

Status(c) == pc[c] = "idle" /\ StatusSection(c)

StartReply(c) == pc[c] = "reply" /\ StatusSection(c)
-----------------------------------------------------------------------------
\* The watcher of process p, _watch_until_ready.  It reads the event of the
\* singleton, not of the start that created it.
WatchStep(p, from, to) == watch[p] = from /\ watch' = [watch EXCEPT ![p] = to]

\* What a watcher may change: the state, while its process is the recorded one.
Report(p, s) == /\ state' = IF process = p THEN s ELSE state
                /\ UNCHANGED <<osVars, process, stopEvent, reqVars, reloads>>

Nothing == UNCHANGED <<osVars, svcVars, reqVars, reloads>>

WatchEvent(p) == WatchStep(p, "loop", IF stopEvent THEN "done" ELSE "poll")
                 /\ Nothing

WatchDead(p) == /\ ~Unreaped(p)
                /\ WatchStep(p, "poll", "done")
                /\ Report(p, "failed")

WatchAlive(p) == Unreaped(p) /\ WatchStep(p, "poll", "tail") /\ Nothing

\* Mutation: the hint is taken whatever was reported since.
WatchHintAnyway(p) == WatchStep(p, "tail", "probe") /\ Report(p, "downloading")

\* The log shows a download, or it does not.
WatchHint(p) ==
  /\ WatchStep(p, "tail", "probe")
  /\ IF state = "starting" THEN Report(p, "downloading") ELSE Nothing

WatchNoHint(p) == WatchStep(p, "tail", "probe") /\ Nothing

\* GET /v1/models goes to the port: whoever serves it answers.
WatchAnswer(p) == /\ serving # NoProc
                  /\ WatchStep(p, "probe", "up")
                  /\ Nothing

WatchNoAnswer(p) == WatchStep(p, "probe", "clock") /\ Nothing

\* Mutation: the watcher does not ask whether its process is the current one.
WatchReadyAnyway(p) ==
  /\ WatchStep(p, "up", "done")
  /\ state' = "ready"
  /\ UNCHANGED <<osVars, process, stopEvent, reqVars, reloads>>

WatchReady(p) == WatchStep(p, "up", "done") /\ Report(p, "ready")

\* Mutation: the deadline only ends the watcher.
WatchExpireSilently(p) == WatchStep(p, "clock", "done") /\ Nothing

\* The 600 s are over.
WatchExpire(p) == WatchStep(p, "clock", "done") /\ Report(p, "failed")

WatchSleep(p) == WatchStep(p, "clock", "loop") /\ Nothing
-----------------------------------------------------------------------------
\* The server binds the port, if no other process holds it.
ProcServes(p) ==
  /\ life[p] = "running"
  /\ serving = NoProc
  /\ serving' = p
  /\ served' = served \cup {p}
  /\ UNCHANGED <<life, born, svcVars, watch, reqVars, reloads>>

ProcExits(p) ==
  /\ Unreaped(p)
  /\ life' = [life EXCEPT ![p] = "exited"]
  /\ serving' = IF serving = p THEN NoProc ELSE serving
  /\ UNCHANGED <<served, born, svcVars, watch, reqVars, reloads>>

\* Another server, a vLLM the user runs by hand, takes the free port or leaves
\* it: whatever answers GET /v1/models with a 200 is ready to the watcher.
Rebinds(from, to) ==
  /\ serving = from
  /\ serving' = to
  /\ served' = served \cup ({to} \ {NoProc})
  /\ UNCHANGED <<life, born, svcVars, watch, reqVars, reloads>>

ForeignServes == Rebinds(NoProc, Foreign)

ForeignLeaves == Rebinds(Foreign, NoProc)

\* uvicorn --reload replaces the server process: a new singleton, no watcher
\* threads, no requests; the vLLM process it spawned lives on.
BackendReload ==
  /\ reloads < MaxReloads
  /\ reloads' = reloads + 1
  /\ process' = NoProc
  /\ state' = "stopped"
  /\ stopEvent' = FALSE
  /\ watch' = [p \in Proc |-> IF watch[p] = "none" THEN "none" ELSE "done"]
  /\ pc' = [c \in Client |-> "idle"]
  /\ arg' = [c \in Client |-> NoProc]
  /\ resp' = [c \in Client |-> "none"]
  /\ UNCHANGED osVars
-----------------------------------------------------------------------------
Start(c) == \/ StartRefused(c) \/ StartCheck(c) \/ StartFails(c)
            \/ StartRegister(c) \/ StartThread(c) \/ StartReply(c)
            \/ \E p \in Proc : StartSpawn(c, p)

Stop(c) == \/ StopCheck(c) \/ StopSignal(c) \/ StopExited(c)
           \/ StopTimeout(c) \/ StopClear(c)

Watcher(p) == \/ WatchEvent(p) \/ WatchDead(p) \/ WatchAlive(p)
              \/ WatchHint(p) \/ WatchNoHint(p)
              \/ WatchAnswer(p) \/ WatchNoAnswer(p) \/ WatchReady(p)
              \/ WatchExpire(p) \/ WatchSleep(p)

Next == \/ \E c \in Starters : Start(c)
        \/ \E c \in Stoppers : Stop(c)
        \/ \E c \in Pollers : Status(c)
        \/ \E p \in Proc : Watcher(p) \/ ProcServes(p) \/ ProcExits(p)
        \/ ForeignServes \/ ForeignLeaves
        \/ BackendReload

Spec == Init /\ [][Next]_vars

\* A request that was entered and a watcher thread run on, and a watcher that
\* keeps looking at the clock sees its deadline pass.  Nothing says that vLLM
\* comes up or exits, or that anybody calls start, stop or status.
Fairness ==
  /\ \A c \in Starters :
       WF_vars(\/ StartFails(c) \/ StartRegister(c) \/ StartThread(c)
               \/ StartReply(c) \/ \E p \in Proc : StartSpawn(c, p))
  /\ \A c \in Stoppers :
       WF_vars(\/ StopSignal(c) \/ StopExited(c) \/ StopTimeout(c)
               \/ StopClear(c))
  /\ \A p \in Proc : WF_vars(Watcher(p)) /\ SF_vars(WatchExpire(p))

FairSpec == Spec /\ Fairness
-----------------------------------------------------------------------------
\* "Only one managed vLLM can run at a time per backend process"
\* (vllm_control.py:4).
OneVllmPerBackend == \A p, q \in Mine : p = q

\* A living vLLM of this backend can be stopped: it is the recorded one, or
\* the start that spawned it is about to record it.
NoOrphan ==
  \A p \in Mine : \/ process = p
                  \/ \E c \in Controllers : pc[c] = "register" /\ arg[c] = p

\* "Ready" is about the recorded process: that process itself answered on the
\* port, not an earlier one whose watcher spoke too late.  (The code cannot
\* tell who answers: a vLLM that a replaced backend left behind, or a server
\* somebody else started, has the port and answers in its stead.)
ReadyMeansServed ==
  /\ reloads = 0 /\ Foreign \notin served
  /\ state = "ready" /\ process # NoProc
  => process \in served

\* A process that was reported ready or failed is never again shown as coming
\* up: the watcher that read a download hint in the log may reach the lock
\* after a status call has declared the process dead.
NeverBackToPending ==
  [][process' = process /\ process # NoProc /\ state \notin Pending
       => state' \notin Pending]_vars

\* The state machine of vllm_control.py:7: a recorded process that is coming up
\* ends as ready or failed, or it is stopped.
StartResolves ==
  process # NoProc /\ state \in Pending
    ~> process = NoProc \/ state \notin Pending
=============================================================================
