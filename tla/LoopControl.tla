---------------------------- MODULE LoopControl ----------------------------
(***************************************************************************)
(* ui/backend/loop_control.py: start, stop and status of the orchestrator  *)
(* process (scripts/loop.py).  FastAPI runs the three synchronous handlers *)
(* in a thread pool, so calls overlap.  A critical section under           *)
(* _state.lock is one action; Popen, the signals and the wait happen       *)
(* outside the lock and are actions of their own.                          *)
(***************************************************************************)
EXTENDS Naturals

CONSTANTS
  Proc,         \* the loop processes the operating system may create
  Starters,     \* threads that serve POST /loop/start
  Stoppers,     \* threads that serve POST /loop/stop
  Pollers,      \* threads that serve GET /loop/status, or the stream's poll
  NoProc,       \* Python's None
  MaxReloads    \* bound: how often the backend process is replaced

ASSUME NoProcAssumption == NoProc \notin Proc
ASSUME ThreadsAssumption == (Starters \cup Stoppers) \cap Pollers = {}
ASSUME MaxReloadsAssumption == MaxReloads \in Nat

VARIABLES
  proc,     \* proc[p]: what the operating system knows of process p
  process,  \* _state.process
  task,     \* the process whose task_id _state.task_id is
  pc,       \* where each thread is in its handler
  arg,      \* the handler's local `process` (start) or `p` (stop)
  resp,     \* the last response of each thread
  reloads,  \* how often the backend was replaced
  born      \* history: born[p] is the backend (a value of reloads) that
            \* spawned p

vars == <<proc, process, task, pc, arg, resp, reloads, born>>

\* The thread of a client that sends its next request when the last one was
\* answered is in both sets.
Controllers == Starters \cup Stoppers

Client == Controllers \cup Pollers

ProcState == {"unborn", "running", "terming", "killed", "exited"}
Response  == {"none", "started", "conflict", "error", "stopped",
              "not_running", "running", "idle"}

\* A process that can still execute code of scripts/loop.py.  One that was
\* sent SIGKILL executes nothing more, whether or not it has been reaped.
Alive(p) == proc[p] \in {"running", "terming"}

\* What Popen.poll() returns None for: not yet seen to have exited.
Unreaped(p) == proc[p] \in {"running", "terming", "killed"}

Live == {p \in Proc : Alive(p)}

\* The living loops that the current backend process spawned.
Mine == {p \in Live : born[p] = reloads}
-----------------------------------------------------------------------------
TypeOK ==
  /\ proc \in [Proc -> ProcState]
  /\ process \in Proc \cup {NoProc}
  /\ task \in Proc \cup {NoProc}
  /\ pc \in [Client -> {"idle", "spawn", "register",
                        "signal", "wait", "clear", "peek"}]
  /\ arg \in [Client -> Proc \cup {NoProc}]
  /\ resp \in [Client -> Response]
  /\ reloads \in 0..MaxReloads
  /\ born \in [Proc -> 0..MaxReloads]

Init ==
  /\ proc = [p \in Proc |-> "unborn"]
  /\ process = NoProc
  /\ task = NoProc
  /\ pc = [c \in Client |-> "idle"]
  /\ arg = [c \in Client |-> NoProc]
  /\ resp = [c \in Client |-> "none"]
  /\ reloads = 0
  /\ born = [p \in Proc |-> 0]

Goto(c, label) == pc' = [pc EXCEPT ![c] = label]

Return(c, r) == /\ Goto(c, "idle")
                /\ arg' = [arg EXCEPT ![c] = NoProc]
                /\ resp' = [resp EXCEPT ![c] = r]

\* A handler that goes on: its caller has no response yet.
Continue(c, label, p) == /\ Goto(c, label)
                         /\ arg' = [arg EXCEPT ![c] = p]
                         /\ resp' = [resp EXCEPT ![c] = "none"]
-----------------------------------------------------------------------------
\* is_running(): under the lock, and it forgets a process that exited.
Running == process # NoProc /\ Unreaped(process)

ForgetExited ==
  IF process # NoProc /\ ~Unreaped(process)
  THEN process' = NoProc /\ task' = NoProc
  ELSE UNCHANGED <<process, task>>
-----------------------------------------------------------------------------
\* start(): the check, the spawn and the registration are three steps, and
\* only the first and the last hold the lock.
StartRefused(c) ==
  /\ pc[c] = "idle"
  /\ Running
  /\ Return(c, "conflict")
  /\ UNCHANGED <<proc, process, task, reloads, born>>

\* Mutation: a start that does not look for a running loop.
StartCheckBlind(c) ==
  /\ pc[c] = "idle"
  /\ Continue(c, "spawn", NoProc)
  /\ UNCHANGED <<proc, process, task, reloads, born>>

StartCheck(c) ==
  /\ pc[c] = "idle"
  /\ ~Running
  /\ ForgetExited
  /\ Continue(c, "spawn", NoProc)
  /\ UNCHANGED <<proc, reloads, born>>

StartSpawn(c, p) ==
  /\ pc[c] = "spawn"
  /\ proc[p] = "unborn"
  /\ proc' = [proc EXCEPT ![p] = "running"]
  /\ born' = [born EXCEPT ![p] = reloads]
  /\ Continue(c, "register", p)
  /\ UNCHANGED <<process, task, reloads>>

\* mkdir, open or Popen raises: the request ends in an error response.
StartFails(c) ==
  /\ pc[c] = "spawn"
  /\ Return(c, "error")
  /\ UNCHANGED <<proc, process, task, reloads, born>>

\* Mutations: the new handle is not recorded; its task id is not; the two
\* fields of the response are mixed up.
StartRegisterLost(c) ==
  /\ pc[c] = "register"
  /\ Return(c, "started")
  /\ UNCHANGED <<proc, process, task, reloads, born>>

StartRegisterHandleOnly(c) ==
  /\ pc[c] = "register"
  /\ process' = arg[c]
  /\ Return(c, "started")
  /\ UNCHANGED <<proc, task, reloads, born>>

StartRegisterMixed(c) ==
  /\ pc[c] = "register"
  /\ process' = arg[c]
  /\ task' = c
  /\ Return(c, "started")
  /\ UNCHANGED <<proc, reloads, born>>

StartRegister(c) ==
  /\ pc[c] = "register"
  /\ process' = arg[c]
  /\ task' = arg[c]
  /\ Return(c, "started")
  /\ UNCHANGED <<proc, reloads, born>>
-----------------------------------------------------------------------------
\* stop(): task_id and started_at keep their values.
StopNothing(c) ==
  /\ pc[c] = "idle"
  /\ ~Running
  /\ process' = NoProc
  /\ Return(c, "not_running")
  /\ UNCHANGED <<proc, task, reloads, born>>

StopCheck(c) ==
  /\ pc[c] = "idle"
  /\ Running
  /\ Continue(c, "signal", process)
  /\ UNCHANGED <<proc, process, task, reloads, born>>

StopSignal(c) ==
  /\ pc[c] = "signal"
  /\ proc' = [proc EXCEPT ![arg[c]] = IF @ = "running" THEN "terming" ELSE @]
  /\ Goto(c, "wait")
  /\ UNCHANGED <<process, task, arg, resp, reloads, born>>

StopExited(c) ==
  /\ pc[c] = "wait"
  /\ ~Unreaped(arg[c])
  /\ Goto(c, "clear")
  /\ UNCHANGED <<proc, process, task, arg, resp, reloads, born>>

\* Mutation: the wait times out and nothing is done about the process.
StopTimeoutShrug(c) ==
  /\ pc[c] = "wait"
  /\ Unreaped(arg[c])
  /\ Goto(c, "clear")
  /\ UNCHANGED <<proc, process, task, arg, resp, reloads, born>>

\* Three seconds passed: SIGKILL, and the handler does not wait for it.
StopTimeout(c) ==
  /\ pc[c] = "wait"
  /\ Unreaped(arg[c])
  /\ proc' = [proc EXCEPT ![arg[c]] = "killed"]
  /\ Goto(c, "clear")
  /\ UNCHANGED <<process, task, arg, resp, reloads, born>>

StopClear(c) ==
  /\ pc[c] = "clear"
  /\ process' = NoProc
  /\ Return(c, "stopped")
  /\ UNCHANGED <<proc, task, reloads, born>>
-----------------------------------------------------------------------------
\* Mutation: status forgets the process it was asked about.
StatusCheckForgets(c) ==
  /\ pc[c] = "idle"
  /\ process' = NoProc
  /\ UNCHANGED task
  /\ IF Running THEN Continue(c, "peek", process) ELSE Return(c, "idle")
  /\ UNCHANGED <<proc, reloads, born>>

\* status(): is_running, then the report file, then the fields.
StatusCheck(c) ==
  /\ pc[c] = "idle"
  /\ ForgetExited
  /\ IF Running THEN Continue(c, "peek", process) ELSE Return(c, "idle")
  /\ UNCHANGED <<proc, reloads, born>>

StatusReply(c) ==
  /\ pc[c] = "peek"
  /\ Return(c, "running")
  /\ UNCHANGED <<proc, process, task, reloads, born>>
-----------------------------------------------------------------------------
\* The loop ends by itself, SIGTERM takes effect, or SIGKILL does.
ProcExits(p) ==
  /\ Unreaped(p)
  /\ proc' = [proc EXCEPT ![p] = "exited"]
  /\ UNCHANGED <<process, task, pc, arg, resp, reloads, born>>

\* serve_ui.py runs uvicorn with --reload, and the blue team edits Python
\* files: the server process is replaced, the singleton is new, the requests
\* in flight are gone, and the loop it spawned lives on.
BackendReload ==
  /\ reloads < MaxReloads
  /\ reloads' = reloads + 1
  /\ process' = NoProc
  /\ task' = NoProc
  /\ pc' = [c \in Client |-> "idle"]
  /\ arg' = [c \in Client |-> NoProc]
  /\ resp' = [c \in Client |-> "none"]
  /\ UNCHANGED <<proc, born>>
-----------------------------------------------------------------------------
Start(c) == \/ StartRefused(c) \/ StartCheck(c) \/ StartFails(c)
            \/ StartRegister(c)
            \/ \E p \in Proc : StartSpawn(c, p)

Stop(c) == \/ StopNothing(c) \/ StopCheck(c) \/ StopSignal(c)
           \/ StopExited(c) \/ StopTimeout(c) \/ StopClear(c)

Status(c) == StatusCheck(c) \/ StatusReply(c)

Next == \/ \E c \in Starters : Start(c)
        \/ \E c \in Stoppers : Stop(c)
        \/ \E c \in Pollers : Status(c)
        \/ \E p \in Proc : ProcExits(p)
        \/ BackendReload

Spec == Init /\ [][Next]_vars

\* A handler that was entered runs on, the 3 s timer fires, and SIGKILL takes
\* effect.  Nothing says that a loop ends by itself, that SIGTERM is obeyed,
\* or that anybody calls start or stop.
Fairness ==
  /\ \A c \in Starters : WF_vars(\/ StartFails(c) \/ StartRegister(c)
                                 \/ \E p \in Proc : StartSpawn(c, p))
  /\ \A c \in Stoppers : WF_vars(\/ StopSignal(c) \/ StopExited(c)
                                 \/ StopTimeout(c) \/ StopClear(c))
  /\ \A p \in Proc : WF_vars(proc[p] = "killed" /\ ProcExits(p))

FairSpec == Spec /\ Fairness
-----------------------------------------------------------------------------
\* At most one orchestrator is alive ("Only one loop can run at a time per
\* project", loop_control.py:3).  Two calls of start, a start that overlaps a
\* stop, and a replaced backend each break it.
SingleLoop == \A p, q \in Live : p = q

\* "One loop per backend process" (loop_control.py:41): of the loops that one
\* backend process spawned, at most one is alive, whatever was replaced when.
OneLoopPerBackend == \A p, q \in Live : born[p] = born[q] => p = q

\* A stop that answered leaves no loop of this backend behind, until the same
\* client asks for a new one; so does a stop that found nothing to stop.
StopMeansStopped ==
  \A c \in Controllers :
    pc[c] = "idle" /\ resp[c] \in {"stopped", "not_running"} => Mine = {}

\* The backend can stop what it spawned: a living loop of this backend is in
\* _state.process, or the start that spawned it is about to record it.
NoOrphan ==
  \A p \in Mine : \/ process = p
                  \/ \E c \in Controllers : pc[c] = "register" /\ arg[c] = p

\* The handle and the task id that status() reports beside it never belong to
\* different loops, in any interleaving: stop clears only the handle, and
\* whatever sets it again sets both.
TaskMatchesHandle == process # NoProc => task = process

\* Every loop that a stop began to signal is eventually dead, even one that
\* ignores SIGTERM (the escalation to SIGKILL, loop_control.py:136-141), unless
\* the backend that was stopping it is replaced.
StoppedLoopDies ==
  \A p \in Proc : proc[p] = "terming" ~> proc[p] = "exited" \/ born[p] # reloads

Slot == INSTANCE SingleProcess
          WITH live <- Mine, spawned <- {p \in Proc : proc[p] # "unborn"}

\* One backend process implements the abstract slot: it spawns only when none
\* of its loops is alive, and nothing revives a loop.  A replaced backend
\* shows as the death of the loop it lost.
ImplementsSlot == Slot!Spec
=============================================================================
