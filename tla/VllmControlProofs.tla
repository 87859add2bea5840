------------------------- MODULE VllmControlProofs -------------------------
(***************************************************************************)
(* What VllmControl keeps for every set of threads, processes and reloads. *)
(* The types and NeverBackToPending hold in every interleaving; the other  *)
(* theorems are about one controlling client, with any number of threads   *)
(* that poll and any number of watchers that outlive their process.        *)
(***************************************************************************)
EXTENDS VllmControl, TLAPS

\* Every thread that serves start or stop belongs to one client, which waits
\* for each answer.
OneController == \A c, d \in Controllers : c = d

LEMMA NextCases ==
  ASSUME [Next]_vars
  PROVE  \/ \E c \in Controllers :
              \/ StartRefused(c) \/ StartCheck(c) \/ StartFails(c)
              \/ StartRegister(c) \/ StartThread(c) \/ StartReply(c)
              \/ StopCheck(c) \/ StopSignal(c) \/ StopExited(c)
              \/ StopTimeout(c) \/ StopClear(c)
              \/ \E p \in Proc : StartSpawn(c, p)
         \/ \E c \in Pollers : Status(c)
         \/ \E p \in Proc : \/ WatchEvent(p) \/ WatchDead(p) \/ WatchAlive(p)
                            \/ WatchHint(p) \/ WatchNoHint(p)
                            \/ WatchAnswer(p) \/ WatchNoAnswer(p)
                            \/ WatchReady(p) \/ WatchExpire(p)
                            \/ WatchSleep(p) \/ ProcServes(p) \/ ProcExits(p)
         \/ ForeignServes \/ ForeignLeaves
         \/ BackendReload
         \/ UNCHANGED vars
BY DEF Next, Start, Stop, Watcher, Controllers
-----------------------------------------------------------------------------
\* Every variable keeps its type, and a thread past the check of its handler
\* has a process in its local variable.
TypeInv ==
  /\ TypeOK
  /\ \A c \in Client : pc[c] \in {"register", "thread", "signal", "wait"}
                         => arg[c] \in Proc

LEMMA TypeInvInit == Init => TypeInv
<1> SUFFICES ASSUME Init PROVE TypeInv
  OBVIOUS
<1>1. 0 \in 0..MaxReloads
  BY MaxReloadsAssumption
<1>2. TypeOK
  BY <1>1 DEF Init, TypeOK, VLLMState
<1> QED
  BY <1>2 DEF Init, TypeInv

LEMMA TypeInvNext == TypeInv /\ [Next]_vars => TypeInv'
<1> SUFFICES ASSUME TypeInv, [Next]_vars PROVE TypeInv'
  OBVIOUS
<1> USE MaxReloadsAssumption
<1> USE DEF TypeInv, TypeOK, VLLMState, Client, Goto, Return, Continue, osVars,
            svcVars, reqVars
<1>1. ASSUME NEW c \in Controllers, StartRefused(c) PROVE TypeInv'
  BY <1>1 DEF StartRefused
<1>2. ASSUME NEW c \in Controllers, StartCheck(c) PROVE TypeInv'
  BY <1>2 DEF StartCheck, Running, Unreaped
<1>3. ASSUME NEW c \in Controllers, StartFails(c) PROVE TypeInv'
  BY <1>3 DEF StartFails
<1>4. ASSUME NEW c \in Controllers, StartRegister(c) PROVE TypeInv'
  BY <1>4 DEF StartRegister
<1>5. ASSUME NEW c \in Controllers, StartThread(c) PROVE TypeInv'
  BY <1>5 DEF StartThread
<1>6. ASSUME NEW c \in Controllers, StartReply(c) PROVE TypeInv'
  BY <1>6 DEF StartReply, StatusSection, Died, Unreaped
<1>7. ASSUME NEW c \in Controllers, StopCheck(c) PROVE TypeInv'
  BY <1>7 DEF StopCheck, Running, Unreaped
<1>8. ASSUME NEW c \in Controllers, StopSignal(c) PROVE TypeInv'
  BY <1>8 DEF StopSignal
<1>9. ASSUME NEW c \in Controllers, StopExited(c) PROVE TypeInv'
  BY <1>9 DEF StopExited, Unreaped
<1>10. ASSUME NEW c \in Controllers, StopTimeout(c) PROVE TypeInv'
  BY <1>10 DEF StopTimeout
<1>11. ASSUME NEW c \in Controllers, StopClear(c) PROVE TypeInv'
  BY <1>11 DEF StopClear
<1>12. ASSUME NEW c \in Controllers, NEW p \in Proc, StartSpawn(c, p)
      PROVE  TypeInv'
  BY <1>12 DEF StartSpawn
<1>13. ASSUME NEW c \in Pollers, Status(c) PROVE TypeInv'
  BY <1>13 DEF Status, StatusSection, Died, Unreaped
<1>14. ASSUME NEW p \in Proc,
             WatchEvent(p) \/ WatchAlive(p) \/ WatchNoHint(p)
      PROVE  TypeInv'
  BY <1>14 DEF WatchEvent, WatchAlive, WatchNoHint, WatchStep, Nothing
<1>15. ASSUME NEW p \in Proc,
             WatchNoAnswer(p) \/ WatchSleep(p)
      PROVE  TypeInv'
  BY <1>15 DEF WatchNoAnswer, WatchSleep, WatchStep, Nothing
<1>16. ASSUME NEW p \in Proc,
             WatchAnswer(p)
      PROVE  TypeInv'
  BY <1>16 DEF WatchAnswer, WatchStep, Nothing
<1>17. ASSUME NEW p \in Proc,
             WatchHint(p)
      PROVE  TypeInv'
  BY <1>17 DEF WatchHint, WatchStep, Nothing, Report
<1>18. ASSUME NEW p \in Proc,
             WatchDead(p) \/ WatchReady(p) \/ WatchExpire(p)
      PROVE  TypeInv'
  BY <1>18 DEF WatchDead, WatchReady, WatchExpire, WatchStep, Report
<1>19. ASSUME NEW p \in Proc,
             ProcServes(p)
      PROVE  TypeInv'
  BY <1>19 DEF ProcServes
<1>20. ASSUME NEW p \in Proc,
             ProcExits(p)
      PROVE  TypeInv'
  BY <1>20 DEF ProcExits, Unreaped
<1>23. CASE ForeignServes \/ ForeignLeaves
  BY <1>23 DEF ForeignServes, ForeignLeaves, Rebinds
<1>21. CASE BackendReload
  <2>1. watch' \in [Proc -> {"none", "loop", "poll", "tail", "probe", "up",
                           "clock", "done"}]
    BY <1>21 DEF BackendReload
  <2>2. reloads' \in 0..MaxReloads /\ state' \in VLLMState
    BY <1>21 DEF BackendReload
  <2>3. UNCHANGED osVars
    BY <1>21 DEF BackendReload
  <2>4. process' = NoProc /\ stopEvent' = FALSE
    BY <1>21 DEF BackendReload
  <2>5. /\ pc' = [c \in Client |-> "idle"]
        /\ arg' = [c \in Client |-> NoProc]
        /\ resp' = [c \in Client |-> "none"]
    BY <1>21 DEF BackendReload
  <2> QED
    BY <2>1, <2>2, <2>3, <2>4, <2>5
<1>22. CASE UNCHANGED vars
  BY <1>22 DEF vars
<1> QED
  BY NextCases, <1>1, <1>2, <1>3, <1>4, <1>5, <1>6, <1>7, <1>8, <1>9, <1>10,
     <1>11, <1>12, <1>13, <1>14, <1>15, <1>16, <1>17, <1>18, <1>19, <1>20,
     <1>21, <1>22, <1>23

LEMMA TypeInvHolds == Spec => []TypeInv
BY TypeInvInit, TypeInvNext, PTL DEF Spec

\* vllm_control.py's state stays well-typed in every interleaving.
THEOREM TypeCorrect == Spec => []TypeOK
<1>1. TypeInv => TypeOK
  BY DEF TypeInv
<1> QED
  BY <1>1, TypeInvHolds, PTL
-----------------------------------------------------------------------------
\* A start is about to record a process nobody else has recorded or spawned.
Fresh ==
  /\ process # NoProc => life[process] # "unborn"
  /\ \A c \in Controllers :
       pc[c] = "register" => life[arg[c]] # "unborn" /\ process # arg[c]
  /\ \A c, d \in Controllers :
       pc[c] = "register" /\ pc[d] = "register" /\ arg[c] = arg[d] => c = d

LEMMA FreshInit == Init => Fresh
BY DEF Init, Fresh, Client

LEMMA FreshNext == TypeInv /\ Fresh /\ [Next]_vars => Fresh'
<1> SUFFICES ASSUME TypeInv, Fresh, [Next]_vars PROVE Fresh'
  OBVIOUS
<1> USE NoProcAssumption
<1> USE DEF Fresh, TypeInv, TypeOK, VLLMState, Client, Goto, Return, Continue,
            osVars, svcVars, reqVars
<1> HIDE DEF Controllers
<1>0. Controllers \cap Pollers = {}
  BY ThreadsAssumption DEF Controllers
<1>1. ASSUME NEW c \in Controllers, StartRefused(c) PROVE Fresh'
  BY <1>0, <1>1 DEF StartRefused
<1>2. ASSUME NEW c \in Controllers, StartCheck(c) PROVE Fresh'
  BY <1>0, <1>2 DEF StartCheck, Running, Unreaped
<1>3. ASSUME NEW c \in Controllers, StartFails(c) PROVE Fresh'
  BY <1>0, <1>3 DEF StartFails
<1>4. ASSUME NEW c \in Controllers, StartRegister(c) PROVE Fresh'
  BY <1>0, <1>4 DEF StartRegister
<1>5. ASSUME NEW c \in Controllers, StartThread(c) PROVE Fresh'
  BY <1>0, <1>5 DEF StartThread
<1>6. ASSUME NEW c \in Controllers, StartReply(c) PROVE Fresh'
  BY <1>0, <1>6 DEF StartReply, StatusSection, Died, Unreaped
<1>7. ASSUME NEW c \in Controllers, StopCheck(c) PROVE Fresh'
  BY <1>0, <1>7 DEF StopCheck, Running, Unreaped
<1>8. ASSUME NEW c \in Controllers, StopSignal(c) PROVE Fresh'
  BY <1>0, <1>8 DEF StopSignal
<1>9. ASSUME NEW c \in Controllers, StopExited(c) PROVE Fresh'
  BY <1>0, <1>9 DEF StopExited, Unreaped
<1>10. ASSUME NEW c \in Controllers, StopTimeout(c) PROVE Fresh'
  BY <1>0, <1>10 DEF StopTimeout
<1>11. ASSUME NEW c \in Controllers, StopClear(c) PROVE Fresh'
  BY <1>0, <1>11 DEF StopClear
<1>12. ASSUME NEW c \in Controllers, NEW p \in Proc, StartSpawn(c, p)
      PROVE  Fresh'
  BY <1>0, <1>12 DEF StartSpawn
<1>13. ASSUME NEW c \in Pollers, Status(c) PROVE Fresh'
  BY <1>0, <1>13 DEF Status, StatusSection, Died, Unreaped
<1>14. ASSUME NEW p \in Proc,
             WatchEvent(p) \/ WatchAlive(p) \/ WatchNoHint(p)
      PROVE  Fresh'
  BY <1>0, <1>14 DEF WatchEvent, WatchAlive, WatchNoHint, WatchStep, Nothing
<1>15. ASSUME NEW p \in Proc,
             WatchNoAnswer(p) \/ WatchSleep(p)
      PROVE  Fresh'
  BY <1>0, <1>15 DEF WatchNoAnswer, WatchSleep, WatchStep, Nothing
<1>16. ASSUME NEW p \in Proc,
             WatchAnswer(p)
      PROVE  Fresh'
  BY <1>0, <1>16 DEF WatchAnswer, WatchStep, Nothing
<1>17. ASSUME NEW p \in Proc,
             WatchHint(p)
      PROVE  Fresh'
  BY <1>0, <1>17 DEF WatchHint, WatchStep, Nothing, Report
<1>18. ASSUME NEW p \in Proc,
             WatchDead(p) \/ WatchReady(p) \/ WatchExpire(p)
      PROVE  Fresh'
  BY <1>0, <1>18 DEF WatchDead, WatchReady, WatchExpire, WatchStep, Report
<1>19. ASSUME NEW p \in Proc,
             ProcServes(p)
      PROVE  Fresh'
  BY <1>0, <1>19 DEF ProcServes
<1>20. ASSUME NEW p \in Proc,
             ProcExits(p)
      PROVE  Fresh'
  BY <1>0, <1>20 DEF ProcExits, Unreaped
<1>23. CASE ForeignServes \/ ForeignLeaves
  BY <1>0, <1>23 DEF ForeignServes, ForeignLeaves, Rebinds
<1>21. CASE BackendReload
  BY <1>21 DEF BackendReload
<1>22. CASE UNCHANGED vars
  BY <1>22 DEF vars
<1> QED
  BY NextCases, <1>1, <1>2, <1>3, <1>4, <1>5, <1>6, <1>7, <1>8, <1>9, <1>10,
     <1>11, <1>12, <1>13, <1>14, <1>15, <1>16, <1>17, <1>18, <1>19, <1>20,
     <1>21, <1>22, <1>23

\* In no interleaving does a watcher or a request show a process as coming up
\* again that was already reported ready or failed.
THEOREM NeverBack == Spec => NeverBackToPending
<1> DEFINE Back == process' = process /\ process # NoProc
                     /\ state \notin Pending => state' \notin Pending
<1>1. TypeInv /\ Fresh /\ [Next]_vars => [Back]_vars
  <2> SUFFICES ASSUME TypeInv, Fresh, [Next]_vars,
                      process' = process, process # NoProc,
                      state \notin Pending
               PROVE  state' \notin Pending
    OBVIOUS
  <2> USE DEF Pending
  <2>1. ASSUME NEW c \in Controllers,
               \/ StartRefused(c) \/ StartCheck(c) \/ StartFails(c)
               \/ StartThread(c) \/ StopCheck(c) \/ StopSignal(c)
               \/ StopExited(c) \/ StopTimeout(c)
               \/ \E p \in Proc : StartSpawn(c, p)
        PROVE  state' = state
    BY <2>1 DEF StartRefused, StartCheck, StartFails, StartThread, StopCheck,
         StopSignal, StopExited, StopTimeout, StartSpawn, svcVars
  <2>2. ASSUME NEW c \in Controllers, StartRegister(c) PROVE FALSE
    BY <2>2 DEF StartRegister, Fresh
  <2>3. ASSUME NEW c \in Controllers, StopClear(c) PROVE FALSE
    BY <2>3 DEF StopClear
  <2>4. ASSUME NEW c, StatusSection(c) PROVE state' \notin Pending
    BY <2>4 DEF StatusSection
  <2>5. ASSUME NEW p \in Proc, WatchHint(p) PROVE state' = state
    BY <2>5 DEF WatchHint, Nothing, svcVars
  <2>6. ASSUME NEW p \in Proc, WatchDead(p) \/ WatchReady(p) \/ WatchExpire(p)
        PROVE  state' \notin Pending
    BY <2>6 DEF WatchDead, WatchReady, WatchExpire, Report
  <2>7. ASSUME NEW p \in Proc,
               \/ WatchEvent(p) \/ WatchAlive(p) \/ WatchNoHint(p)
               \/ WatchAnswer(p) \/ WatchNoAnswer(p) \/ WatchSleep(p)
               \/ ProcServes(p) \/ ProcExits(p)
        PROVE  state' = state
    BY <2>7 DEF WatchEvent, WatchAlive, WatchNoHint, WatchAnswer,
         WatchNoAnswer, WatchSleep, ProcServes, ProcExits, Nothing, svcVars
  <2>8. CASE BackendReload
    BY <2>8 DEF BackendReload
  <2>9. CASE UNCHANGED vars
    BY <2>9 DEF vars, svcVars
  <2>10. CASE ForeignServes \/ ForeignLeaves
    BY <2>10 DEF ForeignServes, ForeignLeaves, Rebinds, svcVars
  <2> QED
    BY NextCases, <2>1, <2>2, <2>3, <2>4, <2>5, <2>6, <2>7, <2>8, <2>9,
       <2>10
       DEF Status, StartReply
<1>2. Spec => []Fresh
  BY FreshInit, FreshNext, TypeInvHolds, PTL DEF Spec
<1> QED
  BY <1>1, <1>2, TypeInvHolds, PTL DEF Spec, NeverBackToPending
-----------------------------------------------------------------------------
\* The inductive invariant of one controlling client: what a living vLLM of
\* this backend means at each point of the one handler that runs.
SerialInv ==
  /\ OneVllmPerBackend
  /\ NoOrphan
  /\ \A p \in Proc : born[p] <= reloads
  /\ \A c \in Controllers :
       /\ pc[c] \in {"spawn", "clear"} => Mine = {}
       /\ pc[c] \in {"register", "signal", "wait"} => Mine \subseteq {arg[c]}
       /\ pc[c] \in {"spawn", "register"} => process = NoProc

LEMMA SerialInvInit == Init => SerialInv
BY DEF Init, SerialInv, OneVllmPerBackend, NoOrphan, Mine, Alive, Client

LEMMA SerialInvNext ==
  ASSUME OneController, TypeInv, SerialInv, [Next]_vars
  PROVE  SerialInv'
<1> USE MaxReloadsAssumption, ThreadsAssumption, NoProcAssumption
<1> USE DEF SerialInv, OneVllmPerBackend, NoOrphan, Mine, Alive, OneController,
            TypeInv, TypeOK, VLLMState, Client, Goto, Return, Continue, osVars,
            svcVars, reqVars
<1> HIDE DEF Controllers
<1>0. Controllers \cap Pollers = {}
  BY DEF Controllers
<1>1. ASSUME NEW c \in Controllers, StartRefused(c) PROVE SerialInv'
  BY <1>0, <1>1 DEF StartRefused
<1>2. ASSUME NEW c \in Controllers, StartCheck(c) PROVE SerialInv'
  BY <1>0, <1>2 DEF StartCheck, Running, Unreaped
<1>3. ASSUME NEW c \in Controllers, StartFails(c) PROVE SerialInv'
  BY <1>0, <1>3 DEF StartFails
<1>4. ASSUME NEW c \in Controllers, StartRegister(c) PROVE SerialInv'
  BY <1>0, <1>4 DEF StartRegister
<1>5. ASSUME NEW c \in Controllers, StartThread(c) PROVE SerialInv'
  BY <1>0, <1>5 DEF StartThread
<1>6. ASSUME NEW c \in Controllers, StartReply(c) PROVE SerialInv'
  BY <1>0, <1>6 DEF StartReply, StatusSection, Died, Unreaped
<1>7. ASSUME NEW c \in Controllers, StopCheck(c) PROVE SerialInv'
  BY <1>0, <1>7 DEF StopCheck, Running, Unreaped
<1>8. ASSUME NEW c \in Controllers, StopSignal(c) PROVE SerialInv'
  BY <1>0, <1>8 DEF StopSignal
<1>9. ASSUME NEW c \in Controllers, StopExited(c) PROVE SerialInv'
  BY <1>0, <1>9 DEF StopExited, Unreaped
<1>10. ASSUME NEW c \in Controllers, StopTimeout(c) PROVE SerialInv'
  BY <1>0, <1>10 DEF StopTimeout
<1>11. ASSUME NEW c \in Controllers, StopClear(c) PROVE SerialInv'
  BY <1>0, <1>11 DEF StopClear
<1>12. ASSUME NEW c \in Controllers, NEW p \in Proc, StartSpawn(c, p)
      PROVE  SerialInv'
  <2>1. Mine = {} /\ process = NoProc
    BY <1>12 DEF StartSpawn
  <2>2. Mine' = {p}
    BY <2>1, <1>12 DEF StartSpawn
  <2>3. OneVllmPerBackend' /\ NoOrphan'
    BY <2>2, <1>12 DEF StartSpawn
  <2>4. \A q \in Proc : born'[q] <= reloads'
    BY <1>12 DEF StartSpawn
  <2> QED
    BY <2>1, <2>2, <2>3, <2>4, <1>12 DEF StartSpawn
<1>13. ASSUME NEW c \in Pollers, Status(c) PROVE SerialInv'
  BY <1>0, <1>13 DEF Status, StatusSection, Died, Unreaped
<1>14. ASSUME NEW p \in Proc,
             WatchEvent(p) \/ WatchAlive(p) \/ WatchNoHint(p)
      PROVE  SerialInv'
  BY <1>0, <1>14 DEF WatchEvent, WatchAlive, WatchNoHint, WatchStep, Nothing
<1>15. ASSUME NEW p \in Proc,
             WatchNoAnswer(p) \/ WatchSleep(p)
      PROVE  SerialInv'
  BY <1>0, <1>15 DEF WatchNoAnswer, WatchSleep, WatchStep, Nothing
<1>16. ASSUME NEW p \in Proc,
             WatchAnswer(p)
      PROVE  SerialInv'
  BY <1>0, <1>16 DEF WatchAnswer, WatchStep, Nothing
<1>17. ASSUME NEW p \in Proc,
             WatchHint(p)
      PROVE  SerialInv'
  BY <1>0, <1>17 DEF WatchHint, WatchStep, Nothing, Report
<1>18. ASSUME NEW p \in Proc,
             WatchDead(p) \/ WatchReady(p) \/ WatchExpire(p)
      PROVE  SerialInv'
  BY <1>0, <1>18 DEF WatchDead, WatchReady, WatchExpire, WatchStep, Report
<1>19. ASSUME NEW p \in Proc,
             ProcServes(p)
      PROVE  SerialInv'
  BY <1>0, <1>19 DEF ProcServes
<1>20. ASSUME NEW p \in Proc,
             ProcExits(p)
      PROVE  SerialInv'
  BY <1>0, <1>20 DEF ProcExits, Unreaped
<1>23. CASE ForeignServes \/ ForeignLeaves
  BY <1>0, <1>23 DEF ForeignServes, ForeignLeaves, Rebinds
<1>21. CASE BackendReload
  BY <1>21 DEF BackendReload
<1>22. CASE UNCHANGED vars
  BY <1>22 DEF vars
<1> QED
  BY NextCases, <1>1, <1>2, <1>3, <1>4, <1>5, <1>6, <1>7, <1>8, <1>9, <1>10,
     <1>11, <1>12, <1>13, <1>14, <1>15, <1>16, <1>17, <1>18, <1>19, <1>20,
     <1>21, <1>22, <1>23

LEMMA SerialInvHolds == ASSUME OneController PROVE Spec => []SerialInv
<1>1. TypeInv /\ SerialInv /\ [Next]_vars => SerialInv'
  BY SerialInvNext
<1> QED
  BY <1>1, SerialInvInit, TypeInvHolds, PTL DEF Spec

\* With one controlling client each backend process has at most one living
\* vLLM (vllm_control.py:4-5) and can always stop it.
THEOREM OneControllerOneVllm ==
  ASSUME OneController
  PROVE  Spec => [](OneVllmPerBackend /\ NoOrphan)
<1>1. SerialInv => OneVllmPerBackend /\ NoOrphan
  BY DEF SerialInv
<1> QED
  BY <1>1, SerialInvHolds, PTL

\* In particular no server escapes it.
THEOREM OneControllerNoOrphan ==
  ASSUME OneController
  PROVE  Spec => []NoOrphan
BY OneControllerOneVllm, PTL
-----------------------------------------------------------------------------
\* Until the backend is replaced or somebody else's server answers, whoever has
\* the port is a process of this backend, and a watcher that holds an answer holds that of its own
\* process or speaks to nobody.
Served ==
  /\ \A p \in Proc : born[p] = 0
  /\ serving # NoProc => Alive(serving) /\ serving \in served
  /\ \A p \in Proc : life[p] = "unborn" => watch[p] = "none"
  /\ \A c \in Controllers :
       pc[c] = "register" => life[arg[c]] # "unborn" /\ watch[arg[c]] = "none"
  /\ process # NoProc => life[process] # "unborn"
  /\ \A c \in Controllers : pc[c] = "thread" => process = arg[c]
  /\ \A p \in Proc : watch[p] = "up" /\ process = p => p \in served
  /\ ReadyMeansServed

ServedInv ==
  /\ serving = Foreign => Foreign \in served
  /\ reloads = 0 /\ Foreign \notin served => Served

LEMMA ServedInvInit == Init => ServedInv
BY ForeignAssumption DEF Init, ServedInv, Served, ReadyMeansServed, Client

LEMMA ServedNext ==
  ASSUME OneController, TypeInv, SerialInv, Served, reloads = 0,
         Foreign \notin served, ~BackendReload, ~ForeignServes, [Next]_vars
  PROVE  Served'
<1> USE ThreadsAssumption, NoProcAssumption
<1>23. ForeignLeaves => FALSE
  BY ForeignAssumption DEF ForeignLeaves, Rebinds, Served
<1> USE DEF Served, ReadyMeansServed, Alive, OneController, TypeInv, TypeOK,
            VLLMState, Client, Goto, Return, Continue, osVars, svcVars, reqVars
<1> HIDE DEF Controllers
<1>0. Controllers \cap Pollers = {}
  BY DEF Controllers
<1>1. ASSUME NEW c \in Controllers, StartRefused(c) PROVE Served'
  BY <1>0, <1>1 DEF StartRefused
<1>2. ASSUME NEW c \in Controllers, StartCheck(c) PROVE Served'
  BY <1>0, <1>2 DEF StartCheck, Running, Unreaped
<1>3. ASSUME NEW c \in Controllers, StartFails(c) PROVE Served'
  BY <1>0, <1>3 DEF StartFails
<1>4. ASSUME NEW c \in Controllers, StartRegister(c) PROVE Served'
  BY <1>0, <1>4 DEF StartRegister
<1>5. ASSUME NEW c \in Controllers, StartThread(c) PROVE Served'
  BY <1>0, <1>5 DEF StartThread
<1>6. ASSUME NEW c \in Controllers, StartReply(c) PROVE Served'
  BY <1>0, <1>6 DEF StartReply, StatusSection, Died, Unreaped
<1>7. ASSUME NEW c \in Controllers, StopCheck(c) PROVE Served'
  BY <1>0, <1>7 DEF StopCheck, Running, Unreaped
<1>8. ASSUME NEW c \in Controllers, StopSignal(c) PROVE Served'
  BY <1>0, <1>8 DEF StopSignal
<1>9. ASSUME NEW c \in Controllers, StopExited(c) PROVE Served'
  BY <1>0, <1>9 DEF StopExited, Unreaped
<1>10. ASSUME NEW c \in Controllers, StopTimeout(c) PROVE Served'
  BY <1>0, <1>10 DEF StopTimeout
<1>11. ASSUME NEW c \in Controllers, StopClear(c) PROVE Served'
  BY <1>0, <1>11 DEF StopClear
<1>12. ASSUME NEW c \in Controllers, NEW p \in Proc, StartSpawn(c, p)
      PROVE  Served'
  BY <1>0, <1>12 DEF StartSpawn
<1>13. ASSUME NEW c \in Pollers, Status(c) PROVE Served'
  BY <1>0, <1>13 DEF Status, StatusSection, Died, Unreaped
<1>14. ASSUME NEW p \in Proc,
             WatchEvent(p) \/ WatchAlive(p) \/ WatchNoHint(p)
      PROVE  Served'
  BY <1>0, <1>14 DEF WatchEvent, WatchAlive, WatchNoHint, WatchStep, Nothing
<1>15. ASSUME NEW p \in Proc,
             WatchNoAnswer(p) \/ WatchSleep(p)
      PROVE  Served'
  BY <1>0, <1>15 DEF WatchNoAnswer, WatchSleep, WatchStep, Nothing
<1>16. ASSUME NEW p \in Proc, WatchAnswer(p) PROVE Served'
  <2>1. serving \in Mine
    BY <1>16 DEF WatchAnswer, Mine
  <2>2. process = p => serving = p
    BY <1>0, <2>1 DEF SerialInv, NoOrphan
  <2>3. process = p => p \in served
    BY <2>2, <1>16 DEF WatchAnswer
  <2> QED
    BY <2>3, <1>16 DEF WatchAnswer, WatchStep, Nothing
<1>17. ASSUME NEW p \in Proc,
             WatchHint(p)
      PROVE  Served'
  BY <1>0, <1>17 DEF WatchHint, WatchStep, Nothing, Report
<1>18. ASSUME NEW p \in Proc,
             WatchDead(p) \/ WatchReady(p) \/ WatchExpire(p)
      PROVE  Served'
  BY <1>0, <1>18 DEF WatchDead, WatchReady, WatchExpire, WatchStep, Report
<1>19. ASSUME NEW p \in Proc,
             ProcServes(p)
      PROVE  Served'
  BY <1>0, <1>19 DEF ProcServes
<1>20. ASSUME NEW p \in Proc,
             ProcExits(p)
      PROVE  Served'
  BY <1>0, <1>20 DEF ProcExits, Unreaped
<1>21. CASE UNCHANGED vars
  BY <1>21 DEF vars
<1> QED
  BY NextCases, <1>1, <1>2, <1>3, <1>4, <1>5, <1>6, <1>7, <1>8, <1>9, <1>10,
     <1>11, <1>12, <1>13, <1>14, <1>15, <1>16, <1>17, <1>18, <1>19, <1>20,
     <1>21, <1>23

LEMMA ServedInvNext ==
  ASSUME OneController, TypeInv, SerialInv, ServedInv, [Next]_vars
  PROVE  ServedInv'
<1>1. BackendReload => reloads' # 0
  BY DEF BackendReload, TypeInv, TypeOK
<1>2. ~BackendReload => reloads' = reloads
  BY NextCases
  DEF StartRefused, StartCheck, StartFails, StartRegister, StartThread,
      StartReply, StopCheck, StopSignal, StopExited, StopTimeout, StopClear,
      StartSpawn, Status, StatusSection, Report, WatchEvent, WatchDead,
      WatchAlive, WatchHint, WatchNoHint, WatchAnswer, WatchNoAnswer,
      WatchReady, WatchExpire,
      WatchSleep, WatchStep, Nothing, ProcServes, ProcExits, ForeignServes,
      ForeignLeaves, Rebinds, vars
<1>3. /\ Foreign \in served => Foreign \in served'
      /\ serving' # serving /\ ~ForeignServes => serving' \in Proc \cup {NoProc}
  BY NextCases
  DEF StartRefused, StartCheck, StartFails, StartRegister, StartThread,
      StartReply, StopCheck, StopSignal, StopExited, StopTimeout, StopClear,
      StartSpawn, Status, StatusSection, Report, WatchEvent, WatchDead,
      WatchAlive, WatchHint, WatchNoHint, WatchAnswer, WatchNoAnswer,
      WatchReady, WatchExpire, WatchSleep, WatchStep, Nothing, ProcServes,
      ProcExits, BackendReload, ForeignLeaves, ForeignServes, Rebinds, osVars,
      vars
<1>4. ForeignServes => Foreign \in served'
  BY ForeignAssumption DEF ForeignServes, Rebinds
<1>5. serving' = Foreign => Foreign \in served'
  BY <1>3, <1>4, ForeignAssumption DEF ServedInv
<1> QED
  BY <1>1, <1>2, <1>3, <1>4, <1>5, ServedNext DEF ServedInv

\* With one controlling client, and until the backend is replaced or a server
\* that it did not start answers on the port, "ready" is
\* never the word of an earlier process: however many processes came before,
\* and however late their watchers speak.
THEOREM ReadyIsServed ==
  ASSUME OneController
  PROVE  Spec => []ReadyMeansServed
<1>1. TypeInv /\ SerialInv /\ ServedInv /\ [Next]_vars => ServedInv'
  BY ServedInvNext
<1>2. ServedInv => ReadyMeansServed
  BY DEF ServedInv, Served, ReadyMeansServed
<1> QED
  BY <1>1, <1>2, ServedInvInit, TypeInvHolds, SerialInvHolds, PTL DEF Spec
-----------------------------------------------------------------------------
\* The slot that vllm_control.py keeps for its backend.  A replaced backend
\* starts with an empty one.
Slot == INSTANCE SingleProcess
          WITH live <- Mine, spawned <- {p \in Proc : life[p] # "unborn"}

\* Every step of one controlling client's backend spawns the only living vLLM,
\* lets one die, or does not show.
LEMMA SlotNext ==
  ASSUME OneController, TypeInv, SerialInv, [Next]_vars
  PROVE  [Slot!Next]_(Slot!vars)
<1> USE DEF TypeInv, TypeOK, VLLMState, Client, Goto, Return, Continue, osVars,
            svcVars, reqVars
<1> DEFINE Spawned == {p \in Proc : life[p] # "unborn"}
<1>1. ASSUME NEW c \in Controllers, NEW p \in Proc, StartSpawn(c, p)
      PROVE Slot!Spawn(p)
  <2>1. Mine = {}
    BY <1>1 DEF StartSpawn, SerialInv
  <2>2. Mine' = {p}
    BY <1>1, <2>1 DEF StartSpawn, Mine, Alive
  <2>3. Spawned' = Spawned \cup {p} /\ p \notin Spawned
    BY <1>1 DEF StartSpawn
  <2> QED
    BY <2>1, <2>2, <2>3 DEF Slot!Spawn
<1>2. ASSUME NEW p \in Proc, Mine' = Mine \ {p}, Spawned' = Spawned
      PROVE  Slot!Die(p) \/ UNCHANGED Slot!vars
  BY <1>2 DEF Slot!Die, Slot!vars
<1>3. ASSUME NEW c \in Controllers,
             \/ StartRefused(c) \/ StartCheck(c) \/ StartFails(c)
             \/ StartRegister(c) \/ StartThread(c) \/ StartReply(c)
             \/ StopCheck(c) \/ StopExited(c) \/ StopClear(c)
      PROVE  UNCHANGED Slot!vars
  BY <1>3 DEF StartRefused, StartCheck, StartFails, StartRegister,
       StartThread, StartReply, StatusSection, StopCheck, StopExited,
       StopClear, Slot!vars, Mine, Alive
<1>4. ASSUME NEW c \in Controllers, StopSignal(c)
      PROVE  UNCHANGED Slot!vars
  <2>1. Mine' = Mine
    BY <1>4 DEF StopSignal, Mine, Alive
  <2>2. Spawned' = Spawned
    BY <1>4 DEF StopSignal
  <2> QED
    BY <2>1, <2>2 DEF Slot!vars
<1>5. ASSUME NEW c \in Controllers, StopTimeout(c)
      PROVE  (\E p \in Proc : Slot!Die(p)) \/ UNCHANGED Slot!vars
  <2>1. arg[c] \in Proc
    BY <1>5 DEF StopTimeout, Controllers
  <2>2. Mine' = Mine \ {arg[c]}
    BY <1>5, <2>1 DEF StopTimeout, Mine, Alive
  <2>3. Spawned' = Spawned
    BY <1>5, <2>1 DEF StopTimeout, Unreaped
  <2> QED
    BY <1>2, <2>1, <2>2, <2>3
<1>6. ASSUME NEW c \in Pollers, Status(c)
      PROVE  UNCHANGED Slot!vars
  BY <1>6 DEF Status, StatusSection, Slot!vars, Mine, Alive
<1>7. ASSUME NEW p \in Proc,
             \/ WatchEvent(p) \/ WatchDead(p) \/ WatchAlive(p) \/ WatchHint(p)
             \/ WatchNoHint(p) \/ WatchAnswer(p) \/ WatchNoAnswer(p)
             \/ WatchReady(p) \/ WatchExpire(p) \/ WatchSleep(p)
             \/ ProcServes(p)
      PROVE  UNCHANGED Slot!vars
  BY <1>7 DEF WatchEvent, WatchDead, WatchAlive, WatchHint, WatchNoHint,
       WatchAnswer, WatchNoAnswer, WatchReady, WatchExpire, WatchSleep,
       WatchStep, Nothing, Report, ProcServes, Slot!vars, Mine, Alive
<1>11. CASE ForeignServes \/ ForeignLeaves
  BY <1>11 DEF ForeignServes, ForeignLeaves, Rebinds, Slot!vars, Mine, Alive
<1>8. ASSUME NEW p \in Proc, ProcExits(p)
      PROVE  Slot!Die(p) \/ UNCHANGED Slot!vars
  <2>1. Mine' = Mine \ {p}
    BY <1>8 DEF ProcExits, Mine, Alive
  <2>2. Spawned' = Spawned
    BY <1>8 DEF ProcExits, Unreaped
  <2> QED
    BY <1>2, <2>1, <2>2
<1>9. ASSUME BackendReload
      PROVE  (\E p \in Proc : Slot!Die(p)) \/ UNCHANGED Slot!vars
  <2>1. Mine' = {}
    BY <1>9, MaxReloadsAssumption DEF BackendReload, SerialInv, Mine, Alive
  <2>2. Spawned' = Spawned
    BY <1>9 DEF BackendReload
  <2>3. CASE Mine = {}
    BY <2>1, <2>2, <2>3 DEF Slot!vars
  <2>4. CASE Mine # {}
    <3>1. PICK p \in Proc : p \in Mine
      BY <2>4 DEF Mine
    <3>2. Mine = {p}
      BY <3>1 DEF SerialInv, OneVllmPerBackend
    <3> QED
      BY <1>2, <2>1, <2>2, <3>1, <3>2
  <2> QED
    BY <2>3, <2>4
<1>10. CASE UNCHANGED vars
  BY <1>10 DEF vars, Slot!vars, Mine, Alive
<1> QED
  <2> USE DEF Slot!Next
  <2> HIDE DEF TypeInv, TypeOK
  <2>1. (\E p \in Proc : Slot!Spawn(p) \/ Slot!Die(p)) \/ UNCHANGED Slot!vars
    BY NextCases, <1>1, <1>3, <1>4, <1>5, <1>6, <1>7, <1>8, <1>9, <1>10,
       <1>11, Zenon
  <2> QED
    BY <2>1, Zenon

\* With one controlling client, vllm_control.py is a slot for one process,
\* whatever its watchers and the status calls see and write meanwhile, and
\* however often the backend is replaced.
THEOREM OneControllerImplementsSlot ==
  ASSUME OneController
  PROVE  Spec => Slot!Spec
<1>1. Init => Slot!Init
  BY DEF Init, Slot!Init, Mine, Alive
<1>2. TypeInv /\ SerialInv /\ [Next]_vars => [Slot!Next]_(Slot!vars)
  BY SlotNext
<1> QED
  BY <1>1, <1>2, SerialInvHolds, TypeInvHolds, PTL DEF Spec, Slot!Spec
=============================================================================
