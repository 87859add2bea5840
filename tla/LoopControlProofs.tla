------------------------- MODULE LoopControlProofs -------------------------
(***************************************************************************)
(* What LoopControl keeps for every set of threads, processes and reloads. *)
(* TypeCorrect and HandleMatches hold in every interleaving.  The other    *)
(* theorems are about one controlling client, OneController: any number of *)
(* threads may poll meanwhile, and the backend may be replaced at any step.*)
(***************************************************************************)
EXTENDS LoopControl, TLAPS

\* Every thread that serves start or stop belongs to one client, which waits
\* for each answer.
OneController == \A c, d \in Controllers : c = d

\* Every step is one of these actions, or none.
LEMMA NextCases ==
  ASSUME [Next]_vars
  PROVE  \/ \E c \in Controllers :
              \/ StartRefused(c) \/ StartCheck(c) \/ StartFails(c)
              \/ StartRegister(c) \/ StopNothing(c) \/ StopCheck(c)
              \/ StopSignal(c) \/ StopExited(c) \/ StopTimeout(c)
              \/ StopClear(c)
              \/ \E p \in Proc : StartSpawn(c, p)
         \/ \E c \in Pollers : StatusCheck(c) \/ StatusReply(c)
         \/ \E p \in Proc : ProcExits(p)
         \/ BackendReload
         \/ UNCHANGED vars
BY DEF Next, Start, Stop, Status, Controllers
-----------------------------------------------------------------------------
\* Every variable keeps its type; a thread past the check of its handler has
\* a process in its local variable, so no signal goes to None.
TypeInv ==
  /\ TypeOK
  /\ \A c \in Client :
       pc[c] \in {"register", "signal", "wait", "clear", "peek"}
         => arg[c] \in Proc

LEMMA TypeInvInit == Init => TypeInv
BY MaxReloadsAssumption DEF Init, TypeInv, TypeOK, ProcState, Response

LEMMA TypeInvNext == TypeInv /\ [Next]_vars => TypeInv'
<1> SUFFICES ASSUME TypeInv, [Next]_vars PROVE TypeInv'
  OBVIOUS
<1> USE MaxReloadsAssumption
<1> USE DEF TypeInv, TypeOK, ProcState, Response, Client, Goto, Return, Continue
<1>1. ASSUME NEW c \in Controllers, StartRefused(c) PROVE TypeInv'
  BY <1>1 DEF StartRefused
<1>2. ASSUME NEW c \in Controllers, StartCheck(c) PROVE TypeInv'
  BY <1>2 DEF StartCheck, ForgetExited
<1>3. ASSUME NEW c \in Controllers, StartFails(c) PROVE TypeInv'
  BY <1>3 DEF StartFails
<1>4. ASSUME NEW c \in Controllers, StartRegister(c) PROVE TypeInv'
  BY <1>4 DEF StartRegister
<1>5. ASSUME NEW c \in Controllers, StopNothing(c) PROVE TypeInv'
  BY <1>5 DEF StopNothing
<1>6. ASSUME NEW c \in Controllers, StopCheck(c) PROVE TypeInv'
  BY <1>6 DEF StopCheck, Running
<1>7. ASSUME NEW c \in Controllers, StopSignal(c) PROVE TypeInv'
  BY <1>7 DEF StopSignal
<1>8. ASSUME NEW c \in Controllers, StopExited(c) PROVE TypeInv'
  BY <1>8 DEF StopExited
<1>9. ASSUME NEW c \in Controllers, StopTimeout(c) PROVE TypeInv'
  BY <1>9 DEF StopTimeout
<1>10. ASSUME NEW c \in Controllers, StopClear(c) PROVE TypeInv'
  BY <1>10 DEF StopClear
<1>11. ASSUME NEW c \in Controllers, NEW p \in Proc, StartSpawn(c, p)
       PROVE TypeInv'
  BY <1>11 DEF StartSpawn
<1>12. ASSUME NEW c \in Pollers, StatusCheck(c) PROVE TypeInv'
  BY <1>12 DEF StatusCheck, ForgetExited, Running
<1>13. ASSUME NEW c \in Pollers, StatusReply(c) PROVE TypeInv'
  BY <1>13 DEF StatusReply
<1>14. ASSUME NEW p \in Proc, ProcExits(p) PROVE TypeInv'
  BY <1>14 DEF ProcExits
<1>15. CASE BackendReload
  BY <1>15 DEF BackendReload
<1>16. CASE UNCHANGED vars
  BY <1>16 DEF vars
<1> QED
  BY NextCases, <1>1, <1>2, <1>3, <1>4, <1>5, <1>6, <1>7, <1>8, <1>9, <1>10,
     <1>11, <1>12, <1>13, <1>14, <1>15, <1>16

LEMMA TypeInvHolds == Spec => []TypeInv
BY TypeInvInit, TypeInvNext, PTL DEF Spec

\* loop_control.py's state stays well-typed in every interleaving.
THEOREM TypeCorrect == Spec => []TypeOK
<1>1. TypeInv => TypeOK
  BY DEF TypeInv
<1> QED
  BY <1>1, TypeInvHolds, PTL
-----------------------------------------------------------------------------
\* The handle and the task id agree in every interleaving.
LEMMA HandleMatchesNext ==
  TypeInv /\ TaskMatchesHandle /\ [Next]_vars => TaskMatchesHandle'
<1> SUFFICES ASSUME TypeInv, TaskMatchesHandle, [Next]_vars
             PROVE TaskMatchesHandle'
  OBVIOUS
<1> USE DEF TaskMatchesHandle
<1>1. ASSUME NEW c \in Controllers,
             \/ StartRefused(c) \/ StartFails(c) \/ StopCheck(c)
             \/ StopSignal(c) \/ StopExited(c) \/ StopTimeout(c)
             \/ \E p \in Proc : StartSpawn(c, p)
      PROVE TaskMatchesHandle'
  BY <1>1 DEF StartRefused, StartFails, StopCheck, StopSignal, StopExited,
              StopTimeout, StartSpawn
<1>2. ASSUME NEW c \in Controllers, StartCheck(c) PROVE TaskMatchesHandle'
  BY <1>2 DEF StartCheck, ForgetExited
<1>3. ASSUME NEW c \in Controllers, StartRegister(c) PROVE TaskMatchesHandle'
  BY <1>3 DEF StartRegister
<1>4. ASSUME NEW c \in Controllers, StopNothing(c) \/ StopClear(c)
      PROVE TaskMatchesHandle'
  BY <1>4 DEF StopNothing, StopClear
<1>5. ASSUME NEW c \in Pollers, StatusCheck(c) PROVE TaskMatchesHandle'
  BY <1>5 DEF StatusCheck, ForgetExited
<1>6. ASSUME NEW c \in Pollers, StatusReply(c) PROVE TaskMatchesHandle'
  BY <1>6 DEF StatusReply
<1>7. ASSUME NEW p \in Proc, ProcExits(p) PROVE TaskMatchesHandle'
  BY <1>7 DEF ProcExits
<1>8. CASE BackendReload
  BY <1>8 DEF BackendReload
<1>9. CASE UNCHANGED vars
  BY <1>9 DEF vars
<1> QED
  BY NextCases, <1>1, <1>2, <1>3, <1>4, <1>5, <1>6, <1>7, <1>8, <1>9

\* No interleaving of start, stop, status and reload lets status() report
\* one loop's handle beside another loop's task id.
THEOREM HandleMatches == Spec => []TaskMatchesHandle
<1>1. Init => TaskMatchesHandle
  BY DEF Init, TaskMatchesHandle
<1> QED
  BY <1>1, HandleMatchesNext, TypeInvHolds, PTL DEF Spec
-----------------------------------------------------------------------------
\* The inductive invariant of one controlling client: what a living loop of
\* this backend means for the one controller, at each point of its handler.
SerialInv ==
  /\ OneLoopPerBackend
  /\ NoOrphan
  /\ \A p \in Proc : born[p] <= reloads
  /\ \A c \in Controllers :
       /\ pc[c] \in {"spawn", "clear"} => Mine = {}
       /\ pc[c] \in {"register", "signal", "wait"} => Mine \subseteq {arg[c]}
       /\ pc[c] \notin {"peek"}
  /\ StopMeansStopped

LEMMA SerialInvInit == Init => SerialInv
BY DEF Init, SerialInv, OneLoopPerBackend, NoOrphan, StopMeansStopped, Mine,
       Live, Alive, Client

LEMMA SerialInvNext ==
  ASSUME OneController, TypeInv, SerialInv, [Next]_vars
  PROVE  SerialInv'
<1> USE MaxReloadsAssumption, ThreadsAssumption, NoProcAssumption
<1> USE DEF SerialInv, OneLoopPerBackend, NoOrphan, StopMeansStopped, Mine,
            Live, Alive, OneController, TypeInv, TypeOK, ProcState, Client,
            Goto, Return, Continue
<1> HIDE DEF Controllers
<1>0. Controllers \cap Pollers = {}
  BY DEF Controllers
<1>1. ASSUME NEW c \in Controllers, StartRefused(c) PROVE SerialInv'
  BY <1>1 DEF StartRefused
<1>2. ASSUME NEW c \in Controllers, StartCheck(c) PROVE SerialInv'
  BY <1>2 DEF StartCheck, Running, Unreaped, ForgetExited
<1>3. ASSUME NEW c \in Controllers, StartFails(c) PROVE SerialInv'
  BY <1>3 DEF StartFails
<1>4. ASSUME NEW c \in Controllers, StartRegister(c) PROVE SerialInv'
  BY <1>4 DEF StartRegister
<1>5. ASSUME NEW c \in Controllers, StopNothing(c) PROVE SerialInv'
  BY <1>5 DEF StopNothing, Running, Unreaped
<1>6. ASSUME NEW c \in Controllers, StopCheck(c) PROVE SerialInv'
  BY <1>6 DEF StopCheck, Running, Unreaped
<1>7. ASSUME NEW c \in Controllers, StopSignal(c) PROVE SerialInv'
  BY <1>7 DEF StopSignal
<1>8. ASSUME NEW c \in Controllers, StopExited(c) PROVE SerialInv'
  BY <1>8 DEF StopExited, Unreaped
<1>9. ASSUME NEW c \in Controllers, StopTimeout(c) PROVE SerialInv'
  BY <1>9 DEF StopTimeout
<1>10. ASSUME NEW c \in Controllers, StopClear(c) PROVE SerialInv'
  BY <1>10 DEF StopClear
<1>11. ASSUME NEW c \in Controllers, NEW p \in Proc, StartSpawn(c, p)
       PROVE SerialInv'
  BY <1>11 DEF StartSpawn
<1>12. ASSUME NEW c \in Pollers, StatusCheck(c) PROVE SerialInv'
  BY <1>0, <1>12 DEF StatusCheck, ForgetExited, Running, Unreaped
<1>13. ASSUME NEW c \in Pollers, StatusReply(c) PROVE SerialInv'
  BY <1>0, <1>13 DEF StatusReply
<1>14. ASSUME NEW p \in Proc, ProcExits(p) PROVE SerialInv'
  BY <1>14 DEF ProcExits
<1>15. CASE BackendReload
  BY <1>15 DEF BackendReload
<1>16. CASE UNCHANGED vars
  BY <1>16 DEF vars
<1> QED
  BY NextCases, <1>1, <1>2, <1>3, <1>4, <1>5, <1>6, <1>7, <1>8, <1>9, <1>10,
     <1>11, <1>12, <1>13, <1>14, <1>15, <1>16

\* With one controlling client, each backend process has at most one living
\* loop, can always stop it, and says so truthfully: for every number of
\* polling threads, of loops, and of replaced backends.
THEOREM OneControllerOneLoop ==
  ASSUME OneController
  PROVE  Spec => [](OneLoopPerBackend /\ NoOrphan /\ StopMeansStopped)
<1>1. TypeInv /\ SerialInv /\ [Next]_vars => SerialInv'
  BY SerialInvNext
<1>2. SerialInv => OneLoopPerBackend /\ NoOrphan /\ StopMeansStopped
  BY DEF SerialInv
<1>3. Spec => []SerialInv
  BY <1>1, SerialInvInit, TypeInvHolds, PTL DEF Spec
<1> QED
  BY <1>2, <1>3, PTL

\* In particular it can always stop what it spawned, ...
THEOREM OneControllerNoOrphan ==
  ASSUME OneController
  PROVE  Spec => []NoOrphan
BY OneControllerOneLoop, PTL

\* ... and when a stop has answered, there is nothing left to stop.
THEOREM OneControllerStops ==
  ASSUME OneController
  PROVE  Spec => []StopMeansStopped
BY OneControllerOneLoop, PTL

\* As long as the backend was never replaced, one controlling client means
\* one loop per project (the claim of loop_control.py:3).
THEOREM SingleLoopWithoutReload ==
  ASSUME OneController, MaxReloads = 0
  PROVE  Spec => []SingleLoop
<1>1. TypeInv /\ OneLoopPerBackend => SingleLoop
  <2> SUFFICES ASSUME TypeInv, OneLoopPerBackend, NEW p \in Live, NEW q \in Live
               PROVE  p = q
    BY DEF SingleLoop
  <2>1. born[p] = 0 /\ born[q] = 0
    BY MaxReloads = 0 DEF TypeInv, TypeOK, Live
  <2> QED
    BY <2>1 DEF OneLoopPerBackend
<1> QED
  BY <1>1, TypeInvHolds, OneControllerOneLoop, PTL
-----------------------------------------------------------------------------
\* One controlling client's backend implements the abstract slot: every step
\* spawns the only living loop, lets one die, or does not show.
LEMMA SlotNext ==
  ASSUME OneController, TypeInv, SerialInv, [Next]_vars
  PROVE  [Slot!Next]_(Slot!vars)
<1> USE DEF TypeInv, TypeOK, ProcState, Client
<1> DEFINE Spawned == {p \in Proc : proc[p] # "unborn"}
<1>1. ASSUME NEW c \in Controllers, NEW p \in Proc, StartSpawn(c, p)
      PROVE Slot!Spawn(p)
  <2>1. Mine = {}
    BY <1>1 DEF StartSpawn, SerialInv
  <2>2. Mine' = {p}
    BY <1>1, <2>1 DEF StartSpawn, Mine, Live, Alive
  <2>3. Spawned' = Spawned \cup {p} /\ p \notin Spawned
    BY <1>1 DEF StartSpawn
  <2> QED
    BY <2>1, <2>2, <2>3 DEF Slot!Spawn
<1>2. ASSUME NEW p \in Proc, Mine' = Mine \ {p}, Spawned' = Spawned
      PROVE  Slot!Die(p) \/ UNCHANGED Slot!vars
  BY <1>2 DEF Slot!Die, Slot!vars
<1>3. ASSUME NEW c \in Controllers,
             \/ StartRefused(c) \/ StartCheck(c) \/ StartFails(c)
             \/ StartRegister(c) \/ StopNothing(c) \/ StopCheck(c)
             \/ StopSignal(c) \/ StopExited(c) \/ StopClear(c)
      PROVE  UNCHANGED Slot!vars
  <2>1. Mine' = Mine
    BY <1>3 DEF StartRefused, StartCheck, StartFails, StartRegister,
         StopNothing, StopCheck, StopSignal, StopExited, StopClear,
         Mine, Live, Alive
  <2>2. Spawned' = Spawned
    BY <1>3 DEF StartRefused, StartCheck, StartFails, StartRegister,
         StopNothing, StopCheck, StopSignal, StopExited, StopClear
  <2> QED
    BY <2>1, <2>2 DEF Slot!vars
<1>4. ASSUME NEW c \in Controllers, StopTimeout(c)
      PROVE  (\E p \in Proc : Slot!Die(p)) \/ UNCHANGED Slot!vars
  <2>1. arg[c] \in Proc
    BY <1>4 DEF StopTimeout, Controllers
  <2>2. Mine' = Mine \ {arg[c]}
    BY <1>4, <2>1 DEF StopTimeout, Mine, Live, Alive
  <2>3. Spawned' = Spawned
    BY <1>4, <2>1 DEF StopTimeout, Unreaped
  <2> QED
    BY <1>2, <2>1, <2>2, <2>3
<1>5. ASSUME NEW c \in Pollers, StatusCheck(c) \/ StatusReply(c)
      PROVE  UNCHANGED Slot!vars
  BY <1>5 DEF StatusCheck, StatusReply, Slot!vars, Mine, Live, Alive
<1>6. ASSUME NEW p \in Proc, ProcExits(p)
      PROVE  Slot!Die(p) \/ UNCHANGED Slot!vars
  <2>1. Mine' = Mine \ {p}
    BY <1>6 DEF ProcExits, Mine, Live, Alive
  <2>2. Spawned' = Spawned
    BY <1>6 DEF ProcExits, Unreaped
  <2> QED
    BY <1>2, <2>1, <2>2
<1>7. ASSUME BackendReload
      PROVE  (\E p \in Proc : Slot!Die(p)) \/ UNCHANGED Slot!vars
  <2>1. Mine' = {}
    BY <1>7, MaxReloadsAssumption
    DEF BackendReload, SerialInv, Mine, Live, Alive
  <2>2. Spawned' = Spawned
    BY <1>7 DEF BackendReload
  <2>3. CASE Mine = {}
    BY <2>1, <2>2, <2>3 DEF Slot!vars
  <2>4. CASE Mine # {}
    <3>1. PICK p \in Proc : p \in Mine
      BY <2>4 DEF Mine, Live
    <3>2. Mine = {p}
      BY <3>1 DEF SerialInv, OneLoopPerBackend, Mine
    <3> QED
      BY <1>2, <2>1, <2>2, <3>1, <3>2
  <2> QED
    BY <2>3, <2>4
<1>8. CASE UNCHANGED vars
  BY <1>8 DEF vars, Slot!vars, Mine, Live, Alive
<1> QED
  <2> USE DEF Slot!Next
  <2> HIDE DEF TypeInv, TypeOK
  <2>1. (\E p \in Proc : Slot!Spawn(p) \/ Slot!Die(p)) \/ UNCHANGED Slot!vars
    BY NextCases, <1>1, <1>3, <1>4, <1>5, <1>6, <1>7, <1>8, Zenon
  <2> QED
    BY <2>1, Zenon

\* The refinement, for every number of polling threads, loops and reloads.
THEOREM OneControllerImplementsSlot ==
  ASSUME OneController
  PROVE  Spec => ImplementsSlot
<1>1. Init => Slot!Init
  BY DEF Init, Slot!Init, Mine, Live, Alive
<1>2. TypeInv /\ SerialInv /\ [Next]_vars => [Slot!Next]_(Slot!vars)
  BY SlotNext
<1>3. TypeInv /\ SerialInv /\ [Next]_vars => SerialInv'
  BY SerialInvNext
<1>4. Spec => []SerialInv
  BY <1>3, SerialInvInit, TypeInvHolds, PTL DEF Spec
<1> QED
  BY <1>1, <1>2, <1>4, TypeInvHolds, PTL DEF Spec, ImplementsSlot, Slot!Spec
=============================================================================
