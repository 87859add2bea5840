------------------------- MODULE AgentRunnerProofs -------------------------
(***************************************************************************)
(* What the config store and the snapshot guard keep for every number of   *)
(* clients, steps, values, agents, kills and reloads.                      *)
(***************************************************************************)
EXTENDS AgentRunner, TLAPS

\* A request changes a config into a config, whatever it asks for.
LEMMA MergedType ==
  ASSUME NEW cfg \in Config, NEW r \in Request
  PROVE  Merged(cfg, r) \in Config
<1>1. Done \in Keys /\ On \in Values /\ UserValues \subseteq Values
  BY DEF Keys, Values
<1>2. CASE r.kind = "finish"
  BY <1>1, <1>2 DEF Merged, Config
<1>3. CASE r.kind = "patch"
  <2>1. r.key \in Keys /\ r.value \in Values
    BY <1>1, <1>3 DEF Request
  <2> QED
    BY <2>1, <1>3 DEF Merged, Config
<1>4. CASE r.kind = "step"
  <2>1. r.step \in Steps /\ r.value \in Values
    BY <1>1, <1>4 DEF Request
  <2>2. KeyOf[r.step] = Nothing \/ KeyOf[r.step] \in Keys
    BY <2>1 DEF Keys
  <2> QED
    BY <2>1, <2>2, <1>4 DEF Merged, Config
<1>5. r.kind \in {"finish", "patch", "step"}
  BY DEF Request
<1> QED
  BY <1>2, <1>3, <1>4, <1>5

\* So with the sidecar: the current step stays one of the eight.
LEMMA MarkedType ==
  ASSUME NEW sc \in Sidecar, NEW r \in Request, r.kind # "patch"
  PROVE  Marked(sc, r) \in Sidecar
<1>1. CASE r.kind = "finish"
  BY <1>1 DEF Marked, Sidecar
<1>2. CASE r.kind # "finish"
  <2>1. r.step \in 1..8
    BY <1>2, StepsAssumption DEF Request
  <2> QED
    BY <2>1, <1>2 DEF Marked, Sidecar
<1> QED
  BY <1>1, <1>2

LEMMA LoadType ==
  ASSUME StoreTypeOK
  PROVE  Load \in Config /\ LoadSidecar \in Sidecar
<1>1. Defaults \in Config /\ NoSteps \in Sidecar
  BY DEF Defaults, Config, Values, NoSteps, Sidecar
<1> QED
  BY <1>1 DEF StoreTypeOK, Load, LoadSidecar
-----------------------------------------------------------------------------
\* A handler past its entrance has a request, and one that touches the sidecar
\* is not a patch.
TypeInv ==
  /\ TypeOK
  /\ \A c \in Client :
       /\ pc[c] # "idle" => req[c] \in Request
       /\ pc[c] \in {"read", "mark"} => req[c].kind # "patch"
  /\ \A c \in Client : pc[c] # "idle" => holder = c

LEMMA NextCases ==
  ASSUME [Next]_vars
  PROVE  \/ \E c \in Client, r \in Request :
              (Overlap \/ guard = "off") /\ Enter(c, r) /\ UNCHANGED runner
         \/ \E c \in Client :
              /\ \/ LoadConfig(c) \/ WriteConfig(c) \/ ReadSidecar(c)
                 \/ WriteSidecar(c) \/ Fails(c)
              /\ UNCHANGED runner
         \/ BackendReload /\ UNCHANGED runner
         \/ SnapshotConfig \/ SnapshotSidecar \/ AgentEdits \/ AgentEnds
         \/ RestoreConfig \/ CopyConfig \/ RestoreSidecar \/ CopySidecar
         \/ LoopKilled \/ OrphanEnds
         \/ UNCHANGED vars
BY DEF Next, StoreStep, Guard

LEMMA TypeInvInit == Init => TypeInv
<1>1. Defaults \in Config /\ NoSteps \in Sidecar
  BY DEF Defaults, Config, Values, NoSteps, Sidecar
<1>2. 0 \in 0..MaxReloads /\ 0 \in 0..MaxAgents /\ 0 \in 0..MaxKills
  BY ReloadsAssumption, AgentBoundsAssumption
<1> QED
  BY <1>1, <1>2 DEF Init, StoreInit, TypeInv, TypeOK, StoreTypeOK

LEMMA TypeInvNext == TypeInv /\ [Next]_vars => TypeInv'
<1> SUFFICES ASSUME TypeInv, [Next]_vars PROVE TypeInv'
  OBVIOUS
<1> USE DEF TypeInv, TypeOK, StoreTypeOK, files, store, runner, Goto
<1>0. /\ Load \in Config /\ LoadSidecar \in Sidecar
      /\ Defaults \in Config /\ NoSteps \in Sidecar
  BY LoadType DEF Defaults, Config, Values, NoSteps, Sidecar
<1>1. ASSUME NEW c \in Client, NEW r \in Request, Enter(c, r), UNCHANGED runner
      PROVE TypeInv'
  BY <1>1, NullsAssumption DEF Enter
<1>2. ASSUME NEW c \in Client, LoadConfig(c), UNCHANGED runner PROVE TypeInv'
  <2>1. Merged(Load, req[c]) \in Config
    BY <1>0, <1>2, MergedType DEF LoadConfig
  <2> QED
    BY <2>1, <1>2 DEF LoadConfig
<1>3. ASSUME NEW c \in Client, WriteConfig(c), UNCHANGED runner PROVE TypeInv'
  <2>1. Merged(want, req[c]) \in Config /\ local[c] \in Config
    BY <1>3, MergedType DEF WriteConfig
  <2> QED
    BY <2>1, <1>0, <1>3 DEF WriteConfig, Leave
<1>4. ASSUME NEW c \in Client, ReadSidecar(c), UNCHANGED runner PROVE TypeInv'
  <2>1. Marked(LoadSidecar, req[c]) \in Sidecar
    BY <1>0, <1>4, MarkedType DEF ReadSidecar
  <2> QED
    BY <2>1, <1>4 DEF ReadSidecar
<1>5. ASSUME NEW c \in Client, WriteSidecar(c), UNCHANGED runner PROVE TypeInv'
  <2>1. Marked(NoSteps, req[c]) \in Sidecar
    BY <1>0, <1>5, MarkedType DEF WriteSidecar
  <2>2. Marked(NoSteps, req[c]).steps \subseteq 1..8
    BY <2>1 DEF Sidecar
  <2> QED
    BY <2>2, <1>0, <1>5 DEF WriteSidecar, Leave
<1>6. ASSUME NEW c \in Client, Fails(c), UNCHANGED runner PROVE TypeInv'
  BY <1>0, <1>6 DEF Fails, Leave
<1>7. CASE BackendReload /\ UNCHANGED runner
  BY <1>0, <1>7, ReloadsAssumption DEF BackendReload
<1>8. CASE SnapshotConfig
  BY <1>8, AgentBoundsAssumption DEF SnapshotConfig
<1>9. CASE SnapshotSidecar
  BY <1>9 DEF SnapshotSidecar
<1>10. CASE AgentEdits
  <2>1. \A k \in Keys : [Load EXCEPT ![k] = AgentValue] \in Config
    BY <1>0 DEF Config, Values
  <2>2. [steps |-> Steps, current |-> 8] \in Sidecar
    BY StepsAssumption DEF Sidecar
  <2> QED
    BY <2>1, <2>2, <1>10 DEF AgentEdits
<1>11. CASE AgentEnds
  BY <1>11 DEF AgentEnds
<1>12. CASE RestoreConfig
  BY <1>12 DEF RestoreConfig
<1>13. CASE CopyConfig
  BY <1>13 DEF CopyConfig
<1>14. CASE RestoreSidecar
  BY <1>14 DEF RestoreSidecar, GuardLeaves
<1>15. CASE CopySidecar
  BY <1>15 DEF CopySidecar, GuardLeaves
<1>16. CASE LoopKilled
  BY <1>16, AgentBoundsAssumption DEF LoopKilled, GuardLeaves
<1>17. CASE OrphanEnds
  BY <1>17 DEF OrphanEnds
<1>18. CASE UNCHANGED vars
  BY <1>18 DEF vars
<1> QED
  BY NextCases, <1>1, <1>2, <1>3, <1>4, <1>5, <1>6, <1>7, <1>8, <1>9, <1>10,
     <1>11, <1>12, <1>13, <1>14, <1>15, <1>16, <1>17, <1>18

LEMMA TypeInvHolds == Spec => []TypeInv
BY TypeInvInit, TypeInvNext, PTL DEF Spec

\* The two files, the lock and the guard stay well-typed in every interleaving
\* of any number of requests and agents, whatever the agents do.
THEOREM TypeCorrect == Spec => []TypeOK
<1>1. TypeInv => TypeOK
  BY DEF TypeInv
<1> QED
  BY <1>1, TypeInvHolds, PTL
-----------------------------------------------------------------------------
\* What a snapshot stands for: its own content, or the defaults.
Content(snap) == IF snap \in {Missing, Torn} THEN Defaults ELSE snap

\* Until a loop is killed, the users' settings are in the config or, while an
\* agent and the restoration are at work, in the snapshot; and a request that
\* has read the config has read them.
KeptInv ==
  kills = 0 =>
    /\ ~orphan
    /\ guard # "off" => holder = NoClient
    /\ guard \in {"off", "snapside", "sidecar", "copysidecar"} => Load = want
    /\ guard \in {"snapside", "agent", "config", "copyconfig"}
         => Content(snapCfg) = want
    /\ guard = "copyconfig" => config = Torn /\ snapCfg # Missing
    /\ \A c \in Client : pc[c] = "write" => local[c] = Merged(want, req[c])

LEMMA KeptInit == Init => KeptInv
BY DEF Init, StoreInit, KeptInv, Load

LEMMA KeptNext ==
  ASSUME ~Overlap, TypeInv, KeptInv, [Next]_vars
  PROVE  KeptInv'
<1> SUFFICES ASSUME kills = 0, kills' = 0 PROVE KeptInv'
  <2>1. LoopKilled => kills' # 0
    BY AgentBoundsAssumption DEF LoopKilled, TypeInv, TypeOK
  <2>2. AgentEdits \/ UNCHANGED runner \/ UNCHANGED vars => kills' = kills
    BY DEF AgentEdits, runner, vars
  <2>3. SnapshotConfig \/ SnapshotSidecar \/ AgentEnds => kills' = kills
    BY DEF SnapshotConfig, SnapshotSidecar, AgentEnds
  <2>4. ASSUME \/ RestoreConfig \/ CopyConfig \/ RestoreSidecar
               \/ CopySidecar \/ OrphanEnds
        PROVE  kills' = kills
    BY <2>4 DEF RestoreConfig, CopyConfig, RestoreSidecar, CopySidecar, OrphanEnds
  <2>5. kills' = 0 => kills = 0
    BY <2>1, <2>2, <2>3, <2>4, NextCases
  <2> QED
    BY <2>5 DEF KeptInv
<1> USE DEF KeptInv, files, store, runner, Goto
<1>0. \A c \in Client : pc[c] # "idle" => holder = c /\ guard = "off"
  BY NullsAssumption DEF TypeInv
<1>1. ASSUME NEW c \in Client, NEW r \in Request, guard = "off", Enter(c, r),
             UNCHANGED runner
      PROVE KeptInv'
  BY <1>1 DEF Enter, Load, Content, TypeInv, TypeOK, StoreTypeOK
<1>2. ASSUME NEW c \in Client, LoadConfig(c), UNCHANGED runner PROVE KeptInv'
  BY <1>0, <1>2 DEF LoadConfig, Load, Content, TypeInv, TypeOK, StoreTypeOK
<1>3. ASSUME NEW c \in Client, WriteConfig(c), UNCHANGED runner PROVE KeptInv'
  <2>1. /\ pc[c] = "write" /\ local[c] \in Config /\ guard = "off"
        /\ config' = local[c] /\ want' = Merged(want, req[c])
        /\ guard' = "off" /\ ~orphan'
    BY <1>0, <1>3 DEF WriteConfig, TypeInv, TypeOK, StoreTypeOK
  <2>2. Load' = want'
    BY <2>1, NullsAssumption DEF Load
  <2>3. \A d \in Client : pc'[d] # "write"
    BY <1>0, <1>3, <2>1 DEF WriteConfig, Leave, TypeInv, TypeOK, StoreTypeOK
  <2> QED
    BY <2>1, <2>2, <2>3
<1>4. ASSUME NEW c \in Client, ReadSidecar(c), UNCHANGED runner PROVE KeptInv'
  BY <1>0, <1>4 DEF ReadSidecar, Load, Content, TypeInv, TypeOK, StoreTypeOK
<1>5. ASSUME NEW c \in Client, WriteSidecar(c), UNCHANGED runner PROVE KeptInv'
  BY <1>0, <1>5
     DEF WriteSidecar, Leave, Load, Content, TypeInv, TypeOK, StoreTypeOK
<1>6. ASSUME NEW c \in Client, Fails(c), UNCHANGED runner PROVE KeptInv'
  BY <1>0, <1>6 DEF Fails, Leave, Load, Content, TypeInv, TypeOK, StoreTypeOK
<1>7. CASE BackendReload /\ UNCHANGED runner
  BY <1>7 DEF BackendReload, Load, Content
<1>8. CASE SnapshotConfig
  BY <1>8 DEF SnapshotConfig, Load, Content
<1>9. CASE SnapshotSidecar
  BY <1>9 DEF SnapshotSidecar, Load, Content
<1>10. CASE AgentEdits
  BY <1>10 DEF AgentEdits
<1>11. CASE AgentEnds
  BY <1>11 DEF AgentEnds
<1>12. CASE RestoreConfig
  BY <1>12 DEF RestoreConfig, Load, Content
<1>13. CASE CopyConfig
  BY <1>13 DEF CopyConfig, Load, Content
<1>14. CASE RestoreSidecar
  BY <1>14 DEF RestoreSidecar, GuardLeaves, Load
<1>15. CASE CopySidecar
  BY <1>15 DEF CopySidecar, GuardLeaves, Load
<1>16. CASE LoopKilled
  BY <1>16 DEF LoopKilled
<1>17. CASE OrphanEnds
  BY <1>17 DEF OrphanEnds
<1>18. CASE UNCHANGED vars
  BY <1>18 DEF vars, Load
<1> QED
  BY NextCases, <1>1, <1>2, <1>3, <1>4, <1>5, <1>6, <1>7, <1>8, <1>9, <1>10,
     <1>11, <1>12, <1>13, <1>14, <1>15, <1>16, <1>17, <1>18

\* If no user saves while an agent runs, what the users set is what the config
\* says once nobody is at work: no save is lost to another one or to an agent,
\* whichever of them fail, and wherever the backend is replaced
\* (config_store.py:7-8, agent_runner.py:4-6).
THEOREM UserOwnsConfig ==
  ASSUME ~Overlap
  PROVE  Spec => []SettingsKept
<1>1. TypeInv /\ KeptInv /\ [Next]_vars => KeptInv'
  BY KeptNext
<1>2. KeptInv => SettingsKept
  BY DEF KeptInv, SettingsKept, AtRest
<1> QED
  BY <1>1, <1>2, KeptInit, TypeInvHolds, PTL DEF Spec
-----------------------------------------------------------------------------
\* What a request marks does not depend on what was marked before it.
LEMMA MarkedAdds ==
  ASSUME NEW sc \in Sidecar, NEW r \in Request, r.kind # "patch"
  PROVE  Marked(sc, r).steps = sc.steps \cup Marked(NoSteps, r).steps
BY DEF Marked, NoSteps, Sidecar

SideContent(snap) == IF snap \in {Missing, Torn} THEN NoSteps ELSE snap

\* The completed steps are in the sidecar or, from the snapshot until the
\* restoration, in the snapshot; where there was no sidecar, there is none.
MarkedInv ==
  kills = 0 =>
    /\ guard \in {"off", "snapside"} => LoadSidecar.steps = marked
    /\ guard = "snapside" => snapSide = sidecar
    /\ guard \in {"agent", "config", "copyconfig", "sidecar", "copysidecar"} =>
         /\ SideContent(snapSide).steps = marked
         /\ snapSide = Missing => sidecar = Missing
    /\ guard = "copysidecar" => sidecar = Torn /\ snapSide # Missing
    /\ \A c \in Client : pc[c] = "mark" =>
         side[c].steps = marked \cup Marked(NoSteps, req[c]).steps

LEMMA MarkedInit == Init => MarkedInv
BY DEF Init, StoreInit, MarkedInv, LoadSidecar, NoSteps

LEMMA KillsGrow ==
  ASSUME TypeInv, [Next]_vars, kills' = 0
  PROVE  kills = 0
<1>1. LoopKilled => kills' # 0
  BY AgentBoundsAssumption DEF LoopKilled, TypeInv, TypeOK
<1>2. AgentEdits \/ UNCHANGED runner \/ UNCHANGED vars => kills' = kills
  BY DEF AgentEdits, runner, vars
<1>3. SnapshotConfig \/ SnapshotSidecar \/ AgentEnds => kills' = kills
  BY DEF SnapshotConfig, SnapshotSidecar, AgentEnds
<1>4. ASSUME \/ RestoreConfig \/ CopyConfig \/ RestoreSidecar
             \/ CopySidecar \/ OrphanEnds
      PROVE  kills' = kills
  BY <1>4 DEF RestoreConfig, CopyConfig, RestoreSidecar, CopySidecar, OrphanEnds
<1> QED
  BY <1>1, <1>2, <1>3, <1>4, NextCases

LEMMA MarkedNext ==
  ASSUME ~Overlap, ~AgentCreates, TypeInv, KeptInv, MarkedInv, [Next]_vars
  PROVE  MarkedInv'
<1> SUFFICES ASSUME kills = 0, kills' = 0 PROVE MarkedInv'
  BY KillsGrow DEF MarkedInv
<1> USE DEF MarkedInv, files, store, runner, Goto
<1>0. /\ \A c \in Client : pc[c] # "idle" => holder = c /\ guard = "off"
      /\ ~orphan
      /\ LoadSidecar \in Sidecar
  BY NullsAssumption, LoadType DEF TypeInv, TypeOK, KeptInv
<1>1. ASSUME NEW c \in Client, NEW r \in Request, Enter(c, r), guard = "off", UNCHANGED runner
      PROVE MarkedInv'
  BY <1>0, <1>1 DEF Enter, LoadSidecar, SideContent, TypeInv, TypeOK, StoreTypeOK
<1>2. ASSUME NEW c \in Client, LoadConfig(c) \/ Fails(c), UNCHANGED runner
      PROVE MarkedInv'
  BY <1>0, <1>2 DEF LoadConfig, Fails, Leave, LoadSidecar, TypeInv, TypeOK, StoreTypeOK
<1>3. ASSUME NEW c \in Client, WriteConfig(c), UNCHANGED runner PROVE MarkedInv'
  BY <1>0, <1>3 DEF WriteConfig, Leave, LoadSidecar, TypeInv, TypeOK, StoreTypeOK
<1>4. ASSUME NEW c \in Client, ReadSidecar(c), UNCHANGED runner PROVE MarkedInv'
  <2>1. Marked(LoadSidecar, req[c]).steps = marked \cup Marked(NoSteps, req[c]).steps
    BY <1>0, <1>4, MarkedAdds DEF ReadSidecar, TypeInv
  <2> QED
    BY <1>0, <1>4, <2>1 DEF ReadSidecar, LoadSidecar, TypeInv, TypeOK, StoreTypeOK
<1>5. ASSUME NEW c \in Client, WriteSidecar(c), UNCHANGED runner PROVE MarkedInv'
  <2>1. /\ guard' = "off" /\ sidecar' = side[c] /\ side[c] \in Sidecar
        /\ side[c].steps = marked'
    BY <1>0, <1>5 DEF WriteSidecar, TypeInv, TypeOK, StoreTypeOK
  <2>2. LoadSidecar' = side[c]
    BY <2>1, NullsAssumption DEF LoadSidecar
  <2>3. \A d \in Client : pc'[d] # "mark"
    BY <1>0, <1>5 DEF WriteSidecar, Leave, TypeInv, TypeOK, StoreTypeOK
  <2> QED
    BY <2>1, <2>2, <2>3
<1>6. CASE BackendReload /\ UNCHANGED runner
  BY <1>6 DEF BackendReload, LoadSidecar
<1>7. CASE SnapshotConfig \/ SnapshotSidecar
  BY <1>0, <1>7 DEF SnapshotConfig, SnapshotSidecar, LoadSidecar, SideContent
<1>8. CASE AgentEdits
  BY <1>0, <1>8 DEF AgentEdits
<1>9. CASE AgentEnds \/ RestoreConfig \/ CopyConfig
  BY <1>0, <1>9 DEF AgentEnds, RestoreConfig, CopyConfig, LoadSidecar
<1>10. CASE RestoreSidecar
  BY <1>0, <1>10 DEF RestoreSidecar, GuardLeaves, LoadSidecar, SideContent
<1>11. CASE CopySidecar
  BY <1>0, <1>11 DEF CopySidecar, GuardLeaves, LoadSidecar, SideContent
<1>12. CASE LoopKilled
  BY <1>12, AgentBoundsAssumption DEF LoopKilled, TypeInv, TypeOK
<1>13. CASE OrphanEnds
  BY <1>0, <1>13 DEF OrphanEnds
<1>14. CASE UNCHANGED vars
  BY <1>14 DEF vars, LoadSidecar, SideContent
<1> QED
  BY NextCases, <1>1, <1>2, <1>3, <1>4, <1>5, <1>6, <1>7, <1>8, <1>9, <1>10,
     <1>11, <1>12, <1>13, <1>14

\* If besides no agent makes a sidecar where there was none, the wizard shows
\* exactly the steps that were completed, whatever failed in between.
THEOREM UserOwnsProgress ==
  ASSUME ~Overlap, ~AgentCreates
  PROVE  Spec => []StepsKept
<1>1. TypeInv /\ KeptInv /\ [Next]_vars => KeptInv'
  BY KeptNext
<1>2. TypeInv /\ KeptInv /\ MarkedInv /\ [Next]_vars => MarkedInv'
  BY MarkedNext
<1>3. MarkedInv => StepsKept
  BY DEF MarkedInv, StepsKept, AtRest
<1> QED
  BY <1>1, <1>2, <1>3, KeptInit, MarkedInit, TypeInvHolds, PTL DEF Spec
-----------------------------------------------------------------------------
\* A step has its data in what the users set.
Backed(s) == \/ KeyOf[s] = Nothing
             \/ want[KeyOf[s]] # Default
             \/ want[Done] = On

\* The data of a step is written before the step is marked, and nobody takes
\* it back.
BackedInv ==
  /\ \A s \in marked \cap Steps : Backed(s)
  /\ \A c \in Client : pc[c] \in {"read", "mark"} =>
       IF req[c].kind = "finish" THEN want[Done] = On ELSE Backed(req[c].step)

\* A request only adds to what backs a step.
LEMMA MergedBacks ==
  ASSUME Default \notin UserValues, NEW cfg \in Config, NEW r \in Request
  PROVE  /\ \A k \in Keys : cfg[k] # Default => Merged(cfg, r)[k] # Default \/ k = Done
         /\ cfg[Done] = On => Merged(cfg, r)[Done] = On
         /\ r.kind = "finish" => Merged(cfg, r)[Done] = On
         /\ r.kind = "step" => \/ KeyOf[r.step] = Nothing
                               \/ Merged(cfg, r)[KeyOf[r.step]] # Default
<1>1. Done \in Keys /\ cfg \in [Keys -> Values]
  BY DEF Keys, Config
<1>2. CASE r.kind = "finish"
  BY <1>1, <1>2 DEF Merged
<1>3. CASE r.kind = "patch"
  <2>1. r.key \in Keys /\ r.key # Done /\ r.value # Default
    BY <1>3 DEF Request
  <2> QED
    BY <1>1, <1>3, <2>1 DEF Merged
<1>4. CASE r.kind = "step"
  <2>1. r.step \in Steps /\ r.step \in 1..8 /\ r.value # Default
    BY <1>4, StepsAssumption DEF Request
  <2>2. KeyOf[r.step] # Done
    BY <2>1 DEF KeyOf, Done, Nothing
  <2>3. KeyOf[r.step] = Nothing \/ KeyOf[r.step] \in Keys
    BY <2>1 DEF Keys
  <2> QED
    BY <1>1, <1>4, <2>1, <2>2, <2>3 DEF Merged
<1>5. r.kind \in {"finish", "patch", "step"}
  BY DEF Request
<1> QED
  BY <1>2, <1>3, <1>4, <1>5

\* So a step that is backed stays so.
LEMMA BackedStays ==
  ASSUME Default \notin UserValues, want \in Config, NEW r \in Request,
         want' = Merged(want, r), NEW s \in Steps, Backed(s)
  PROVE  Backed(s)'
<1>1. s \in 1..8 /\ KeyOf[s] # Done
  BY StepsAssumption DEF KeyOf, Done, Nothing
<1>2. KeyOf[s] = Nothing \/ KeyOf[s] \in Keys
  BY DEF Keys
<1> QED
  BY <1>1, <1>2, MergedBacks DEF Backed

LEMMA BackedNext ==
  ASSUME Default \notin UserValues, TypeInv, BackedInv, [Next]_vars
  PROVE  BackedInv'
<1> USE DEF BackedInv, files, store, runner, Goto
<1>0. /\ want \in Config
      /\ \A c \in Client : pc[c] # "idle" => holder = c /\ req[c] \in Request
  BY DEF TypeInv, TypeOK, StoreTypeOK
<1>1. ASSUME NEW c \in Client,
             \/ \E r \in Request : Enter(c, r)
             \/ LoadConfig(c) \/ Fails(c) \/ ReadSidecar(c)
      PROVE BackedInv'
  BY <1>0, <1>1 DEF Enter, LoadConfig, Fails, Leave, ReadSidecar, Backed, TypeInv, TypeOK, StoreTypeOK
<1>2. ASSUME NEW c \in Client, WriteConfig(c) PROVE BackedInv'
  <2>1. pc[c] = "write" /\ req[c] \in Request /\ want' = Merged(want, req[c]) /\ marked' = marked
    BY <1>0, <1>2 DEF WriteConfig
  <2>2. \A s \in marked' \cap Steps : Backed(s)'
    BY <1>0, <2>1, BackedStays
  <2>3. \A d \in Client : pc'[d] \in {"read", "mark"} => d = c /\ req'[c] = req[c] /\ req[c].kind # "patch"
    BY <1>0, <1>2, <2>1 DEF WriteConfig, Leave, TypeInv, TypeOK, StoreTypeOK
  <2>4. /\ req[c].kind = "finish" => want'[Done] = On
        /\ req[c].kind = "step" => \/ KeyOf[req[c].step] = Nothing
                                   \/ want'[KeyOf[req[c].step]] # Default
    BY <1>0, <2>1, MergedBacks
  <2>5. req[c].kind \in {"finish", "patch", "step"}
    BY <2>1 DEF Request
  <2> QED
    BY <2>2, <2>3, <2>4, <2>5 DEF Backed
<1>3. ASSUME NEW c \in Client, WriteSidecar(c) PROVE BackedInv'
  <2>1. pc[c] = "mark" /\ req[c] \in Request /\ req[c].kind \in {"finish", "step"}
    BY <1>0, <1>3 DEF WriteSidecar, TypeInv, Request
  <2>2. want' = want /\ marked' = marked \cup Marked(NoSteps, req[c]).steps
    BY <1>3 DEF WriteSidecar
  <2>3. \A s \in Marked(NoSteps, req[c]).steps \cap Steps : Backed(s)
    BY <2>1 DEF Marked, NoSteps, Backed
  <2>4. \A d \in Client : pc'[d] \notin {"read", "mark"}
    BY <1>0, <1>3, <2>1 DEF WriteSidecar, Leave, TypeInv, TypeOK, StoreTypeOK
  <2> QED
    BY <2>2, <2>3, <2>4 DEF Backed
<1>4. CASE BackendReload
  BY <1>4 DEF BackendReload, Backed
<1>5. CASE SnapshotConfig \/ SnapshotSidecar \/ AgentEdits \/ AgentEnds
  BY <1>5 DEF SnapshotConfig, SnapshotSidecar, AgentEdits, AgentEnds, Backed
<1>6. CASE RestoreConfig \/ CopyConfig \/ RestoreSidecar \/ CopySidecar
  BY <1>6 DEF RestoreConfig, CopyConfig, RestoreSidecar, CopySidecar, Backed
<1>7. CASE LoopKilled \/ OrphanEnds \/ UNCHANGED vars
  BY <1>7 DEF LoopKilled, OrphanEnds, vars, Backed
<1> QED
  BY NextCases, <1>1, <1>2, <1>3, <1>4, <1>5, <1>6, <1>7

\* If users set values other than the defaults, a step that is shown as
\* completed has its data in the config.
THEOREM ProgressIsBacked ==
  ASSUME ~Overlap, ~AgentCreates, Default \notin UserValues
  PROVE  Spec => []StepsBacked
<1>1. Init => BackedInv
  BY DEF Init, StoreInit, BackedInv
<1>2. TypeInv /\ BackedInv /\ [Next]_vars => BackedInv'
  BY BackedNext
<1>3. BackedInv /\ SettingsKept /\ StepsKept => StepsBacked
  BY NullsAssumption DEF BackedInv, Backed, SettingsKept, StepsKept, StepsBacked, LoadSidecar
<1> QED
  BY <1>1, <1>2, <1>3, UserOwnsConfig, UserOwnsProgress, TypeInvHolds, PTL DEF Spec
=============================================================================
