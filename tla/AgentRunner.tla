---------------------------- MODULE AgentRunner ----------------------------
(***************************************************************************)
(* pipeline/agent_runner.py: an agent that may do anything to the user's   *)
(* config and sidecar, between the snapshot and the restoration of         *)
(* config_snapshot_guard; composed with the requests of the wizard and of  *)
(* the settings page (ConfigStore), which write the same two files.        *)
(***************************************************************************)
EXTENDS ConfigStore

CONSTANTS
  MaxAgents,       \* bound: how often run_agent is called
  MaxKills,        \* bound: how often loop.py is killed
  Overlap,         \* whether a user saves settings while an agent runs
  AgentCreates     \* whether an agent creates a sidecar where there was none

ASSUME AgentBoundsAssumption == {MaxAgents, MaxKills} \subseteq Nat
ASSUME FlagsAssumption == {Overlap, AgentCreates} \subseteq BOOLEAN

VARIABLES
  guard,     \* where run_agent is
  snapCfg,   \* the snapshot of the config, or Missing
  snapSide,  \* the snapshot of the sidecar, or Missing
  orphan,    \* whether an agent lives on whose loop was killed
  agents,    \* how many agents were started
  kills      \* how often loop.py was killed

runner == <<guard, snapCfg, snapSide, orphan, agents, kills>>
vars   == <<files, store, runner>>

TypeOK ==
  /\ StoreTypeOK
  /\ guard \in {"off", "snapside", "agent", "config", "copyconfig", "sidecar",
                "copysidecar"}
  /\ snapCfg \in Config \cup {Missing, Torn}
  /\ snapSide \in Sidecar \cup {Missing, Torn}
  /\ orphan \in BOOLEAN
  /\ agents \in 0..MaxAgents
  /\ kills \in 0..MaxKills

Init ==
  /\ StoreInit
  /\ guard = "off"
  /\ snapCfg = Missing
  /\ snapSide = Missing
  /\ orphan = FALSE
  /\ agents = 0
  /\ kills = 0
-----------------------------------------------------------------------------
\* Which files exist, and the copy of the config.
SnapshotConfig ==
  /\ guard = "off"
  /\ Overlap \/ holder = NoClient
  /\ agents < MaxAgents
  /\ agents' = agents + 1
  /\ snapCfg' = config
  /\ snapSide' = sidecar
  /\ guard' = "snapside"
  /\ UNCHANGED <<files, store, orphan, kills>>

\* The copy of the sidecar, if it existed when they were asked for.
SnapshotSidecar ==
  /\ guard = "snapside"
  /\ snapSide' = IF snapSide = Missing THEN Missing ELSE sidecar
  /\ guard' = "agent"
  /\ UNCHANGED <<files, store, snapCfg, orphan, agents, kills>>

\* An agent may edit a key, break a file or delete it.
AgentEdits ==
  /\ guard = "agent" \/ orphan
  /\ \/ /\ config' \in {[Load EXCEPT ![k] = AgentValue] : k \in Keys}
                         \cup {Missing, Torn}
        /\ UNCHANGED sidecar
     \/ /\ sidecar' \in {[steps |-> Steps, current |-> 8], Missing, Torn}
        /\ sidecar # Missing \/ AgentCreates
        /\ UNCHANGED config
  /\ UNCHANGED <<store, runner>>

\* It exits, times out or cannot be launched.
AgentEnds ==
  /\ guard = "agent"
  /\ guard' = "config"
  /\ UNCHANGED <<files, store, snapCfg, snapSide, orphan, agents, kills>>

\* Mutation: a config that the agent deleted needs no restoring.
RestoreConfigIfPresent ==
  /\ guard = "config"
  /\ IF snapCfg = Missing
     THEN config' = Missing /\ guard' = "sidecar"
     ELSE IF config \in {snapCfg, Missing}
          THEN guard' = "sidecar" /\ UNCHANGED config
          ELSE guard' = "copyconfig" /\ config' = Torn
  /\ UNCHANGED <<sidecar, store, snapCfg, snapSide, orphan, agents, kills>>

\* A config that was not there is removed; one that differs from its snapshot
\* is opened by shutil.copy2, which empties it, ...
RestoreConfig ==
  /\ guard = "config"
  /\ IF snapCfg = Missing
     THEN config' = Missing /\ guard' = "sidecar"
     ELSE IF config = snapCfg
          THEN guard' = "sidecar" /\ UNCHANGED config
          ELSE guard' = "copyconfig" /\ config' = Torn
  /\ UNCHANGED <<sidecar, store, snapCfg, snapSide, orphan, agents, kills>>

\* ... and then filled; if it was replaced meanwhile, what is filled is a file
\* that has no name any more.
CopyConfig ==
  /\ guard = "copyconfig"
  /\ config' = IF config = Torn THEN snapCfg ELSE config
  /\ guard' = "sidecar"
  /\ UNCHANGED <<sidecar, store, snapCfg, snapSide, orphan, agents, kills>>

\* The snapshots are removed with their directory.
GuardLeaves == guard' = "off" /\ snapCfg' = Missing /\ snapSide' = Missing

\* The sidecar likewise, but one that was not there is left.
RestoreSidecar ==
  /\ guard = "sidecar"
  /\ IF snapSide \in {Missing, sidecar}
     THEN GuardLeaves /\ UNCHANGED sidecar
     ELSE /\ sidecar' = Torn
          /\ guard' = "copysidecar"
          /\ UNCHANGED <<snapCfg, snapSide>>
  /\ UNCHANGED <<config, store, orphan, agents, kills>>

CopySidecar ==
  /\ guard = "copysidecar"
  /\ sidecar' = IF sidecar = Torn THEN snapSide ELSE sidecar
  /\ GuardLeaves
  /\ UNCHANGED <<config, store, orphan, agents, kills>>

\* SIGTERM ends loop.py without its `finally`, and without its agent.
LoopKilled ==
  /\ kills < MaxKills
  /\ guard # "off"
  /\ kills' = kills + 1
  /\ orphan' = (orphan \/ guard = "agent")
  /\ GuardLeaves
  /\ UNCHANGED <<files, store, agents>>

OrphanEnds ==
  /\ orphan
  /\ orphan' = FALSE
  /\ UNCHANGED <<files, store, guard, snapCfg, snapSide, agents, kills>>
-----------------------------------------------------------------------------
Guard == \/ SnapshotConfig \/ SnapshotSidecar \/ AgentEnds
         \/ RestoreConfig \/ CopyConfig \/ RestoreSidecar \/ CopySidecar

Next == \/ /\ Overlap \/ guard = "off"
           /\ \E c \in Client, r \in Request : Enter(c, r)
           /\ UNCHANGED runner
        \/ StoreStep /\ UNCHANGED runner
        \/ Guard
        \/ AgentEdits
        \/ LoopKilled
        \/ OrphanEnds

Spec == Init /\ [][Next]_vars
-----------------------------------------------------------------------------
\* No request is being served, no agent is at work, and none was left alone
\* with the files by a loop that was killed.
AtRest == holder = NoClient /\ guard = "off" /\ kills = 0

\* Whoever reads the config at rest finds what the users set last, key by key,
\* and nothing else: no save lost another's, none started from the defaults
\* of a broken file, and an agent's edits are gone (config_store.py:7-8,
\* agent_runner.py:4-6).
SettingsKept == AtRest => Load = want

\* A step that the wizard shows as completed has its data in the config, even
\* when the backend was replaced in the middle of a save: the two files are
\* written in that order, and restored to one point in time.
StepsBacked ==
  AtRest /\ sidecar \in Sidecar =>
    \A s \in sidecar.steps \cap Steps :
      \/ KeyOf[s] = Nothing
      \/ Load[KeyOf[s]] # Default
      \/ Load[Done] = On

\* The wizard shows exactly the steps that were completed: no save unmarked
\* another's, and no agent marked or unmarked one.
StepsKept == AtRest => LoadSidecar.steps = marked

\* "Blue team must never touch the user-owned config; this guard makes drift
\* impossible regardless of agent behavior" (agent_runner.py:4-6).
NoDrift == AtRest => \A k \in Keys : Load[k] # AgentValue
=============================================================================
