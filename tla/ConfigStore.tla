---------------------------- MODULE ConfigStore ----------------------------
(***************************************************************************)
(* ui/backend/config_store.py: the project config and the sidecar in which *)
(* the wizard's completed steps are kept.  save_step, finish_setup and     *)
(* patch hold _WRITE_LOCK from end to end; each reads a file whole and     *)
(* replaces it whole.  What interleaves with them is whoever writes the    *)
(* two files without the lock (AgentRunner).                               *)
(***************************************************************************)
EXTENDS Naturals

CONSTANTS
  Client,        \* the threads that serve the wizard and the settings page
  NoClient,
  Steps,         \* the wizard steps that are saved
  UserValues,    \* what a user may set a key to
  Default,       \* the value that BratanConfig gives a key
  AgentValue,    \* what an agent may set a key to
  Missing, Torn, \* a file that is not there; one that does not parse
  MaxReloads     \* bound: how often the backend process is replaced

ASSUME StepsAssumption == Steps \subseteq 1..8
ASSUME ReloadsAssumption == MaxReloads \in Nat

VARIABLES
  config,    \* bratan.config.yaml
  sidecar,   \* .bratan-setup.json
  holder,    \* the client that holds _WRITE_LOCK
  pc,        \* where each client is in its handler
  req,       \* its request
  local,     \* its merged config, and then ...
  side,      \* ... its updated sidecar
  want,      \* history: what each key was last set to by a user
  marked,    \* history: the steps that were marked as completed
  reloads

files  == <<config, sidecar>>
store  == <<holder, pc, req, local, side, want, marked, reloads>>

\* useAutoSaveStep.ts: the config key that the data of a step goes to.  Step 6
\* has no data.
Nothing == "nothing"
KeyOf == <<"project", "vector_db", "models", "cost", "project", Nothing,
           "stop", "judge_weights">>

Done == "setup_completed"
On   == "on"

Keys   == ({KeyOf[s] : s \in Steps} \ {Nothing}) \cup {Done}
Values == UserValues \cup {Default, AgentValue, On}
Config  == [Keys -> Values]
Sidecar == [steps : SUBSET (1..8), current : 1..8]

Defaults == [k \in Keys |-> Default]
NoSteps  == [steps |-> {}, current |-> 1]

Request ==
  [kind : {"step"}, step : Steps, value : UserValues]
    \cup [kind : {"patch"}, key : Keys \ {Done}, value : UserValues]
    \cup [kind : {"finish"}]
NoRequest == [kind |-> "none"]

\* A file that is missing or broken has no content.
ASSUME NullsAssumption ==
  /\ NoClient \notin Client
  /\ {Missing, Torn} \cap (Config \cup Sidecar) = {}

StoreTypeOK ==
  /\ config \in Config \cup {Missing, Torn}
  /\ sidecar \in Sidecar \cup {Missing, Torn}
  /\ holder \in Client \cup {NoClient}
  /\ pc \in [Client -> {"idle", "load", "write", "read", "mark"}]
  /\ req \in [Client -> Request \cup {NoRequest}]
  /\ local \in [Client -> Config]
  /\ side \in [Client -> Sidecar]
  /\ want \in Config
  /\ marked \in SUBSET (1..8)
  /\ reloads \in 0..MaxReloads

StoreInit ==
  /\ config = Missing
  /\ sidecar = Missing
  /\ holder = NoClient
  /\ pc = [c \in Client |-> "idle"]
  /\ req = [c \in Client |-> NoRequest]
  /\ local = [c \in Client |-> Defaults]
  /\ side = [c \in Client |-> NoSteps]
  /\ want = Defaults
  /\ marked = {}
  /\ reloads = 0
-----------------------------------------------------------------------------
\* load(): the defaults when the file is missing or does not parse.
Load == IF config \in {Missing, Torn} THEN Defaults ELSE config

\* _read_sidecar()
LoadSidecar == IF sidecar \in {Missing, Torn} THEN NoSteps ELSE sidecar

\* _deep_merge and finish_setup's update: only the keys of the request change.
Merged(cfg, r) ==
  CASE r.kind = "finish" -> [cfg EXCEPT ![Done] = On]
    [] r.kind = "patch"  -> [cfg EXCEPT ![r.key] = r.value]
    [] r.kind = "step"   -> IF KeyOf[r.step] = Nothing THEN cfg
                            ELSE [cfg EXCEPT ![KeyOf[r.step]] = r.value]

\* Mutation: the next step of the last one is a ninth.
MarkedUnclamped(sc, r) ==
  IF r.kind = "finish" THEN [steps |-> 1..8, current |-> 8]
  ELSE [steps |-> sc.steps \cup {r.step}, current |-> r.step + 1]

Marked(sc, r) ==
  IF r.kind = "finish" THEN [steps |-> 1..8, current |-> 8]
  ELSE [steps   |-> sc.steps \cup {r.step},
        current |-> IF r.step < 8 THEN r.step + 1 ELSE 8]

Goto(c, label) == pc' = [pc EXCEPT ![c] = label]

\* The handler leaves the lock, with an answer or with an exception; its
\* locals go with it.
Leave(c) == /\ holder' = NoClient
            /\ Goto(c, "idle")
            /\ req' = [req EXCEPT ![c] = NoRequest]
            /\ local' = [local EXCEPT ![c] = Defaults]
            /\ side' = [side EXCEPT ![c] = NoSteps]

\* Mutation: the lock is not taken.
EnterUnlocked(c, r) ==
  /\ pc[c] = "idle"
  /\ holder' = c
  /\ Goto(c, "load")
  /\ req' = [req EXCEPT ![c] = r]
  /\ UNCHANGED <<files, local, side, want, marked, reloads>>

Enter(c, r) ==
  /\ pc[c] = "idle"
  /\ holder = NoClient
  /\ holder' = c
  /\ Goto(c, "load")
  /\ req' = [req EXCEPT ![c] = r]
  /\ UNCHANGED <<files, local, side, want, marked, reloads>>

LoadConfig(c) ==
  /\ pc[c] = "load"
  /\ local' = [local EXCEPT ![c] = Merged(Load, req[c])]
  /\ Goto(c, "write")
  /\ UNCHANGED <<files, holder, req, side, want, marked, reloads>>

\* _write_config; patch is done after it.
WriteConfig(c) ==
  /\ pc[c] = "write"
  /\ config' = local[c]
  /\ want' = Merged(want, req[c])
  /\ IF req[c].kind = "patch"
     THEN Leave(c)
     ELSE Goto(c, "read") /\ UNCHANGED <<holder, req, local, side>>
  /\ UNCHANGED <<sidecar, marked, reloads>>

ReadSidecar(c) ==
  /\ pc[c] = "read"
  /\ side' = [side EXCEPT ![c] = Marked(LoadSidecar, req[c])]
  /\ Goto(c, "mark")
  /\ UNCHANGED <<files, holder, req, local, want, marked, reloads>>

WriteSidecar(c) ==
  /\ pc[c] = "mark"
  /\ sidecar' = side[c]
  /\ marked' = marked \cup Marked(NoSteps, req[c]).steps
  /\ Leave(c)
  /\ UNCHANGED <<config, want, reloads>>

\* Mutation: an exception of the config's write is logged, and the step is
\* marked all the same.
FailsSoftly(c) ==
  /\ pc[c] = "write"
  /\ req[c].kind # "patch"
  /\ Goto(c, "read")
  /\ UNCHANGED <<files, holder, req, local, side, want, marked, reloads>>

\* The data does not validate, or a write raises: _atomic_write removes its
\* temporary file, and the file it should have replaced is as it was.
Fails(c) ==
  /\ pc[c] \in {"load", "write", "read", "mark"}
  /\ Leave(c)
  /\ UNCHANGED <<files, want, marked, reloads>>

\* serve_ui.py runs uvicorn with --reload: a handler ends where it is.
BackendReload ==
  /\ reloads < MaxReloads
  /\ reloads' = reloads + 1
  /\ holder' = NoClient
  /\ pc' = [c \in Client |-> "idle"]
  /\ req' = [c \in Client |-> NoRequest]
  /\ local' = [c \in Client |-> Defaults]
  /\ side' = [c \in Client |-> NoSteps]
  /\ UNCHANGED <<files, want, marked>>

StoreStep == \/ \E c \in Client : \/ LoadConfig(c) \/ WriteConfig(c)
                                  \/ ReadSidecar(c) \/ WriteSidecar(c)
                                  \/ Fails(c)
             \/ BackendReload
=============================================================================
