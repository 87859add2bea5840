------------------------------- MODULE Ingest -------------------------------
(***************************************************************************)
(* pipeline/ingest.py (the backend's side), scripts/ingest_worker.py (the  *)
(* process that fills the vector store) and the status file between them,  *)
(* which the worker's main thread and its reporter thread both write.      *)
(* start_ingest_task and get_ingest_status hold _HANDLE_LOCK from end to   *)
(* end, so what interleaves with a handler is the worker.                  *)
(***************************************************************************)
EXTENDS Naturals, FiniteSets

CONSTANTS
  Task,            \* the runs that may be started, each with a worker process
  Starters,        \* threads that serve POST /api/corpus/ingest
  Pollers,         \* threads that serve GET /api/corpus/ingest/status
  NoTask, NoClient, NoFile,
  NFiles,          \* the size of the corpus
  MaxReloads,      \* bound: how often the backend process is replaced
  MaxResets,       \* bound: how often the vector store is wiped by hand
  Recovers,        \* whether the adapter repairs a store that it cannot read,
                   \* as Chroma's does, by wiping it
  MayDie,          \* whether the worker process may be killed
  MayStall,        \* whether the reporter may outlast the 2 s join
  MayFail          \* whether the last write of the status file may fail

ASSUME NullsAssumption ==
  NoTask \notin Task /\ NoClient \notin Starters \cup Pollers
ASSUME SizesAssumption == {NFiles, MaxReloads, MaxResets} \subseteq Nat
ASSUME FlagsAssumption ==
  {Recovers, MayDie, MayStall, MayFail} \subseteq BOOLEAN

VARIABLES
  handle,    \* _HANDLE: the task of the last start
  holder,    \* which client's handler holds _HANDLE_LOCK
  phase,     \* where each client is in its handler
  raw,       \* the state in the status file, as the handler read it
  resp,      \* the last response of each client
  worker,    \* where the main thread of each worker is
  rep,       \* where its reporter thread is
  done,      \* its _TASK.files_done; the corpus is walked in a fixed order
  chunks,    \* its _TASK.chunks_written
  verdict,   \* how its _ingest_sync ended
  bare,      \* history: the files it skipped, or that have no chunk
  tmp,       \* the temporary file of its pid, which both threads use
  file,      \* its status file
  store,     \* the files whose chunks are in the vector store
  reloads, resets

parent == <<handle, holder, phase, raw, resp>>
main   == <<worker, done, chunks, verdict, bare>>
ingestVars   == <<parent, main, rep, tmp, file, store, reloads, resets>>

Client  == Starters \cup Pollers
Files   == 1..NFiles
State   == {"running", "succeeded", "failed"}
Status  == [state : State, done : 0..NFiles, chunks : 0..NFiles]
Initial == [state |-> "running", done |-> 0, chunks |-> 0]
Failed  == [Initial EXCEPT !.state = "failed"]
NoAnswer == [task |-> NoTask, state |-> "idle"]

ASSUME NoFileAssumption == NoFile \notin Status

\* Popen.poll() is not None.
Exited(t) == worker[t] \in {"gone", "dead"}

\* The workers that may still write to the vector store.
Writing == {t \in Task : worker[t] \in {"seed", "load", "ingest"}}

IngestTypeOK ==
  /\ handle \in Task \cup {NoTask}
  /\ holder \in Client \cup {NoClient}
  /\ phase \in [Client -> {"idle", "look", "decide", "seed", "read", "judge"}]
  /\ raw \in [Client -> State \cup {"none"}]
  /\ resp \in [Client -> [task : Task \cup {NoTask},
                          state : State \cup {"idle"}]]
  /\ worker \in [Task -> {"unborn", "nospawn", "seed", "load", "ingest", "join",
                          "write", "replace", "exit", "gone", "dead"}]
  /\ rep \in [Task -> {"none", "wait", "tick", "replace", "gone"}]
  /\ done \in [Task -> 0..NFiles]
  /\ chunks \in [Task -> 0..NFiles]
  /\ verdict \in [Task -> {"none", "succeeded", "failed"}]
  /\ bare \in [Task -> SUBSET Files]
  /\ tmp \in [Task -> Status \cup {NoFile}]
  /\ file \in [Task -> Status \cup {NoFile}]
  /\ store \in SUBSET Files
  /\ reloads \in 0..MaxReloads
  /\ resets \in 0..MaxResets

IngestInit ==
  /\ handle = NoTask
  /\ holder = NoClient
  /\ phase = [c \in Client |-> "idle"]
  /\ raw = [c \in Client |-> "none"]
  /\ resp = [c \in Client |-> NoAnswer]
  /\ worker = [t \in Task |-> "unborn"]
  /\ rep = [t \in Task |-> "none"]
  /\ done = [t \in Task |-> 0]
  /\ chunks = [t \in Task |-> 0]
  /\ verdict = [t \in Task |-> "none"]
  /\ bare = [t \in Task |-> {}]
  /\ tmp = [t \in Task |-> NoFile]
  /\ file = [t \in Task |-> NoFile]
  /\ store = {}
  /\ reloads = 0
  /\ resets = 0
-----------------------------------------------------------------------------
ClientGoto(c, label) == phase' = [phase EXCEPT ![c] = label]

Enter(c, label) == /\ phase[c] = "idle"
                   /\ holder = NoClient
                   /\ holder' = c
                   /\ ClientGoto(c, label)

Reply(c, state) ==
  /\ holder' = NoClient
  /\ ClientGoto(c, "idle")
  /\ raw' = [raw EXCEPT ![c] = "none"]
  /\ resp' = [resp EXCEPT ![c] = [task |-> handle', state |-> state]]

WorkerSame == UNCHANGED <<main, rep, tmp, store, reloads, resets>>

\* _read_status_file: what it makes of a file it read, with the poll that it
\* makes afterwards.  The file exists from before the worker does, and is
\* only ever replaced whole, so it is never found missing or unreadable.
\* Mutation: the process is not asked.
JudgedTrusting(t, state) == state

Judged(t, state) == IF state = "running" /\ Exited(t) THEN "failed" ELSE state

ReadStatus(c, from, to) ==
  /\ phase[c] = from
  /\ raw' = [raw EXCEPT ![c] = file[handle].state]
  /\ ClientGoto(c, to)
  /\ UNCHANGED <<handle, holder, resp, file>>
  /\ WorkerSame
-----------------------------------------------------------------------------
\* start_ingest_task.  A worker that has exited needs no look at its file.
\* Mutation: nor does a worker that runs.
StartEnterBlind(c) ==
  /\ Enter(c, "seed")
  /\ UNCHANGED <<handle, raw, resp, file>>
  /\ WorkerSame

StartEnter(c) ==
  /\ Enter(c, IF handle = NoTask \/ worker[handle] = "nospawn" \/ Exited(handle)
              THEN "seed" ELSE "look")
  /\ UNCHANGED <<handle, raw, resp, file>>
  /\ WorkerSame

StartLook(c) == ReadStatus(c, "look", "decide")

StartDecide(c) ==
  /\ phase[c] = "decide"
  /\ UNCHANGED <<handle, file>>
  /\ IF Judged(handle, raw[c]) = "running"
     THEN Reply(c, "running")
     ELSE ClientGoto(c, "seed") /\ UNCHANGED <<holder, raw, resp>>
  /\ WorkerSame

\* A fresh status file, then Popen.
StartSpawn(c, t) ==
  /\ phase[c] = "seed"
  /\ worker[t] = "unborn"
  /\ worker' = [worker EXCEPT ![t] = "seed"]
  /\ file' = [file EXCEPT ![t] = Initial]
  /\ handle' = t
  /\ ClientGoto(c, "read")
  /\ UNCHANGED <<holder, raw, resp, done, chunks, verdict, bare, rep, tmp,
                 store, reloads, resets>>

\* mkdir or the writing of the status or config file raises: the request ends
\* in an error response.
StartRaises(c) ==
  /\ phase[c] = "seed"
  /\ holder' = NoClient
  /\ ClientGoto(c, "idle")
  /\ raw' = [raw EXCEPT ![c] = "none"]
  /\ resp' = [resp EXCEPT ![c] = NoAnswer]
  /\ UNCHANGED <<handle, file>>
  /\ WorkerSame

\* Popen raises: a terminal status, and a handle without a process.
StartFails(c, t) ==
  /\ phase[c] = "seed"
  /\ worker[t] = "unborn"
  /\ worker' = [worker EXCEPT ![t] = "nospawn"]
  /\ file' = [file EXCEPT ![t] = Failed]
  /\ handle' = t
  /\ Reply(c, "failed")
  /\ UNCHANGED <<done, chunks, verdict, bare, rep, tmp, store, reloads, resets>>

\* The status file is read, and then the process is polled: the tail of
\* start_ingest_task, and the whole of get_ingest_status.
HandlerReads(c) == ReadStatus(c, "read", "judge")

HandlerJudges(c) ==
  /\ phase[c] = "judge"
  /\ UNCHANGED <<handle, file>>
  /\ Reply(c, Judged(handle, raw[c]))
  /\ WorkerSame

GetIdle(c) ==
  /\ phase[c] = "idle"
  /\ holder = NoClient
  /\ handle = NoTask
  /\ resp' = [resp EXCEPT ![c] = NoAnswer]
  /\ UNCHANGED <<handle, holder, phase, raw, file>>
  /\ WorkerSame

GetEnter(c) ==
  /\ handle # NoTask
  /\ Enter(c, "read")
  /\ UNCHANGED <<handle, raw, resp, file>>
  /\ WorkerSame

\* serve_ui.py runs uvicorn with --reload.  The worker is in a session of its
\* own and lives on; the new backend has no handle.
BackendReload ==
  /\ reloads < MaxReloads
  /\ reloads' = reloads + 1
  /\ handle' = NoTask
  /\ holder' = NoClient
  /\ phase' = [c \in Client |-> "idle"]
  /\ raw' = [c \in Client |-> "none"]
  /\ resp' = [c \in Client |-> NoAnswer]
  /\ UNCHANGED <<main, rep, tmp, file, store, resets>>

\* POST /api/system/reset-vector-store asks no worker and takes no lock.
ResetStore ==
  /\ resets < MaxResets
  /\ resets' = resets + 1
  /\ store' = {}
  /\ UNCHANGED <<parent, main, rep, tmp, file, reloads>>
-----------------------------------------------------------------------------
ParentSame == UNCHANGED <<parent, reloads, resets>>

WorkerGoto(t, label) == worker' = [worker EXCEPT ![t] = label]

\* ingest_worker.run(): its own first status, then the imports and the config.
WorkerSeeds(t) ==
  /\ worker[t] = "seed"
  /\ WorkerGoto(t, "load")
  /\ file' = [file EXCEPT ![t] = Initial]
  /\ UNCHANGED <<done, chunks, verdict, bare, rep, tmp, store>>
  /\ ParentSame

\* The reporter is not there yet: a terminal status, written by hand.
WorkerLoadFails(t) ==
  /\ worker[t] = "load"
  /\ WorkerGoto(t, "exit")
  /\ file' = [file EXCEPT ![t] = Failed]
  /\ verdict' = [verdict EXCEPT ![t] = "failed"]
  /\ UNCHANGED <<done, chunks, bare, rep, tmp, store>>
  /\ ParentSame

\* reporter.start(), and the connection to the store.
WorkerOpens(t) ==
  /\ worker[t] = "load"
  /\ WorkerGoto(t, "ingest")
  /\ rep' = [rep EXCEPT ![t] = "wait"]
  /\ store' \in {store} \cup (IF Recovers THEN {{}} ELSE {})
  /\ UNCHANGED <<done, chunks, verdict, bare, tmp, file>>
  /\ ParentSame

\* _ingest_sync: one file, number k.
Next1(t) == done[t] + 1

File(t) ==
  /\ worker[t] = "ingest"
  /\ Next1(t) \in Files
  /\ done' = [done EXCEPT ![t] = Next1(t)]
  /\ UNCHANGED <<worker, verdict, rep, tmp, file>>
  /\ ParentSame

\* Not decodable, of an unknown type, or empty: no chunk.
FileSkipped(t) ==
  /\ File(t)
  /\ bare' = [bare EXCEPT ![t] = @ \cup {Next1(t)}]
  /\ UNCHANGED <<chunks, store>>

FileStored(t) ==
  /\ File(t)
  /\ chunks' = [chunks EXCEPT ![t] = @ + 1]
  /\ store' = store \cup {Next1(t)}
  /\ UNCHANGED bare

\* upsert fails with an error that the adapter takes for an unreadable store:
\* it wipes the store, connects again and repeats the upsert.
FileRecovered(t) ==
  /\ Recovers
  /\ File(t)
  /\ chunks' = [chunks EXCEPT ![t] = @ + 1]
  /\ store' = {Next1(t)}
  /\ UNCHANGED bare

\* Mutation: a chunk, an embedding or an upsert that fails skips the file.
FileFailsSoftly(t) ==
  /\ File(t)
  /\ UNCHANGED <<chunks, bare, store>>

\* Any other failure ends the run.
FileFails(t) ==
  /\ worker[t] = "ingest"
  /\ WorkerGoto(t, "join")
  /\ verdict' = [verdict EXCEPT ![t] = "failed"]
  /\ UNCHANGED <<done, chunks, bare, rep, tmp, file, store>>
  /\ ParentSame

\* Mutation: the loop over the files falls through without a verdict.
IngestEndsUnsaid(t) ==
  /\ worker[t] = "ingest"
  /\ done[t] = NFiles
  /\ WorkerGoto(t, "join")
  /\ UNCHANGED <<done, chunks, verdict, bare, rep, tmp, file, store>>
  /\ ParentSame

IngestEnds(t) ==
  /\ worker[t] = "ingest"
  /\ done[t] = NFiles
  /\ WorkerGoto(t, "join")
  /\ verdict' = [verdict EXCEPT ![t] = "succeeded"]
  /\ UNCHANGED <<done, chunks, bare, rep, tmp, file, store>>
  /\ ParentSame

\* reporter.stop(): the event is set, and the thread is joined for 2 s.
\* Mutation: it is not waited for.
WorkerJoinsNot(t) ==
  /\ worker[t] = "join"
  /\ WorkerGoto(t, "write")
  /\ UNCHANGED <<done, chunks, verdict, bare, rep, tmp, file, store>>
  /\ ParentSame

WorkerJoins(t) ==
  /\ worker[t] = "join"
  /\ rep[t] = "gone" \/ MayStall
  /\ WorkerGoto(t, "write")
  /\ UNCHANGED <<done, chunks, verdict, bare, rep, tmp, file, store>>
  /\ ParentSame

\* The last flush.  A run that took files and wrote nothing has failed.
Final(t) ==
  [state  |-> IF done[t] > 0 /\ chunks[t] = 0 THEN "failed" ELSE verdict[t],
   done   |-> done[t], chunks |-> chunks[t]]

WorkerWrites(t) ==
  /\ worker[t] = "write"
  /\ WorkerGoto(t, "replace")
  /\ tmp' = [tmp EXCEPT ![t] = Final(t)]
  /\ UNCHANGED <<done, chunks, verdict, bare, rep, file, store>>
  /\ ParentSame

\* os.replace; a missing file raises, and flush() only warns.
Replace(t) ==
  /\ file' = [file EXCEPT ![t] = IF tmp[t] = NoFile THEN @ ELSE tmp[t]]
  /\ tmp' = [tmp EXCEPT ![t] = NoFile]

WorkerReplaces(t) ==
  /\ worker[t] = "replace"
  /\ WorkerGoto(t, "exit")
  /\ Replace(t)
  /\ UNCHANGED <<done, chunks, verdict, bare, rep, store>>
  /\ ParentSame

WorkerFlushFails(t) ==
  /\ MayFail
  /\ worker[t] \in {"write", "replace"}
  /\ WorkerGoto(t, "exit")
  /\ UNCHANGED <<done, chunks, verdict, bare, rep, tmp, file, store>>
  /\ ParentSame

\* The process ends, and with it the daemon thread and the module's _TASK; a
\* temporary file that it leaves is of no use to anybody else.
WorkerEnds(t, how) ==
  /\ WorkerGoto(t, how)
  /\ rep' = [rep EXCEPT ![t] = "gone"]
  /\ done' = [done EXCEPT ![t] = 0]
  /\ chunks' = [chunks EXCEPT ![t] = 0]
  /\ verdict' = [verdict EXCEPT ![t] = "none"]
  /\ tmp' = [tmp EXCEPT ![t] = NoFile]
  /\ UNCHANGED <<bare, file, store>>
  /\ ParentSame

WorkerExits(t) == worker[t] = "exit" /\ WorkerEnds(t, "gone")

WorkerDies(t) ==
  /\ MayDie
  /\ worker[t] \notin {"unborn", "nospawn", "exit", "gone", "dead"}
  /\ WorkerEnds(t, "dead")
-----------------------------------------------------------------------------
RepGoto(t, label) == rep' = [rep EXCEPT ![t] = label]

\* _StatusReporter._run: the wait of the event times out, or it is set.
RepTicks(t) ==
  /\ rep[t] = "wait"
  /\ RepGoto(t, IF worker[t] = "ingest" THEN "tick" ELSE "gone")
  /\ UNCHANGED <<main, tmp, file, store>>
  /\ ParentSame

RepWrites(t) ==
  /\ rep[t] = "tick"
  /\ RepGoto(t, "replace")
  /\ tmp' = [tmp EXCEPT ![t] = [state |-> "running", done |-> done[t],
                                chunks |-> chunks[t]]]
  /\ UNCHANGED <<main, file, store>>
  /\ ParentSame

RepReplaces(t) ==
  /\ rep[t] = "replace"
  /\ RepGoto(t, "wait")
  /\ Replace(t)
  /\ UNCHANGED <<main, store>>
  /\ ParentSame
-----------------------------------------------------------------------------
Start(c) == \/ StartEnter(c) \/ StartLook(c) \/ StartDecide(c)
            \/ StartRaises(c)
            \/ \E t \in Task : StartSpawn(c, t) \/ StartFails(c, t)

Get(c) == GetIdle(c) \/ GetEnter(c)

Respond(c) == HandlerReads(c) \/ HandlerJudges(c)

Worker(t) == \/ WorkerSeeds(t) \/ WorkerLoadFails(t) \/ WorkerOpens(t)
             \/ FileSkipped(t) \/ FileStored(t) \/ FileRecovered(t)
             \/ FileFails(t) \/ IngestEnds(t) \/ WorkerJoins(t)
             \/ WorkerWrites(t) \/ WorkerReplaces(t) \/ WorkerFlushFails(t)
             \/ WorkerExits(t)

Reporter(t) == RepTicks(t) \/ RepWrites(t) \/ RepReplaces(t)

IngestNext ==
  \/ \E c \in Starters : Start(c)
  \/ \E c \in Pollers : Get(c)
  \/ \E c \in Client : Respond(c)
  \/ \E t \in Task : Worker(t) \/ Reporter(t) \/ WorkerDies(t)
  \/ BackendReload
  \/ ResetStore

IngestSpec == IngestInit /\ [][IngestNext]_ingestVars

\* Both threads of a worker run on, as long as what they call returns.
Fairness == \A t \in Task : WF_ingestVars(Worker(t)) /\ WF_ingestVars(Reporter(t))

IngestFairSpec == IngestSpec /\ Fairness
-----------------------------------------------------------------------------
\* "If a worker is already running, just surface its current status"
\* (ingest.py:254): never two workers that may write to the vector store.
OneWriter == \A s, t \in Writing : s = t

\* A run that its status file calls a success put every file into the store
\* that had something to put there, and failed at none.
SuccessMeansStored ==
  \A t \in Task :
    file[t] # NoFile /\ file[t].state = "succeeded"
      => Files \ bare[t] \subseteq store

\* A status file that says how the run ended says so for good, and until then
\* its numbers only grow, whichever thread of the worker wrote last.
StatusMonotone ==
  [][\A t \in Task :
       file[t] # NoFile =>
         /\ file[t].state # "running" => file'[t] = file[t]
         /\ file'[t].state = "running" => /\ file'[t].done >= file[t].done
                                          /\ file'[t].chunks >= file[t].chunks
    ]_ingestVars

\* "The status file is always written before exit so the parent can read
\* terminal state" (ingest_worker.py:31-32).
ExitMeansTerminal ==
  \A t \in Task : worker[t] = "gone" => file[t].state # "running"

\* The client is told of a failure "if a worker was launched but exited before
\* writing a terminal state" (ingest.py:360-363), never of one whose status
\* file says that it succeeded.
FailureIsTrue ==
  \A c \in Client :
    LET t == resp[c].task
    IN  t # NoTask /\ resp[c].state = "failed"
          => file[t].state # "succeeded"

\* "Rather than perpetually returning `running` against a dead process"
\* (ingest.py:363): every run that was started comes to a state in which a
\* poll is no longer answered "running".
Resolves ==
  \A t \in Task :
    file[t] # NoFile
      ~> file[t] # NoFile /\ Judged(t, file[t].state) # "running"
=============================================================================
