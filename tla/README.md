# Bratan: a TLA+ model

Bratan runs an *orchestrator* that makes a RAG pipeline better by itself: a red
team agent adds hard test cases, a blue team agent edits `pipeline/`, an eval
grades the result, and pure stop criteria decide whether to go on. A FastAPI
backend starts and stops the orchestrator, manages a local vLLM server, fills
the vector store through a worker process and streams reports to a dashboard.

What can go wrong here is not in the arithmetic of the scores but between
processes: handlers in a thread pool that hold a lock only for a part of what
they do, a backend that is replaced on every file change while its children
live on, and files (`reports/latest.json`, an ingest status file, the config, the
vector store, the cache of model calls) that several processes write and read
without asking each other. That is what is modelled.

## 1. Inventory

| part | source | state it keeps | operations | talks to |
|---|---|---|---|---|
| Loop process control | `ui/backend/loop_control.py` | handle, task id, log of one child process; a lock | start, stop, status, is_running | app.py's handlers (thread pool); the loop process by signals |
| vLLM process control | `ui/backend/vllm_control.py` | handle, state, stop event; a lock; one watcher thread per start | start, stop, status, watch | handlers; the vLLM process by signals, its log and its port |
| Orchestrator | `scripts/loop.py` | iteration, spend, history of means, outcomes | one sequential `main` | agents and git (the tree), eval processes, `latest.json` |
| Eval | `scripts/eval.py`, `pipeline/metrics.py` | scores so far, spend | one sequential `main` | the tree it imports, `latest.json`, judge and models |
| Stop criteria | `pipeline/stop_criteria.py` | none | evaluate | called by the orchestrator |
| Budget tracker | `pipeline/budget.py` | spend of one eval | record, aborted_for_budget | called by eval |
| Corpus ingest | `pipeline/ingest.py`, `scripts/ingest_worker.py`, `pipeline/adapters/chroma.py` | parent: handle of the last worker; worker: counters, a reporter thread; a status file; the store | start, status, reset of the store; the worker's run | status file and `poll()` of the worker |
| Report stream | `ui/backend/app.py` `loop_stream`, `hooks.ts` | last mtime seen; list of events | poll, dedup | `latest.json`, is_running |
| Agent runner | `pipeline/agent_runner.py` | snapshot of config and sidecar while an agent runs | guard, run_agent | the agent; the two files of the config store |
| Config store | `ui/backend/config_store.py` | config file, wizard sidecar | load, save_step, finish, patch | wizard (auto-save), agents' guard |
| Seed store | `ui/backend/seed_store.py` | `seed.jsonl`, one file per draft, a write lock | save, drafts, listings | eval, which reads the cases; the page, which saves drafts every 2 s |
| Sweep | `scripts/sweep.py` | candidates, results, the snapshot of the config | three strategies, trial, validation, adoption | config file, eval, `latest.json` |
| Query, judge, drift check | `pipeline/query.py`, `judge.py` | none | answer, verdict, drift_check | cache, models, the history of reports |
| LLM cache | `pipeline/cache.py` | one file per call | cached_call | every eval |
| Vector store adapters | `pipeline/adapters/*.py`, `factories.py` | client of the store, or of none | open, create, upsert, read, recover | the store; ingest worker, evals |
| Query worker | `scripts/query_worker.py` | none | one read in a process of its own | adapters; started by the backend |
| Embeddings, probes, schemas, dashboard | `pipeline/embeddings.py`, `system_probe.py`, `schemas.py`, `ui/frontend` | local to one process | | |

The hard behaviours, at their lines, are listed under `hazards` of
`PROJECT.json`. For each part, what makes it correct:

* process control: never two children of one backend; no child that nothing
  can stop; a stop that answered has stopped; a signalled child dies;
  "ready" is about the process that was started; no start pends for ever;
* orchestrator and eval: a ceiling that is reached and a case that falls halt
  the loop before its next iteration; the last report says why; "convergence"
  is backed by evals; a report names the code it graded, as far as that is committed;
  a loop ends;
* ingest: one writer; a status file that only moves forward and is terminal
  when the worker has exited; a success is the whole corpus; a poll is not
  answered "running" for ever, nor "failed" about a success;
* config store and agent runner: at rest the config is what the users set, key by
  key, whatever an agent did in between and wherever a save failed; the wizard
  shows the steps that were completed, and a completed step has its data;
* seed store: one line per question; a save that answered ok can be read again; no
  typed text is lost before its case is in the file;
* sweep: between trials the config is the one that was adopted; a winner is
  adopted only on this sweep's own evidence;
* grading: a verdict is what that model said to that prompt, not to another one and
  not too long ago; a budget bounds what is paid; a disagreement has a cause;
* vector stores: what was upserted stays, a read answers what the store holds;
* report stream: a dashboard that is connected ends up with the last report, and
  learns that the loop stopped, and why.

## 2. The modules

| module | models | notes |
|---|---|---|
| `SingleProcess` | what a controller of one process promises | abstract: spawn into an empty slot, death; loop, vLLM and ingest implement it |
| `LoopControl` | `loop_control.py`, its handlers, the reload | implements `SingleProcess` |
| `VllmControl` | `vllm_control.py`, its watcher, the reload | implements `SingleProcess` |
| `StopCriteria` | `stop_criteria.py` | pure operators; `Plateau` is the reference definition |
| `Orchestrator` | `loop.py` and `eval.py`, `metrics.py`, `budget.py` | extends `StopCriteria` |
| `Ingest` | `ingest.py`, `ingest_worker.py`, Chroma's recovery, the reset | implements `SingleProcess`: the writers |
| `LoopStream` | `loop_stream` of `app.py`, `useLoopStream` of `hooks.ts`, and what loop and evals do to `latest.json` | |
| `ConfigStore` | `config_store.py`, the step that a save belongs to (`useAutoSaveStep.ts`) | no specification of its own: its files have other writers |
| `AgentRunner` | `config_snapshot_guard`, agents, kills of the loop | extends `ConfigStore` and composes the two |
| `SeedStore` | `seed_store.py` with its endpoints | |
| `Sweep` | `sweep.py`, its evals and those of others | |
| `Grading` | `eval.py` with `query.py`, `judge.py`, `cache.py`, `budget.py`, and the subset that a quick eval takes | an eval of `Orchestrator`, call by call |
| `VectorStore` | the five adapters, `query_worker.py`, the reset of the store, seen by several processes | the store of `Ingest`, call by call |
| `MC*` | symmetry, and constants that are functions, for TLC | |
| `*Proofs` | theorems | section 5; `CaseProofs` is about `SeedStore` and `Grading`, `CorpusProofs` about `VectorStore` and `Ingest`, whose definitions have names of their own for that (`GradingInit`, `IngestNext`) |

**How steps are cut.** One action is what the code does without anybody being
able to see or disturb its middle: a section under a lock, one read or one
replacement of a file, one system call. Two sections of one handler are two
actions with a program counter (`pc`) between them, and the handler's local
variable is a variable of the model (`arg`, `raw`).

**`LoopControl`.** `process`, `task` are `_state.process`, `_state.task_id`
(lines 31-42). `start` is `StartCheck` (the section at 80-81, which goes
through `is_running` and may forget a dead handle), `StartSpawn` or
`StartFails` (83-111, no lock) and `StartRegister` (112-121). `stop` is
`StopCheck`, `StopSignal`, `StopExited` or `StopTimeout`, `StopClear`.
`status` looks twice, in two sections. `BackendReload` forgets every variable
of the backend and leaves the processes alive. `proc[p]` is what the operating
system knows; a process that was sent SIGTERM may obey at any time or never, one
that was sent SIGKILL runs no more code. `born` is a history variable.

**`VllmControl`.** As above, with `state`, `stopEvent` and the watcher of each
start (`watch[p]`), whose reads of the event, the process, the log, the port and
the clock are each a step, with the lock sections between them. `serving` is the
process that has the port; all starts propose the same one. A server that somebody else
started may have it too (`Foreign`), and answers a probe as well as the process that is
watched does; `served` is a history variable, of who ever had the port.

**`Orchestrator`.** `pc` walks through `main` of `loop.py`; `ev[e]` is eval
process number e, which lives by itself. `latest` is `latest.json`, which
`write_report` first opens (and so empties: `Torn`) and then fills. The agents
are external: the red team may add a case, the blue team may leave the tree,
edit files that git tracks, add ones that it does not, or commit a revert (`Edited`).
`tree` is `pipeline/` as the loop and its evals see it: `code` is what is in the files,
which an eval loads when it starts; `head` what HEAD has, which is what
`pipeline_manifest_hash` hashes when it ends (`git ls-tree HEAD`); `unstaged` whether
`git diff --quiet` sees a change. `Committed` is `_commit_pipeline_changes`: without a
tracked change nothing is added, otherwise `git add` stages everything, and the commit
moves HEAD or fails and leaves it. Versions are numbered as they come up. Scores,
rates and money are small integers; the comparisons are the code's. `EvalRecord` is
what an eval process has in its hands, `Spent` what the evals of a run have really
cost. The settings are assumed to be in the ranges of `schemas.py:51-65`
(`SettingsAssumption`).

**`Ingest`.** `start_ingest_task` and `get_ingest_status` hold `_HANDLE_LOCK`
throughout, so `holder` admits one handler, but the worker runs between its
reading of the file (`Read`) and its `poll()` (`Judged`). In the worker, the main
thread (`worker`) and the reporter (`rep`) write one temporary file and replace
one status file, each in two steps. The order of the files of the corpus is
fixed. `Recovers`, `MayDie`, `MayStall`, `MayFail` and the bounds say which faults
an instance allows.

**`LoopStream`.** The writers of `Orchestrator`, reduced to what they do to one file:
an eval opens and fills it, the loop does so again with its verdict, either may
die in between, and an eval outlives its loop. `mtime` counts the changes that the
clock tells apart (`ClockTicks`: all of them). The coroutine is `FirstStat`,
`FirstRead`, `FirstAsk`, then rounds of `PollStat`, `PollRead`, `PollAsk`; each is one
call into the file system or `is_running`. The page receives what is sent at once
(`Receive`), since nothing else changes its list; a connection that breaks is
`Disconnect`, after which the page sees nothing until it is opened again (`Connect`),
as the hook does not reconnect. One loop at a time writes; two are the subject of
`LoopControl`.

**`ConfigStore`, `AgentRunner`.** A save is `Enter` (the lock), `LoadConfig`,
`WriteConfig` (one `os.replace`), `ReadSidecar`, `WriteSidecar`; `patch` ends after
the second. `Fails` is an exception at any of these points, and `Merged` works on
top-level keys, which is what the wizard's steps send. The guard is
`SnapshotConfig`, `SnapshotSidecar`, the agent, `RestoreConfig`, `CopyConfig`,
`RestoreSidecar`, `CopySidecar`: `shutil.copy2` is two steps, since it empties the
file that it then fills, and unlike `os.replace` shows that to a reader. An agent may
set any key, break or delete either file, at any time and as often as it likes;
one whose loop was killed goes on (`orphan`). `want` and `marked` are history
variables, updated where a write succeeds: what each key was last set to, and which
steps were completed.

**`SeedStore`.** A save is `Check` (the lock, and the file read for a duplicate),
`AppendCase` (a write at the end of the file, in place), `Unlink` (of the draft, whose
failure is only logged). The write may raise before it has written anything
(`AppendFails`) or after a part of the line, or all but its newline (`AppendTears`);
`open` says that the last line has no newline, and the next one then continues it.
Lines are written with `ensure_ascii=False`, so a write that stops inside a character of
several bytes (`Wide`) leaves a file that `read_text` cannot decode (`garbled`): every
reading of it raises, in a save too, under its lock (`Decodes`).
Drafts are replaced as a whole, under no lock (`PutDraft`, `DeleteDraft`). `Splitting`
are the questions whose line `splitlines()` cuts in two when it is read.

**`Sweep`.** `TryNext` and `Validate` write a candidate over the config (`Trial`); the
child eval reports or does not (`EvalReports`, `EvalDies`); `TrialReads` takes whatever
score `latest.json` has, `TrialRestores` is the `finally`. `stage` says whether the
trial is of the search, of the winner or of the incumbent. The candidates of a grid, of
a bayesian search and of an ablation are `Plans`. `Interrupt` runs the `finally`, `Kill`
does not. The config is written in place, and each of its three writes may fail half way
(`TrialWriteFails`, `RestoreFails`, `PersistFails`; `Left` is what stays in the file); the
first one stands before the `try`, so that Ctrl-C after it leaves the candidate's config
(`EarlyInterrupt`). `cuts` counts these. `own`, `stale`, `graded` and `base` are history variables.

**`Grading`.** `job[e]` is the state of eval process e, which the actions pass through the
functions of the second part: `Takes` is `query.answer` up to its call, `Graded` is
`_grade`, `Counted` the body of the loop in `eval.py`, `Compared` that of `drift_check`.
A call is `CacheMiss` or `CacheHit`, then `CallReplies` or `CallFails`, so that two evals
may miss together. What a model replies is a function of the time, the model and the
prompt (`Says`, one for each `World`): every call has temperature 0, and a provider may
change a model under its name. What a case is answered with is its `view`: the version of
the pipeline and how many passages were asked for, the eval's `--k` or, in `drift_check`,
the default. The prompt for correctness has no passages and so does not depend on it
(`Unseen`). Scores are halves, composites twentieths.

**`VectorStore`.** The instance chooses one of the five adapters. `data` is the sequence of
stores that ever were, `tables` the state of the present one: Chroma's can be met half
made or half removed. A process opens (`Open`, `Connect`), creates (`Create`,
`CreateCollection`), writes request by request and reads; an error that has one of
Chroma's markers leads to a wipe (`Marked`, `Wipe`), once in the constructor and once
around a call, and in a query a second time around the `count()` that follows an error
(`tried`), also when the store is whole (`HealthyMarked`): the markers are looked for in
any error. Other errors are `ProbeFails`, `Raises` and Weaviate's
`WriteDrops`. A client keeps the store that it opened. Writers are ingest workers and live
on; readers are query workers and live for one read. Chroma writes one upsert as a
whole. `seen` and `calm` are history variables: what the store held during a read, and
that nobody has met it unfinished, no marked error came from it and Weaviate has dropped
nothing.

## 3. The runs

All are expected to pass. The disagreements between the code and its documentation
that came up are in section 6.

| run | question | instance |
|---|---|---|
| `loop_control` | Does one client, with polling clients and a reload at any step, always have one loop and full control of it? | 1 controller, 2 pollers, 3 processes, 1 reload |
| `vllm_control` | The same of the vLLM server, its watchers and its states. | 1 controller, 1 poller, 2 processes, another server, 1 reload |
| `orch_runs` | Do budget, regressions and convergence stop the loop when they should, and does each report name what was committed, over two runs of it? | 4 evals, 2 runs, up to 2 cases, 3 scores, 2 edits |
| `orch_failures` | Does it end whatever fails? | 4 evals, 2 runs, 1 kill, budget flag, edits that fail to be committed |
| `ingest` | One writer, a truthful status file, whole successes, with workers killed at any point | 2 runs of 2 files |
| `ingest_faults` | Is every run resolved for a poll, with every fault allowed? | 1 run of 2 files, 1 reload, 1 reset |
| `stream` | Does the last report reach the dashboard, and the end of the loop, whatever falls between two steps of a poll? | 2 evals (so up to 2 loops), 2 visits, 1 reload |
| `settings` | Do the config and the sidecar hold what the users saved, after agents that vandalise them, failing writes, a reload and a kill? | 2 threads, 2 steps (one without data), 2 values, 2 agents, 1 reload, 1 kill |
| `sweep` | Does the config survive every trial, and is a winner adopted on its own evidence? | 2 sweeps of every strategy, 1 parameter, 2 values, up to 2 candidates, 1 eval of somebody else, 1 kill, 1 write that fails |
| `seed_store` | One line per question, and no work lost, whatever write stops half way? | 2 threads, 3 questions (all with wide characters, 1 that `splitlines` cuts), 2 drafts, 3 lines, 2 torn writes, 1 reload |
| `grading` | Is a verdict genuine, a budget kept and a drift real, with a cache between the evals and the models? | 2 evals, 2 cases (1 human), 2 worlds, 4 command lines (1 with another `--k`), 2 times, 2 versions of the pipeline, 1 fault |
| `vector_store` | Does an upsert stay, and is a read fresh? | each of the 5 adapters, 2 writers, 1 reader, 2 chunks, 2 stores, 4 calls, 2 faults |

**Why the bounds suffice.** Three processes let a controller lose one to a reload,
stop a second and start a third. Two runs of the orchestrator let the second start
from the first one's report; a window of 2, two cases and scores on both sides of
the pass mark by less and by more than the anchor threshold let every criterion
fire and not fire. Two evals let the second start while the stream deals with the
first, and one of them outlive its loop; two visits let a page start from an old
report. A corpus of two files has a first and a last one. Two threads are enough
to lose an update, two values to see it, and two agents let one start from what
the other left; a step with data and one without, `patch` and `finish` are all
that `save_step` distinguishes. Two threads and two torn writes let a line be torn
and continued while another save waits; three questions let two be whole and one be
cut. Two sweeps let the second start from what the first left; two candidates suffice
for a baseline and a winner, one parameter for a config that is right or wrong. In
`grading` two evals race for one cache entry and a second finds what the first left;
the two times are one TTL apart from each other and more than the other TTL; a case
with passages and one without, one in `seed.jsonl` and one not, are what the code tells
apart. In `vector_store` two stores are one that is wiped and its successor, four calls
let both writers and the reader work before and after that. Two edits of `pipeline/` let
one stay uncommitted while the next is committed with it, or reverted beside it. Two pollers let both of `status`'s sections
interleave with each other. The theorems of section 5 do not have the bounds. The largest instances (`orch_runs`,
`sweep`, `vector_store`) have between four and five million states and take less than two
minutes.

**What a passing run leaves out, on purpose.** `loop_control` and `vllm_control`
have one controlling client, because two break the module's promise (section 6).
`orch_runs` has no kills, no failures and no budget flag, for the same reason;
`orch_failures` has them all. `ingest` has a store that does not repair itself, no
reload, no reset and a reporter that is not stalled. In `stream` every write has
an mtime of its own. In `settings` nobody saves while an agent runs (`Overlap`),
and no agent makes a sidecar where there was none (`AgentCreates`); its properties
speak of the states before a loop was killed, as nothing repairs what its agent
leaves. In `sweep` a score that is not of its own trial (`stale`) exempts what is adopted,
and a kill or a failed write (`cuts`) exempts the config; in `seed_store` torn writes may
each cost one line, and one inside a character costs the file, after which
`LossPerTear` says nothing; in `grading` a disagreement may come from another `--k`; in
`vllm_control` another server on the port, once it has answered, exempts what "ready"
means; `ReportsHermetic` asks that the hash is that of HEAD, and that HEAD is the graded
code only where the loop has recorded the change as accepted; in `vector_store` upserts are followed as long as nobody meets the store while it is made or
removed and no marked error comes from it (`calm`), and a reader that an error has told there is nothing is not asked
(`misled`). The code does not hold more than that (section 6). Three simplifications in
`Orchestrator`: the edits of an agent that outlives a killed loop fall at the kill; every
edit makes a version that was never there before, so that a hash names one version; and
`pipeline/` is in a git tree, without which `pipeline_manifest_hash` hashes the files
themselves.

**Deadlock** is checked for the process modules, `Ingest`, `AgentRunner` and `SeedStore`,
where a client may always ask again. It is not for `Orchestrator`, `Sweep`, `Grading` and
`VectorStore`, which end when the runs or calls that their bounds allow are over, nor for
`LoopStream`, where the page may be left for good.

## 4. Fairness

* `LoopControl`, `VllmControl`: a handler that was entered runs on (weak fairness
  of its steps); SIGKILL takes effect; a watcher runs on, and one that keeps
  looking at a clock sees the deadline pass (strong fairness of `WatchExpire`,
  which is enabled only at one point of its cycle). Nothing says that a child
  obeys SIGTERM or exits, that vLLM comes up, or that anybody calls anything.
* `Orchestrator`: the loop and each eval run on. The agents, models and git are
  called with their own timeouts, which is what makes this a fair assumption.
  Nobody has to start a loop.
* `Ingest`: both threads of a worker run on while the process lives. No handler
  is fair: `Resolves` is about what a poll would be answered.
* `LoopStream`: the coroutine runs on while its socket is open, which the event loop
  and the 0.5 s sleep see to. Neither the loop nor the user has to do anything.
* `AgentRunner`, `SeedStore`, `Sweep`, `Grading`, `VectorStore`: none; their properties are
  about safety only.

## 5. What is proved

TLAPS checks these for all values of the constants, from the assumptions that the
modules name: ids of nobody and broken files are not members of the sets they are
distinguished from, and bounds are natural numbers.

*`LoopControlProofs`.* `TypeCorrect` and `HandleMatches` (the handle and the task
id belong together) hold in every interleaving of any number of threads.
`OneControllerOneLoop` and `OneControllerImplementsSlot` assume `OneController`,
that all starts and stops come from one client that waits for its answers.
"At most one living loop" is not inductive: between the check and the registration
of a start it depends on there being none at all, and in a stop on the only one
being in the handler's local variable. The invariant says what is known at each
`pc`: nothing alive before the spawn and after the wait, nothing but `arg` alive
between. The refinement follows from it, since the step that spawns is then the
only one that is not a death or a stutter. `SingleLoopWithoutReload` is the
promise of the source's first lines, under the two assumptions it needs.
`OneControllerNoOrphan` and `OneControllerStops` are read off the same invariant.

*`VllmControlProofs`.* `TypeCorrect`; `NeverBack` (a state that was decided does
not become pending again for the same process, in any interleaving): every
section of the watcher tests that its process is still registered and the state
pending. `OneControllerOneVllm` by the same argument as for the loop;
`OneControllerNoOrphan` too; `ReadyIsServed` adds the invariant `Served`, which follows
an answer of the port from the probe to the section that writes `ready`: it came from the
watched process, or from a server of somebody else, which the theorem exempts.
`OneControllerImplementsSlot` is the refinement of `SingleProcess`, by the argument of
the loop: whatever watchers and status calls do, they neither spawn nor kill.

*`OrchestratorProofs`.* `ConvergedIsPlateau`: the slice, the append and the length
test of `_converged` amount to "the last `window` means exist and each step between
them is below the threshold", for every history, window and threshold. A window of
0 or 1 never converges. `UnkilledIsHermetic` assumes that no loop is killed
(`MaxKills = 0`), whatever else fails, commits included: the invariant `EvalInv` says that
an eval which is active is the one the loop waits for, so that nothing moves the tree under
it, and that what is in `latest.json`, and in the loop's hands, is the sound report of an
eval that has exited, with the hash of what HEAD was when that eval started. `CleanInv`
adds that from an accepted commit to the next turn of the blue team HEAD is what is in the
files, and was so when the eval in between loaded them. Where a commit failed or an edit was
not tracked this does not hold, and neither does the promise (section 6). `HaltIsExplained` assumes also that no eval and no commit raises, and that the
values for a missing and a broken file have not the fields of a report
(`NullsAreNoReports`; in the runs they are model values). It needs to know
why the report that the loop finds is not an earlier one: an eval that exits without a
report has found no case, and then no eval ever had one, as cases are only added
(`EndInv`).

`TypeCorrect` has no hypothesis. It is not free: a mean is a fold over the scores of
an eval divided by their number, and to be between 0 and 100 it needs an eval that has
graded something before it builds a report, and no more than there is (`TypeInv`).
Three more theorems, under the hypotheses of `HaltIsExplained`, are about whole runs.
All of them stand on `LineInv`, that the evals of all runs form one line: each is
started after the one before it is over, sees at least as many cases, compares itself
with that one's report, and leaves its own in `latest.json` until the next one opens the
file. Without it nothing can be said of a loop that looks at no exit code.
* `BudgetEndsTheLoop` (`BudgetHalts`): each eval's spend reaches the loop's sum
  exactly once (`SpentInv`).
* `ConvergenceIsGenuine` (`ConvergenceGenuine`): the loop's history is the means of
  consecutive evals up to the present one, the first of them found in a file that an
  earlier run may have left (`HistoryInv`), so that what `_converged` sees as a plateau
  is one of the evals (`SteadyInv`, by the lemmas of `ConvergedIsPlateau`).
* `NoRegressionIsMissed` (`AnchorHalts`) needs also that there is no `--budget-usd`:
  then an eval that is over has graded all its cases (`AnchorInv`), and the eval before
  is the last that graded a case, so that no fall is hidden from the comparison.

The hypotheses are those of the run `orch_runs`. They are needed: after a kill the loop
may judge the report of an eval that outlived the loop before, and after a failure that
of an earlier eval, so that with either of the two TLC finds `BudgetHalts` and
`AnchorHalts` violated on small instances, and a convergence that counts an eval without
a score; what is left then, that the loop ends, is the question of `orch_failures`. Sums are folds of the community modules. Since the library's induction
rules cannot be instantiated, the module proves its own: the least element of a set of
numbers from the well-foundedness of `<` (`Least`), from it that a set with 0 and all
successors is `Nat` (`Induct`), that a set of subsets closed under adding an element has
every finite set (`SetInduct`), and with these that the fold's recursive function exists and
is unique (`SumFcnExists`, `SumFcnAgrees`), whence how a sum changes when one summand does,
or when one is taken out (`TotalTakes`, `TotalSame`, `TotalBound`).

*`AgentRunnerProofs`.* `TypeCorrect`, with or without overlap. `UserOwnsConfig`
assumes that nobody saves while an agent runs (`~Overlap`) and gives
`SettingsKept` for any number of threads, steps, values, agents, kills and reloads.
At rest is not where it can be shown: the invariant `KeptInv` says where the
settings are meanwhile. While no agent is at work they are in the config; from the
snapshot until the restoration they are in the snapshot, whatever the config holds;
and the config that a handler has merged and not yet written is the settings with
its request applied, which needs that at most the holder of the lock is past its
load. It ends with the first kill of a loop. `UserOwnsProgress` and `ProgressIsBacked` do
the same for the sidecar, where moreover no agent makes one (`~AgentCreates`): the marked
steps are in the file or in the snapshot, and a step is marked only after its data is
written, so that every prefix of a save is backed.

*`LoopStreamProofs`.* `TypeCorrect`, and `StreamUpToDate`: with `ClockTicks`, a stream
that has nothing left to notice has brought the file's report to the dashboard.
That a report is read after the mtime is what the proof rests on: each write makes
`mtime` larger than any `last_mtime`, so what was overtaken is noticed.

*`CaseProofs`, of `SeedStore`.* `TypeInvariant`; `OneRow` (no two lines are cases of one question):
what makes it inductive is that whoever is about to append holds the lock and has not
found its question, and that a line which continues a torn one is read as neither;
`NoWorkLost`: a draft that is deleted by a save is one whose case was appended.
`LossBounded` (`LossPerTear`) counts, as long as the file decodes: the cases at risk, which were answered for or are
about to be and stand on no line that is safe, and the open line, which has cost a torn
write and no case yet, are together no more than the torn writes (`LossInv`).

*`CaseProofs`, of `Grading`.* `GradingInv` says of each eval, at each point of a case, what
it has gathered: every row of a report or of the history with two scores of the oracle
was composed of what the oracle said to just those prompts (`Trusted`), and every answer,
from the cache or not, is what the model said within the TTL before it was taken
(`Honest`). `VerdictsAreGenuine`, `BudgetIsHeld` (what is paid stays below the budget and
two calls: a case is only taken below it) and `DriftIsGenuine` (two composites that differ
were made of other passages, of other replies or of a missing score) are read off it,
without any hypothesis: for any number of evals, cases, models' moods, TTLs and faults, whichever evals
share the cache.

*`SweepProofs`.* `TypeCorrect`; `RestoresConfig` is inductive as it stands, once `snap` is
known to be the adopted config during a trial, up to the first kill or failed write; `AdoptsTheBetter` carries each score back to
the eval it is of: as long as no score was stale, `oracle` is that of a report of the
winner's config in `graded`, and `got` that of the trial that was read last.

*`CorpusProofs`, of `VectorStore`.* `TypeCorrect`; `ReadsAreFresh`, without any assumption:
while a reader's call lasts, the store that its client has open was the present one at some
moment of the call (`ReaderOk`), since a reader opens its store inside the call.
`UpsertsAreKept`: while nobody has met an unfinished store and no marked error has come
from a whole one, every client is of the present
one, nobody is about to wipe it, and what a writer has sent is in it (`CalmInv`).

*`CorpusProofs`, of `Ingest`.* `IngestTypes`, of every instance. `OneWriterAtATime` assumes
that the backend is not replaced: a worker that may write is the handle's, its status file
and its temporary one say "running", and no client that has decided to start one has seen
otherwise (`WriterInv`); under the same assumption `IngestImplementsSlot` refines
`SingleProcess`, for any number of clients, since here one lock spans the check and the
Popen. `StatusIsMonotone` and `ExitIsTerminal` assume that the reporter is
waited for (`~MayStall`), the second also that the last write succeeds (`~MayFail`): the
reporter is over before the main thread writes (`ReporterInv`), so that nobody overwrites
the last word. `SuccessIsStored` assumes that nobody wipes the store (`~Recovers`,
`MaxResets = 0`): a file is counted after its chunks are stored, and only who counted all
says "succeeded" (`StoredInv`). Workers may die anywhere in all of them.

**Only model-checked:** the liveness properties `StopNoticed`, `StoppedLoopDies`,
`StartResolves`, `Terminates` and `Resolves`, as liveness under fairness is out of the
prover's reach. Every other property of a passing run is also a theorem, some of them
under hypotheses on what may fail, which are given above and are those of the runs that
check them. The types of `LoopControl`, `VllmControl`, `SeedStore`, `Sweep` and
`VectorStore`, `TaskMatchesHandle`, `SingleLoop` and the refinements of `VllmControl` and
`Ingest` are proved and no run checks them.

## 6. Where the code and its documentation disagree

No run expects a violation. The model shows what follows on instances that relax what
section 3 says the passing runs leave out; the property that TLC then finds violated is
named.

* loop: two overlapping starts both find no loop and both spawn one
  (`loop_control.py:80`, against `:3-4`): `SingleLoop` and `OneLoopPerBackend`, with two
  clients that start and stop.
* loop: a stop that is still waiting clears the handle of a loop started in the
  meantime (`loop_control.py:142`), and a replaced backend starts a second one
  (`:42` is a module global, `serve_ui.py:32` reloads): `SingleLoop`.
* stream: a file that is emptied and filled within one tick of the file system's
  clock, and read in between, is not read again (`app.py:413`, against `:389`:
  `UpToDate` without `ClockTicks`); the report that the loop rewrites with the reason of
  its end has the iteration and timestamp of one that the page has, and is dropped as a
  duplicate (`hooks.ts:436`, against `:395-396`): `StopReasonSeen`, with one eval; a page whose socket broke stays offline
  (`hooks.ts:421`, as `Run.reconnect.test.tsx` says).
* vLLM: a stop between the check of a start, which installs a fresh stop event,
  and its registration sets that event (`vllm_control.py:165`), so that the
  watcher of the new server leaves at once and the state is `starting` for good,
  against `:7`: `StartResolves`. Two overlapping starts spawn two servers
  (`vllm_control.py:103` against `:4-5`): `OneVllmPerBackend`. A Popen that raises
  leaves the state as it was (`:128`), where `:12` says failed.
* orchestrator: an eval that died leaves the report of an earlier one, and the loop
  judges that again (`loop.py:163`, against `tests/test_loop_orchestrator.py:10`, "aborting
  cleanly when eval produces no report"): `NoReportAborts`, with `MayFail`.
* orchestrator: a run that did all of `--iterations` gives no reason
  (`loop.py:125`, against `docs/architecture.md:158`); an eval that hits
  `--budget-usd` writes "budget" and the loop goes on (`eval.py:174`, against
  `docs/metrics.md:379`), as that flag is no total of the loop (`loop.py:54`); a
  report that the budget cut short hides a regression from the next one
  (`metrics.py:225`, against `docs/metrics.md:395-398`: `AnchorHalts`);
  `_commit_pipeline_changes` never answers "revert", so `blue_stall` cannot fire
  (`loop.py:187`, against `:169-170` and `docs/metrics.md:401`); a signalled loop
  leaves no "manual" (`loop.py:112`, against `docs/metrics.md:407`).
* orchestrator: a score does not always "map back to the exact code that produced it"
  (`README.md:317`). `pipeline_manifest_hash` hashes what HEAD has (`metrics.py:337-344`),
  while an eval runs what is in the files. When `git commit` fails (`loop.py:181-187`) or
  only untracked files were added (`git diff --quiet`, `loop.py:174`), the loop records a
  "noop" and grades the new code under the old hash; after a `git add` that raised (`:179`)
  the next run does. No kill is needed: `ReportsHermetic` without `Accepted` in its second
  conjunct. The eval of a killed loop may moreover write the hash of a commit that was made
  after it started (`loop.py:160`): `ReportsHermetic` with a kill.
* ingest: a poll reads the status file before it asks for the process
  (`ingest.py:380`, `:400`), and so reports a failure of a run that finishes in
  between, against `:360-363`: `FailureIsTrue`. A second worker after a reload
  (`ingest.py:254-255`, `:322-324`: `OneWriter`); a reporter that outlasts the 2 s
  join overwrites the terminal status (`ingest_worker.py:110`, against `:31-32`:
  `ExitMeansTerminal`); a store that is repaired in the middle of a run loses the
  files before (`chroma.py:260-269`, against `ingest.py:487-490`:
  `SuccessMeansStored`).
* vLLM: the watcher takes any answer on the port for the server it waits for
  (`vllm_control.py:264-271`), so that with another server there the state is `ready` while
  the process that was started serves nothing: `ReadyMeansServed` without its exemption of
  `Foreign`.
* sweep: the docstring says that a sweep "ALWAYS validates the winner" with a full oracle
  eval (`sweep.py:37-39`), but an eval that died is only warned about (`:156-158`), and the
  winner is then judged by an earlier report: `AdoptedIsBetter` without its first
  disjunct. SIGTERM leaves the candidate's config in the file: `ConfigRestored` with a kill.
  `_run_trial`, which is to "restore the original config" (`:137`), writes the candidate's
  before its `try` (`:143`): a Ctrl-C in between leaves it in the file, and a write that
  fails, there or in the `finally` (`:168`), leaves a part of a config, or one that does
  not parse: `ConfigRestored` with `MaxCuts`.
* seed store: the autosave of a page, late, makes the draft again that the save of its
  case has deleted, against `seed_store.py:4-5`; text that is typed between the append and
  the deletion goes with the draft, and text that is saved into a draft whose case exists
  is not followed by `WorkKept`. A save after a torn append continues the torn line and is
  answered ok, and nobody can read it: `LossPerTear` allows one such case per tear. A
  write that stops inside a character of several bytes, which `ensure_ascii=False` lets
  into the file (`:317`), makes `read_text` raise for the whole file (`:273`, outside the
  `try` that skips malformed rows): no case can be read, and none saved, until somebody
  repairs the file by hand: `LossPerTear` without `Decodes`. A
  question with U+2028 or U+0085 is written as one line and read as two (`splitlines`).
* grading: the spend of generated answers is charged as 0 tokens, since
  `_call_anthropic_normalized` returns none (`query.py`, against the comment at
  `eval.py:127`); the spend of `drift_check` is not charged at all, and it runs after a
  budget abort; a hit of the cache is charged in full. A reply that is JSON but no object
  (`0.5`) raises in `_grade` and ends the eval. A row of the history that was graded in an
  outage, with no scores, is compared, and miscounted as a disagreement, as is a change of
  the pipeline (against `judge.py:207-208`): `DriftGenuine` without its first two
  disjuncts. `drift_check` answers with the default number of passages (`judge.py:200`),
  the eval whose row it compares with those of its `--k` (`eval.py:121`): after an eval with
  `--k 10` there are disagreements although neither the pipeline nor a model has changed:
  `DriftGenuine` with `view.version` in place of `view`. A quick eval takes unknown cases last (against `eval.py:231`).
* vector stores: a query worker that opens Chroma's store while an ingest worker makes it,
  or while the reset removes it, wipes it (`chroma.py:203-216`); a writer loses what it has
  upserted before its own recovery, and succeeds; and an error of a whole store whose text
  has one of the markers (`chroma.py:35-53`), such as "unable to open database file", wipes
  it: `UpsertedKept` without `calm`. Weaviate's
  errors per object are not looked at (`weaviate.py:91`). Two that create a collection at
  once raise, but for pgvector's IF NOT EXISTS. An error of pgvector's or Pinecone's probe,
  and every error in the corpus list (`ingest.py:755-785`), is answered as "nothing":
  `FreshRead` without `misled`. `drop_in_process_clients` is called before the directory is
  removed (`app.py:590-604`), against its docstring (`chroma.py:113`).
* config store: `copy2` empties the file before it fills it, so that a save which
  loads in between starts from the defaults (`agent_runner.py:87`, against
  `config_store.py:7-8`), and a save that was made while an agent ran is reverted
  with the agent's edits: `SettingsKept` with `Overlap`. A sidecar that an agent
  makes where there was none stays (`agent_runner.py:93` has no counterpart of
  `:89-91`, against `:64`): `StepsKept` with `AgentCreates`. A killed loop
  restores nothing and leaves its agent alive (`loop_control.py:135` signals one
  process only): `SettingsKept` after a kill.

## 7. Plan

1. Proofs with faults: what `Orchestrator` keeps when an eval may raise or a budget
   flag cuts evals short, and what `Ingest` keeps across a reload. `Ingest` as a whole
   against an abstract run that is started, resolved once and then forgotten.
2. The dashboard's and the wizard's own state (`hooks.ts`, `useAutoSaveStep.ts`:
   debounced saves that overtake each other), composed with `ConfigStore` and
   `SeedStore`.
3. `Ingest` on top of `VectorStore`, in place of its own reduced store.

The project keeps at most a dozen runs, so that all of them finish in minutes.

## 8. Not modelled

Prompting, the ranking of retrieval, price tables, loaders and the chunker (a file
yields chunks or does not), rendering, log tails and display fields. Embeddings (a cache
of models inside one process), the probes of the machine and the schemas have no state
that outlives a call, or none that another actor sees. The dashboard and the wizard keep
state of their own in the browser, which is modelled only where `LoopStream` and the
saves of `ConfigStore` and `SeedStore` meet it. Of reports and metrics, the per-axis and
per-category means, the percentiles and `regressions.md` are arithmetic and text for
display.
