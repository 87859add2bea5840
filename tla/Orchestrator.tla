---------------------------- MODULE Orchestrator ----------------------------
(***************************************************************************)
(* scripts/loop.py and the scripts/eval.py processes it starts.  They talk *)
(* through reports/latest.json: an eval writes its report there and exits, *)
(* and the loop, which looks at no exit code, reads whatever is there.     *)
(* A loop that is killed leaves its eval running.                          *)
(***************************************************************************)
EXTENDS StopCriteria, FiniteSets, FiniteSetsExt, SequencesExt

CONSTANTS
  MaxEvals,        \* bound: the eval processes that are ever started
  MaxRuns,         \* bound: how often loop.py is started
  MaxKills,        \* bound: how often loop.py is killed
  MaxVersions,     \* bound: how many versions of pipeline/ come up after the first
  MaxCases,        \* bound: the size the test set may grow to
  SeedCases,       \* the cases that exist at first
  Scores,          \* the composites a verdict may have, in percent
  Costs,           \* what grading one case may cost (0: a cache hit)
  IterationArgs,   \* the values of --iterations
  BudgetFlag,      \* --budget-usd, or NoLimit
  NoLimit,
  UsdPerRun, MaxIterations, AnchorThreshold, Window, Threshold,
                   \* bratan.config.yaml
  MayFail,         \* whether an eval, or the commit, may raise
  NoReport, Torn   \* latest.json is missing; it is half written

ASSUME BoundsAssumption ==
  /\ {MaxEvals, MaxRuns, MaxKills, MaxVersions, MaxCases, SeedCases} \subseteq Nat
  /\ SeedCases <= MaxCases
ASSUME IterationsAssumption == IterationArgs \subseteq Nat
ASSUME ScoresAssumption == Scores \subseteq 0..100 /\ Costs \subseteq Nat
ASSUME MayFailAssumption == MayFail \in BOOLEAN
ASSUME NoLimitAssumption == BudgetFlag = NoLimit \/ BudgetFlag \in Nat
ASSUME SettingsAssumption ==
  /\ UsdPerRun \in Nat /\ {AnchorThreshold, Threshold} \subseteq 0..100
  /\ {Window, MaxIterations} \subseteq Nat \ {0}

PassMark == 60     \* PASS_THRESHOLD

Eval == 1..MaxEvals

VARIABLES
  pc,        \* where loop.py is, or "off"
  iterations, \* its args.iterations
  i,         \* its iteration
  usd,       \* its usd_spent
  history,   \* the composite means of its history
  outcomes,  \* its blue_outcomes
  report,    \* its report of the current iteration
  child,     \* the eval it waits for, or waited for last
  ev,        \* the eval processes, numbered in the order they were started
  latest,    \* reports/latest.json
  cases,     \* how many cases the test set holds; eval reads them in order
  tree,      \* pipeline/: what is in the files, and what git has of it
  runs,      \* how often loop.py was started
  kills,     \* how often it was killed
  end        \* history: how the last run of loop.py ended

run  == <<iterations, i, usd, history, outcomes, report>>
vars == <<pc, run, child, ev, latest, cases, tree, runs, kills, end>>

Exited(e) == ev[e].pc \in {"exited", "dead"}

\* load_latest(): None when the file is missing or does not parse.
Readable == latest \notin {NoReport, Torn}

Unborn == [pc |-> "unborn", run |-> 0, iteration |-> 0, size |-> 0,
           scores |-> <<>>, usd |-> 0, code |-> 0, head |-> 0, report |-> NoReport]
-----------------------------------------------------------------------------
Regression == [case : 1..MaxCases, previous : Scores, current : Scores]

Report ==
  [by : Eval,                   \* the timestamp, which names the run-*.json
   iteration : Nat,
   mean : 0..100,               \* composite_mean
   scores : Seq(Scores),        \* by_case
   regressions : SUBSET Regression,
   usd : Nat,                   \* cost.usd_spent
   hash : Nat,                  \* pipeline_manifest_hash
   stop : ToSet(Reasons) \cup {NoReason}]

EvalRecord ==
  [pc : {"unborn", "start", "grade", "build", "open", "write", "exited", "dead"},
   run : 0..MaxRuns, iteration : Nat,
   size : 0..MaxCases,          \* the cases it found when it started
   scores : Seq(Scores), usd : Nat,
   code : Nat, head : Nat,      \* the files it loaded, and what HEAD was then
   report : Report \cup {NoReport}]

\* The versions of pipeline/ are numbered in the order in which they come up.
Tree ==
  [code : Nat,                  \* what is in its files
   head : Nat,                  \* what HEAD holds: the manifest hash is of that
   unstaged : BOOLEAN]          \* a tracked file differs from the index

TypeOK ==
  /\ pc \in {"off", "red", "blue", "eval", "wait", "decide", "open", "write"}
  /\ iterations \in IterationArgs \cup {0}
  /\ i \in 0..iterations
  /\ usd \in Nat
  /\ history \in Seq(0..100)
  /\ outcomes \in Seq({"accept", "noop"})
  /\ report \in Report \cup {NoReport}
  /\ child \in 0..MaxEvals
  /\ ev \in [Eval -> EvalRecord]
  /\ latest \in Report \cup {NoReport, Torn}
  /\ cases \in 0..MaxCases
  /\ tree \in Tree
  /\ runs \in 0..MaxRuns
  /\ kills \in 0..MaxKills
  /\ end \in {"none", "stopped", "done", "exhausted", "reportless", "raised",
              "killed"}

Init ==
  /\ pc = "off"
  /\ iterations = 0
  /\ i = 0
  /\ usd = 0
  /\ history = <<>>
  /\ outcomes = <<>>
  /\ report = NoReport
  /\ child = 0
  /\ ev = [e \in Eval |-> Unborn]
  /\ latest = NoReport
  /\ cases = SeedCases
  /\ tree = [code |-> 0, head |-> 0, unstaged |-> FALSE]
  /\ runs = 0
  /\ kills = 0
  /\ end = "none"
-----------------------------------------------------------------------------
Off(how) == pc' = "off" /\ end' = how

\* `loop.py --iterations n`; n = 0 runs the baseline eval only.
LoopStart(n) ==
  /\ pc = "off"
  /\ runs < MaxRuns
  /\ runs' = runs + 1
  /\ history' = IF Readable THEN <<latest.mean>> ELSE <<>>
  /\ usd' = 0
  /\ outcomes' = <<>>
  /\ report' = NoReport
  /\ iterations' = n
  /\ i' = IF n = 0 THEN 0 ELSE 1
  /\ pc' = IF n = 0 THEN "eval" ELSE "red"
  /\ end' = "none"
  /\ UNCHANGED <<child, ev, latest, cases, tree, kills>>

\* The red team appends a case, or it does not, is skipped, or fails to start.
RedTeam ==
  /\ pc = "red"
  /\ pc' = "blue"
  /\ cases' \in {cases, cases + 1} \cap 0..MaxCases
  /\ UNCHANGED <<run, child, ev, latest, tree, runs, kills, end>>

Moves == {"nothing", "tracked", "untracked", "revert"}

\* The tree after the blue team: it edits files that git tracks, or adds ones
\* that git does not, or commits a `git revert` of its own, beside which what
\* was not committed stays as it is.
Edited(move) ==
  CASE move = "nothing"   -> tree
    [] move = "tracked"   -> [tree EXCEPT !.code = @ + 1, !.unstaged = TRUE]
    [] move = "untracked" -> [tree EXCEPT !.code = @ + 1]
    [] move = "revert"    ->
         [tree EXCEPT !.head = tree.code + 1,
                      !.code = IF @ = tree.head THEN @ + 1 ELSE @ + 2]

Edits == {t \in {Edited(move) : move \in Moves} : t.code <= MaxVersions}

\* _commit_pipeline_changes.  `git diff --quiet` sees tracked files only; with
\* nothing in them to add there is no commit, and otherwise `git add` takes
\* everything and the commit may fail, which leaves HEAD where it was.
Committed(t, outcome) ==
  IF ~t.unstaged THEN t
  ELSE [t EXCEPT !.unstaged = FALSE,
                 !.head = IF outcome = "accept" THEN t.code ELSE @]

\* Mutation: what the blue team did is recorded, not what the commit did.
BlueTeamMoves(t, outcome) ==
  /\ pc = "blue"
  /\ outcome = "accept" => t.unstaged
  /\ pc' = "eval"
  /\ tree' = Committed(t, outcome)
  /\ outcomes' = Append(outcomes, IF t = tree THEN "nothing" ELSE "change")
  /\ UNCHANGED <<iterations, i, usd, history, report, child, ev, latest,
                 cases, runs, kills, end>>

BlueTeam(t, outcome) ==
  /\ pc = "blue"
  /\ outcome = "accept" => t.unstaged
  /\ pc' = "eval"
  /\ tree' = Committed(t, outcome)
  /\ outcomes' = Append(outcomes, outcome)
  /\ UNCHANGED <<iterations, i, usd, history, report, child, ev, latest,
                 cases, runs, kills, end>>

\* `git add` with check=True raises, and nothing in main() catches it.
CommitRaises(t) ==
  /\ MayFail
  /\ pc = "blue"
  /\ t.unstaged
  /\ tree' = t
  /\ Off("raised")
  /\ UNCHANGED <<run, child, ev, latest, cases, runs, kills>>

\* --no-agents
NoAgents ==
  /\ pc = "red"
  /\ pc' = "eval"
  /\ UNCHANGED <<run, child, ev, latest, cases, tree, runs, kills, end>>

SpawnEval ==
  /\ pc = "eval"
  /\ \E e \in Eval :
       /\ ev[e].pc = "unborn"
       /\ \A d \in Eval : d < e => ev[d].pc # "unborn"
       /\ child' = e
       /\ ev' = [ev EXCEPT ![e].pc = "start", ![e].run = runs,
                           ![e].iteration = i]
  /\ pc' = "wait"
  /\ UNCHANGED <<run, latest, cases, tree, runs, kills, end>>

\* Mutation: the loop reads the report without waiting for the eval.
CollectEarly ==
  /\ pc = "wait"
  /\ CASE ~Readable        -> Off("reportless") /\ UNCHANGED report
       [] Readable /\ i = 0 -> Off("done") /\ UNCHANGED report
       [] Readable /\ i > 0 -> /\ report' = latest
                               /\ pc' = "decide"
                               /\ UNCHANGED end
  /\ UNCHANGED <<iterations, i, usd, history, outcomes, child, ev, latest,
                 cases, tree, runs, kills>>

\* _run_eval returns load_latest(), whatever the exit code was.
Collect ==
  /\ pc = "wait"
  /\ Exited(child)
  /\ CASE ~Readable        -> Off("reportless") /\ UNCHANGED report
       [] Readable /\ i = 0 -> Off("done") /\ UNCHANGED report
       [] Readable /\ i > 0 -> /\ report' = latest
                               /\ pc' = "decide"
                               /\ UNCHANGED end
  /\ UNCHANGED <<iterations, i, usd, history, outcomes, child, ev, latest,
                 cases, tree, runs, kills>>

Cfg == [usdPerRun |-> UsdPerRun, maxIterations |-> MaxIterations,
        anchorThreshold |-> AnchorThreshold, window |-> Window,
        threshold |-> Threshold]

\* The stop criteria see no drift rate and no manual stop: nothing in main()
\* ever supplies one.
Verdict(spent) ==
  Evaluate(Cfg, report,
           [iteration |-> i, history |-> history, usd |-> spent,
            drift |-> <<>>, outcomes |-> outcomes, manual |-> FALSE])

Stop(reason) ==
  /\ report' = [report EXCEPT !.stop = reason]
  /\ pc' = "open"
  /\ UNCHANGED <<i, history, end>>

\* Mutation: the report is not remembered.
GoOnForgets ==
  /\ IF i < iterations THEN i' = i + 1 /\ pc' = "red" /\ UNCHANGED end
                       ELSE Off("exhausted") /\ UNCHANGED i
  /\ UNCHANGED <<history, report>>

GoOn ==
  /\ history' = Append(history, report.mean)
  /\ IF i < iterations THEN i' = i + 1 /\ pc' = "red" /\ UNCHANGED end
                       ELSE Off("exhausted") /\ UNCHANGED i
  /\ UNCHANGED report

\* Mutations: the spend of the earlier iterations is forgotten; the iteration
\* is not counted.
DecideForgets ==
  /\ pc = "decide"
  /\ usd' = report.usd
  /\ LET reason == Verdict(usd')
     IN  IF reason # NoReason THEN Stop(reason) ELSE GoOn
  /\ UNCHANGED <<iterations, outcomes, child, ev, latest, cases, tree, runs,
                 kills>>

DecideRepeats ==
  /\ pc = "decide"
  /\ usd' = usd + report.usd
  /\ pc' = "eval"
  /\ UNCHANGED <<i, history, report, end>>
  /\ UNCHANGED <<iterations, outcomes, child, ev, latest, cases, tree, runs,
                 kills>>

Decide ==
  /\ pc = "decide"
  /\ usd' = usd + report.usd
  /\ LET reason == Verdict(usd')
     IN  IF reason # NoReason THEN Stop(reason) ELSE GoOn
  /\ UNCHANGED <<iterations, outcomes, child, ev, latest, cases, tree, runs,
                 kills>>

\* write_report() opens latest.json for writing, which empties it, ...
StopOpen ==
  /\ pc = "open"
  /\ pc' = "write"
  /\ latest' = Torn
  /\ UNCHANGED <<run, child, ev, cases, tree, runs, kills, end>>

\* Mutation: the reason is logged but not written.
StopWriteUnsaid ==
  /\ pc = "write"
  /\ latest' = [report EXCEPT !.stop = NoReason]
  /\ Off("stopped")
  /\ UNCHANGED <<run, child, ev, cases, tree, runs, kills>>

\* ... and then writes it.
StopWrite ==
  /\ pc = "write"
  /\ latest' = report
  /\ Off("stopped")
  /\ UNCHANGED <<run, child, ev, cases, tree, runs, kills>>

\* SIGTERM or SIGKILL (ui/backend/loop_control.py: stop): loop.py installs no
\* handler, and the signal goes to it alone.  The agent's edits stay.
LoopKilled ==
  /\ kills < MaxKills
  /\ pc # "off"
  /\ kills' = kills + 1
  /\ tree' \in IF pc = "blue" THEN Edits ELSE {tree}
  /\ Off("killed")
  /\ UNCHANGED <<run, child, ev, latest, cases, runs>>
-----------------------------------------------------------------------------
EvalOnly == UNCHANGED <<pc, run, child, cases, tree, runs, kills, end>>

\* _gather_cases; with nothing to evaluate the exit code is 2.
EvalStart(e) ==
  /\ ev[e].pc = "start"
  /\ ev' = [ev EXCEPT ![e].size = cases,
                      ![e].code = tree.code, ![e].head = tree.head,
                      ![e].pc = IF cases = 0 THEN "exited" ELSE "grade"]
  /\ UNCHANGED latest
  /\ EvalOnly

\* One case: answer, judge, and the question whether the budget is hit.
Hit(spent) == BudgetFlag # NoLimit /\ spent >= BudgetFlag

EvalGrade(e, s, c) ==
  /\ ev[e].pc = "grade"
  /\ LET scores == Append(ev[e].scores, s)
         spent  == ev[e].usd + c
         last   == Len(scores) = ev[e].size \/ Hit(spent)
     IN  ev' = [ev EXCEPT ![e].scores = scores, ![e].usd = spent,
                          ![e].pc = IF last THEN "build" ELSE "grade"]
  /\ UNCHANGED latest
  /\ EvalOnly

Mean(scores) == FoldSeq(+, 0, scores) \div Len(scores)

\* Cases that passed in the previous report and do not pass now.
Regressions(scores, previous) ==
  {[case |-> k, previous |-> previous[k], current |-> scores[k]] :
     k \in {j \in DOMAIN scores \cap DOMAIN previous :
              previous[j] >= PassMark /\ scores[j] < PassMark}}

Built(e, previous) ==
  [by |-> e, iteration |-> ev[e].iteration, mean |-> Mean(ev[e].scores),
   scores |-> ev[e].scores, usd |-> ev[e].usd, hash |-> tree.head,
   regressions |-> Regressions(ev[e].scores, previous),
   stop |-> IF Hit(ev[e].usd) THEN "budget" ELSE NoReason]

\* Mutation: the previous report is read when latest.json is already open.
EvalBuildLate(e) ==
  /\ ev[e].pc = "build"
  /\ ev' = [ev EXCEPT ![e].pc = "open", ![e].report = Built(e, <<>>)]
  /\ UNCHANGED latest
  /\ EvalOnly

EvalBuild(e) ==
  /\ ev[e].pc = "build"
  /\ ev' = [ev EXCEPT ![e].pc = "open",
                      ![e].report = Built(e, IF Readable THEN latest.scores
                                                         ELSE <<>>)]
  /\ UNCHANGED latest
  /\ EvalOnly

EvalOpen(e) ==
  /\ ev[e].pc = "open"
  /\ ev' = [ev EXCEPT ![e].pc = "write"]
  /\ latest' = Torn
  /\ EvalOnly

EvalWrite(e) ==
  /\ ev[e].pc = "write"
  /\ ev' = [ev EXCEPT ![e].pc = "exited"]
  /\ latest' = ev[e].report
  /\ EvalOnly

\* The query, the judge or a write raises, or the process is killed.
EvalDies(e) ==
  /\ MayFail
  /\ ev[e].pc \in {"start", "grade", "build", "open", "write"}
  /\ ev' = [ev EXCEPT ![e].pc = "dead"]
  /\ UNCHANGED latest
  /\ EvalOnly
-----------------------------------------------------------------------------
Loop == \/ RedTeam \/ NoAgents
        \/ \E t \in Edits : \/ \E outcome \in {"accept", "noop"} : BlueTeam(t, outcome)
                            \/ CommitRaises(t)
        \/ SpawnEval \/ Collect \/ Decide \/ StopOpen \/ StopWrite

EvalStep(e) == \/ EvalStart(e) \/ EvalBuild(e) \/ EvalOpen(e) \/ EvalWrite(e)
               \/ EvalDies(e)
               \/ \E s \in Scores, c \in Costs : EvalGrade(e, s, c)

Next == \/ \E n \in IterationArgs : LoopStart(n)
        \/ Loop
        \/ LoopKilled
        \/ \E e \in Eval : EvalStep(e)

Spec == Init /\ [][Next]_vars

\* The loop and its evals are sequential programs that run on, as long as
\* every agent, model and judge they call returns; nobody has to start one.
Fairness == WF_vars(Loop) /\ \A e \in Eval : WF_vars(EvalStep(e))

FairSpec == Spec /\ Fairness
-----------------------------------------------------------------------------
\* The evals of the present run of loop.py, and what they really spent.
Own   == {e \in Eval : ev[e].run = runs /\ ev[e].pc # "unborn"}
Spent == FoldFunctionOnSet(+, 0, [e \in Eval |-> ev[e].usd], Own)

\* The loop is about to start an iteration that is not the first of its run.
Continuing == pc = "red" /\ i > 1

\* What case k scored in eval n, if n got to it, and the eval that graded it
\* before n.
Graded(n, k) == k \in DOMAIN ev[n].scores
Before(n, k) == Max({m \in 0..(n-1) : m = 0 \/ Graded(m, k)})

\* "The loop halts before the next iteration is started" (docs/metrics.md:391)
\* once what its evals really spent reaches usd_per_run.
BudgetHalts == Continuing /\ UsdPerRun > 0 => Spent < UsdPerRun

\* "A regression ... is treated as an immediate halt" (docs/metrics.md:395-398):
\* the loop does not go on after a case fell from a pass to a fail, by the
\* threshold or more, since the last time it was graded.
AnchorHalts ==
  Continuing =>
    \A k \in DOMAIN ev[child].scores :
      LET m == Before(child, k)
      IN  m > 0 /\ ev[m].scores[k] >= PassMark /\ ev[child].scores[k] < PassMark
            => ev[m].scores[k] - ev[child].scores[k] < AnchorThreshold

\* A loop that says that it converged has the evals to show for it: each of
\* the last Window, in the order in which they ran, moved by less than the
\* threshold, whether or not an earlier run of loop.py ran them.
ConvergenceGenuine ==
  pc = "off" /\ end = "stopped" /\ Readable /\ latest.stop = "convergence" =>
    \A e \in (child - Window + 2)..child :
      /\ e - 1 \in Eval
      /\ Abs(Mean(ev[e].scores) - Mean(ev[e-1].scores)) < Threshold

\* "You can map any score back to the exact code that produced it"
\* (README.md:317), as far as the code is committed.  A report's manifest hash
\* is what HEAD was when its eval loaded pipeline/, for nothing is committed
\* under an eval; and where the loop has recorded the change as accepted and
\* judges the report of its own eval, that is the code the cases ran on.
Accepted == outcomes # <<>> /\ Last(outcomes) = "accept"

ReportsHermetic ==
  /\ Readable => latest.hash = ev[latest.by].head
  /\ pc = "decide" /\ Accepted /\ report.by = child => report.hash = ev[child].code

\* The loop that halted for a reason leaves the reason behind, and on the
\* report of its own last eval.
FinalReport ==
  pc = "off" /\ end = "stopped" =>
    /\ Readable
    /\ latest.by = child
    /\ latest.stop # NoReason

\* A loop that was started ends, whatever its evals and commits do.
Terminates == pc # "off" ~> pc = "off"

\* "aborting cleanly when eval produces no report"
\* (tests/test_loop_orchestrator.py:10).
NoReportAborts ==
  [][pc = "wait" /\ pc' # "wait" /\ ev[child].pc = "dead"
       => pc' = "off"]_vars
=============================================================================
