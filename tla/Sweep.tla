------------------------------- MODULE Sweep -------------------------------
(***************************************************************************)
(* scripts/sweep.py: a search over pipeline/config.yaml.  Each trial       *)
(* writes a candidate's config over the file, runs an eval as a child,     *)
(* takes the score from reports/latest.json and writes the old config      *)
(* back; the winner is adopted if a full oracle eval prefers it to the     *)
(* incumbent.  What interleaves are evals of others, which write the same  *)
(* latest.json, and whoever ends the sweep.                                *)
(***************************************************************************)
EXTENDS Naturals, FiniteSets, Sequences

CONSTANTS
  Key,          \* the parameters that a sweep may set
  Value,        \* what they may be set to
  Off,          \* False, to which an ablation sets a stage
  Absent,       \* a parameter that the config does not have
  MaxScore,     \* composite means are 0..MaxScore
  Torn,         \* a config file that does not parse
  NoReport,     \* latest.json is missing or does not parse
  MaxSweeps,    \* bound: how many sweeps are run
  MaxTrials,    \* bound: how many candidates a search may have
  MaxForeign,   \* bound: how often somebody else's eval reports
  MaxKills,     \* bound: how often a sweep is killed
  MaxCuts       \* bound: how often a write of the config fails, or Ctrl-C falls
                \* between that write and the try

ASSUME ValuesAssumption == Off \in Value /\ Absent \notin Value
ASSUME BoundsAssumption ==
  {MaxScore, MaxSweeps, MaxTrials, MaxForeign, MaxKills, MaxCuts} \subseteq Nat

VARIABLES
  cfg,        \* pipeline/config.yaml
  latest,     \* reports/latest.json
  pc,         \* where main is
  stage,      \* which trial it is: of the search, of the winner, ...
  kind,       \* the judge and the subset of the search's trials
  incumbent,  \* main's incumbent, and its winner
  winner,
  todo,       \* the candidates that have no result yet
  cur, snap,  \* _run_trial's candidate and snapshot
  results,    \* the results of the search
  got,        \* what the last trial returned
  oracle,     \* the winner's score under the oracle
  own,        \* history: latest.json is of the eval of this trial
  stale,      \* history: a score of this sweep was not of its own trial
  graded,     \* history: the reports of this sweep's evals
  base,       \* history: the config that is meant to be in the file
  sweeps, foreign, kills, cuts

search == <<stage, kind, incumbent, winner, todo, cur, snap, got, results, oracle>>
past   == <<own, stale, graded, base>>
bounds == <<sweeps, foreign, kills, cuts>>
vars   == <<cfg, latest, pc, search, past, bounds>>

Config    == [Key -> Value \cup {Absent}]
Candidate == UNION {[ks -> Value] : ks \in SUBSET Key}
Baseline  == [k \in {} |-> Off]
Kind      == {"quick", "oracle"}   \* oracle: all cases under the oracle
Score     == 0..MaxScore
Report    == [of : Config, kind : Kind, score : Score]
Result    == [candidate : Candidate, score : Score]

ASSUME ReportAssumption == NoReport \notin Report
ASSUME TornAssumption == Torn \notin Config

\* _set_nested for each parameter of a candidate.
Applied(c, candidate) ==
  [k \in Key |-> IF k \in DOMAIN candidate THEN candidate[k] ELSE c[k]]

\* _grid_candidates: the product of the values given for each parameter.  A
\* bayesian search tries some of the values of one parameter.
GridCandidates(grids) ==
  {c \in [DOMAIN grids -> Value] : \A k \in DOMAIN grids : c[k] \in grids[k]}

\* _ablation_candidates: the incumbent, and each stage that it has switched off.
AblationCandidates(stages, c) ==
  {Baseline} \cup {[k \in {s} |-> Off] : s \in {s \in stages : c[s] # Absent}}

Plans(c) ==
  LET some  == (SUBSET Key) \ {{}}
      grids == UNION {[ks -> SUBSET Value] : ks \in some}
      plans == {GridCandidates(g) : g \in grids}
                 \cup {AblationCandidates(stages, c) : stages \in some}
  IN {plan \in plans : Cardinality(plan) <= MaxTrials}

\* max(results, key=...): the first of the best.
Best(i) ==
  /\ \A j \in DOMAIN results : results[j].score <= results[i].score
  /\ \A j \in 1..(i - 1) : results[j].score < results[i].score

TypeOK ==
  /\ cfg \in Config \cup {Torn}
  /\ latest \in Report \cup {NoReport}
  /\ pc \in {"idle", "next", "enter", "eval", "read", "restore", "judge"}
  /\ stage \in {"search", "winner", "incumbent"}
  /\ kind \in Kind
  /\ incumbent \in Config
  /\ winner \in Candidate
  /\ todo \in SUBSET Candidate
  /\ cur \in Candidate
  /\ snap \in Config
  /\ results \in Seq(Result)
  /\ {got, oracle} \subseteq Score
  /\ {own, stale} \subseteq BOOLEAN
  /\ graded \in SUBSET Report
  /\ base \in Config
  /\ sweeps \in 0..MaxSweeps /\ foreign \in 0..MaxForeign /\ kills \in 0..MaxKills
  /\ cuts \in 0..MaxCuts

Init ==
  /\ cfg \in Config
  /\ latest \in Report \cup {NoReport}
  /\ pc = "idle"
  /\ stage = "search"
  /\ kind = "quick"
  /\ incumbent = cfg
  /\ winner = Baseline
  /\ todo = {}
  /\ cur = Baseline
  /\ snap = cfg
  /\ results = <<>>
  /\ got = 0
  /\ oracle = 0
  /\ own = FALSE
  /\ stale = FALSE
  /\ graded = {}
  /\ base = cfg
  /\ sweeps = 0 /\ foreign = 0 /\ kills = 0 /\ cuts = 0
-----------------------------------------------------------------------------
\* Path.write_text empties the file and writes the new text, in place: a write
\* that fails leaves the old config, a part of the new one or a broken line.
Left(old, new) ==
  {old, Torn} \cup {[k \in Key |-> IF k \in ks THEN new[k] ELSE Absent] : ks \in SUBSET Key}

\* The candidates that _run_trial may be called with next: those of the search
\* (the baseline of an ablation comes first), the winner, or the incumbent.
Upcoming ==
  CASE pc = "next" -> {c \in todo : Baseline \in todo => c = Baseline}
    [] pc = "judge" /\ stage = "search" ->
         {results[i].candidate : i \in {i \in DOMAIN results : Best(i)}} \ {Baseline}
    [] pc = "judge" /\ stage = "winner" -> {Baseline}
    [] OTHER -> {}

Trial(candidate, s) ==
  /\ snap' = cfg
  /\ cfg' = Applied(cfg, candidate)
  /\ cur' = candidate
  /\ stage' = s
  /\ own' = FALSE
  /\ pc' = "enter"

\* main: the incumbent is loaded and the candidates are laid out; with none
\* there is nothing to do, and a config that does not parse is an exception.
Begin ==
  /\ pc = "idle"
  /\ cfg # Torn
  /\ sweeps < MaxSweeps
  /\ sweeps' = sweeps + 1
  /\ incumbent' = cfg
  /\ todo' \in Plans(cfg)
  /\ pc' = IF todo' = {} THEN "idle" ELSE "next"
  /\ kind' \in Kind
  /\ stage' = "search"
  /\ results' = <<>>
  /\ stale' = FALSE
  /\ graded' = {}
  /\ UNCHANGED <<cfg, latest, winner, cur, snap, got, oracle, own, base, foreign, kills, cuts>>

TryNext ==
  /\ pc = "next"
  /\ \E c \in Upcoming : todo' = todo \ {c} /\ Trial(c, "search")
  /\ UNCHANGED <<latest, kind, incumbent, winner, got, results, oracle, stale, graded, base, bounds>>

\* The write of the candidate's config stands before the try.
TrialWriteFails ==
  /\ \E c \in Upcoming : cfg' \in Left(cfg, Applied(cfg, c))
  /\ cuts < MaxCuts
  /\ cuts' = cuts + 1
  /\ pc' = "idle"
  /\ UNCHANGED <<latest, search, past, sweeps, foreign, kills>>

\* So does the moment after it: Ctrl-C leaves the candidate's config.
EarlyInterrupt ==
  /\ pc = "enter"
  /\ cuts < MaxCuts
  /\ cuts' = cuts + 1
  /\ pc' = "idle"
  /\ UNCHANGED <<cfg, latest, search, past, sweeps, foreign, kills>>

TrialEnters ==
  /\ pc = "enter"
  /\ pc' = "eval"
  /\ UNCHANGED <<cfg, latest, search, past, bounds>>

KindOf(s) == IF s = "search" THEN kind ELSE "oracle"

\* The child eval reports (exit code 0 or 3) ...
EvalReports ==
  /\ pc = "eval"
  /\ \E score \in Score :
       latest' = [of |-> cfg, kind |-> KindOf(stage), score |-> score]
  /\ graded' = graded \cup {latest'}
  /\ own' = TRUE
  /\ pc' = "read"
  /\ UNCHANGED <<cfg, search, stale, base, bounds>>

\* ... or ends without a report; the exit code is only logged.
EvalDies ==
  /\ pc = "eval"
  /\ pc' = "read"
  /\ UNCHANGED <<cfg, latest, search, past, bounds>>

\* An eval of somebody else, of the config that it found when it started.
ForeignReports ==
  /\ foreign < MaxForeign
  /\ foreign' = foreign + 1
  /\ latest' \in Report
  /\ own' = FALSE
  /\ UNCHANGED <<cfg, pc, search, stale, graded, base, sweeps, kills, cuts>>

\* _run_trial up to its return value ...
TrialReads ==
  /\ pc = "read"
  /\ got' = IF latest = NoReport THEN 0 ELSE latest.score
  /\ stale' = (stale \/ ~own)
  /\ pc' = "restore"
  /\ UNCHANGED <<cfg, latest, stage, kind, incumbent, winner, todo, cur, snap, results, oracle, own, graded, base, bounds>>

Returns ==
  /\ results' = IF stage = "search"
                THEN Append(results, [candidate |-> cur, score |-> got])
                ELSE results
  /\ oracle' = IF stage = "winner" THEN got ELSE oracle
  /\ pc' = IF stage = "search" /\ todo # {} THEN "next" ELSE "judge"
  /\ UNCHANGED <<latest, stage, kind, incumbent, winner, todo, cur, snap, got, past, bounds>>

\* Mutation: the config is restored only after a trial that has reported.
TrialRestoresIfReported ==
  /\ pc = "restore"
  /\ cfg' = IF own THEN snap ELSE cfg
  /\ Returns

\* ... and its finally.
TrialRestores ==
  /\ pc = "restore"
  /\ cfg' = snap
  /\ Returns

\* The winner is tried again, and then the incumbent, both under the oracle.
Validate ==
  /\ pc = "judge"
  /\ \/ /\ stage = "search"
        /\ winner' \in Upcoming
        /\ Trial(winner', "winner")
     \/ /\ stage = "winner"
        /\ Trial(Baseline, "incumbent")
        /\ UNCHANGED winner
  /\ UNCHANGED <<latest, kind, incumbent, todo, got, results, oracle, stale, graded, base, bounds>>

\* The baseline has won, the oracle disagrees, or --no-persist was given.
Discard ==
  /\ pc = "judge"
  /\ \/ /\ stage = "search"
        /\ \E i \in DOMAIN results : Best(i) /\ results[i].candidate = Baseline
     \/ stage = "incumbent"
  /\ pc' = "idle"
  /\ UNCHANGED <<cfg, latest, search, past, bounds>>

\* Mutation: the winner is adopted on a draw.
PersistOnDraw ==
  /\ pc = "judge"
  /\ stage = "incumbent"
  /\ oracle >= got
  /\ cfg' = Applied(incumbent, winner)
  /\ base' = cfg'
  /\ pc' = "idle"
  /\ UNCHANGED <<latest, search, own, stale, graded, bounds>>

Persist ==
  /\ pc = "judge"
  /\ stage = "incumbent"
  /\ oracle > got
  /\ cfg' = Applied(incumbent, winner)
  /\ base' = cfg'
  /\ pc' = "idle"
  /\ UNCHANGED <<latest, search, own, stale, graded, bounds>>

\* Ctrl-C, or an exception of the child's start: finally runs.  Between two
\* trials it finds the config in its place.
Interrupt ==
  /\ pc \in {"eval", "read", "next", "judge"}
  /\ cfg' = IF pc \in {"eval", "read"} THEN snap ELSE cfg
  /\ pc' = "idle"
  /\ UNCHANGED <<latest, search, past, bounds>>

\* The write of finally fails, or Ctrl-C breaks it off.
RestoreFails ==
  /\ pc \in {"eval", "read", "restore"}
  /\ cfg' \in Left(cfg, snap)
  /\ cuts < MaxCuts
  /\ cuts' = cuts + 1
  /\ pc' = "idle"
  /\ UNCHANGED <<latest, search, past, sweeps, foreign, kills>>

\* The write of the winner's config fails.
PersistFails ==
  /\ pc = "judge"
  /\ stage = "incumbent"
  /\ oracle > got
  /\ cfg' \in Left(cfg, Applied(incumbent, winner))
  /\ cuts < MaxCuts
  /\ cuts' = cuts + 1
  /\ pc' = "idle"
  /\ UNCHANGED <<latest, search, past, sweeps, foreign, kills>>

\* SIGTERM or SIGKILL: finally does not run.
Kill ==
  /\ pc # "idle"
  /\ kills < MaxKills
  /\ kills' = kills + 1
  /\ pc' = "idle"
  /\ UNCHANGED <<cfg, latest, search, past, sweeps, foreign, cuts>>

Next == \/ Begin \/ TryNext \/ TrialWriteFails \/ EarlyInterrupt
        \/ TrialEnters \/ EvalReports \/ EvalDies \/ TrialReads
        \/ TrialRestores \/ Validate \/ Discard \/ Persist
        \/ ForeignReports \/ Interrupt \/ RestoreFails \/ PersistFails \/ Kill

Spec == Init /\ [][Next]_vars
-----------------------------------------------------------------------------
(* Properties.                                                             *)

\* While no trial runs, the config is the one that was last adopted,
\* whatever became of the trials before: each died, was interrupted or was
\* scored by a stranger.  Only a sweep that was killed, that could not write or
\* that was interrupted before its try leaves another.
ConfigRestored ==
  kills = 0 /\ cuts = 0 =>
    CASE pc \in {"idle", "next", "judge"} -> cfg = base
      [] OTHER -> snap = base /\ cfg = Applied(base, cur)

\* A config is adopted only if this sweep had it graded, and the config that
\* it found, both in full and by the oracle, and it was strictly better;
\* unless one of the scores that the sweep took was not of its own trial.
AdoptedIsBetter ==
  [][base' # base =>
       \/ stale
       \/ \E a, b \in graded : /\ a.of = base' /\ b.of = incumbent
                               /\ a.kind = "oracle" /\ b.kind = "oracle"
                               /\ a.score > b.score]_vars
=============================================================================
