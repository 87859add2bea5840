---------------------------- MODULE StopCriteria ----------------------------
(***************************************************************************)
(* pipeline/stop_criteria.py: the pure decision of the orchestrator.       *)
(* Scores and rates are whole percent, money is whole units; the           *)
(* comparisons keep the strictness of the code.                            *)
(***************************************************************************)
EXTENDS Integers, Sequences

CONSTANT NoReason   \* Python's None: the loop goes on

\* The order in which evaluate() asks.
Reasons == <<"manual", "budget", "max_iterations", "anchor_regression",
             "judge_drift", "blue_stall", "convergence">>

ASSUME NoReasonAssumption == \A k \in DOMAIN Reasons : Reasons[k] # NoReason

Abs(n) == IF n < 0 THEN -n ELSE n

\* Python's seq[-n:] for n >= 1: the whole sequence when it is shorter.
LastOf(seq, n) ==
  SubSeq(seq, IF n < Len(seq) THEN Len(seq) - n + 1 ELSE 1, Len(seq))

\* A ceiling of zero means that there is none.
BudgetExceeded(cfg, usd) == cfg.usdPerRun > 0 /\ usd >= cfg.usdPerRun

AnchorRegression(cfg, regressions) ==
  \E r \in regressions : r.previous - r.current >= cfg.anchorThreshold

\* Disagreement above 5% on three consecutive checks.
JudgeDrift(rates) ==
  Len(rates) >= 3 /\ \A k \in 1..3 : LastOf(rates, 3)[k] > 5

BlueStall(outcomes) ==
  Len(outcomes) >= 3 /\ \A k \in 1..3 : LastOf(outcomes, 3)[k] = "revert"

\* history holds the composite means of the reports before this one.
Converged(cfg, mean, history) ==
  LET series == Append(LastOf(history, cfg.window - 1), mean)
  IN  /\ cfg.window > 1
      /\ Len(series) >= cfg.window
      /\ \A k \in 2..Len(series) : Abs(series[k] - series[k-1]) < cfg.threshold

Fires(reason, cfg, report, state) ==
  CASE reason = "manual"            -> state.manual
    [] reason = "budget"            -> BudgetExceeded(cfg, state.usd)
    [] reason = "max_iterations"    -> state.iteration >= cfg.maxIterations
    [] reason = "anchor_regression" -> AnchorRegression(cfg, report.regressions)
    [] reason = "judge_drift"       -> JudgeDrift(state.drift)
    [] reason = "blue_stall"        -> BlueStall(state.outcomes)
    [] reason = "convergence"       -> Converged(cfg, report.mean, state.history)

\* evaluate(): the first reason that fires.
Evaluate(cfg, report, state) ==
  LET firing == {k \in 1..Len(Reasons) : Fires(Reasons[k], cfg, report, state)}
  IN  IF firing = {} THEN NoReason
      ELSE Reasons[CHOOSE k \in firing : \A j \in firing : k <= j]
-----------------------------------------------------------------------------
\* Reference definition, on the whole series of means: the last `window` of
\* them exist and each of their steps is smaller than the threshold
\* (docs/metrics.md:384-387, "for the configured number of consecutive
\* iterations").
Plateau(cfg, means) ==
  LET n == Len(means)
  IN  /\ cfg.window \in 2..n
      /\ \A k \in 1..(cfg.window - 1) :
           Abs(means[n - k + 1] - means[n - k]) < cfg.threshold
=============================================================================
