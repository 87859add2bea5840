----------------------------- MODULE SweepProofs -----------------------------
(***************************************************************************)
(* Proofs about Sweep: a sweep that is not killed leaves the config as it  *)
(* found it or better, for every grid, every score and every schedule of   *)
(* the evals of others.                                                    *)
(***************************************************************************)
EXTENDS Sweep, TLAPS

\* Trying a candidate gives a config, and trying none changes nothing.
LEMMA AppliedType ==
  ASSUME NEW c \in Config, NEW candidate \in Candidate
  PROVE  Applied(c, candidate) \in Config
<1>1. PICK ks \in SUBSET Key : candidate \in [ks -> Value]
  BY DEF Candidate
<1>2. QED
  BY <1>1 DEF Applied, Config

LEMMA BaselineType == Baseline \in Candidate
<1>1. Baseline \in [{} -> Value]
  BY DEF Baseline
<1>2. QED
  BY <1>1 DEF Candidate

LEMMA BaselineChangesNothing ==
  ASSUME NEW c \in Config
  PROVE  Applied(c, Baseline) = c
<1>1. DOMAIN Baseline = {}
  BY DEF Baseline
<1>2. QED
  BY <1>1 DEF Applied, Config

\* What a search tries are candidates.
LEMMA PlansType ==
  ASSUME NEW c \in Config, NEW plan \in Plans(c)
  PROVE  plan \in SUBSET Candidate
<1>1. CASE \E ks \in SUBSET Key : \E g \in [ks -> SUBSET Value] : plan = GridCandidates(g)
  <2>1. PICK ks \in SUBSET Key : \E g \in [ks -> SUBSET Value] : plan = GridCandidates(g)
    BY <1>1
  <2>2. PICK g \in [ks -> SUBSET Value] : plan = GridCandidates(g)
    BY <2>1
  <2>3. plan \subseteq [ks -> Value]
    BY <2>2 DEF GridCandidates
  <2>4. QED
    BY <2>3 DEF Candidate
<1>2. CASE \E stages \in SUBSET Key : plan = AblationCandidates(stages, c)
  <2>1. PICK stages \in SUBSET Key : plan = AblationCandidates(stages, c)
    BY <1>2
  <2>2. ASSUME NEW s \in stages PROVE [k \in {s} |-> Off] \in Candidate
    <3>1. [k \in {s} |-> Off] \in [{s} -> Value]
      BY ValuesAssumption
    <3>2. {s} \in SUBSET Key
      OBVIOUS
    <3>3. QED
      BY <3>1, <3>2 DEF Candidate
  <2>3. QED
    BY <2>1, <2>2, BaselineType DEF AblationCandidates
<1>3. QED
  BY <1>1, <1>2 DEF Plans
-----------------------------------------------------------------------------
LEMMA InitType == Init => TypeOK
<1> SUFFICES ASSUME Init PROVE TypeOK
  OBVIOUS
<1>1. {got, oracle} \subseteq Score
  BY BoundsAssumption DEF Init, Score
<1>2. {own, stale} \subseteq BOOLEAN
  BY DEF Init
<1>3. sweeps \in 0..MaxSweeps /\ foreign \in 0..MaxForeign /\ kills \in 0..MaxKills
      /\ cuts \in 0..MaxCuts
  BY BoundsAssumption DEF Init
<1>4. results \in Seq(Result)
  BY DEF Init
<1>5. QED
  BY <1>1, <1>2, <1>3, <1>4, BaselineType DEF Init, TypeOK, Kind
-----------------------------------------------------------------------------
Trying == pc \in {"enter", "eval", "read", "restore"}

\* Where the config that the sweep found is, at each point of a trial.
ConfigInv ==
  /\ pc \in {"next", "judge"} => cfg = incumbent
  /\ Trying => snap = incumbent /\ cfg = Applied(incumbent, cur)
  /\ kills = 0 /\ cuts = 0 => base = IF pc = "idle" THEN cfg ELSE incumbent

\* An eval of this sweep gave config c this score.
Graded(c, k, score) ==
  \E r \in graded : r.of = c /\ r.kind = k /\ r.score = score

\* What each score that is taken, and is not a stranger's, is the score of.
ScoreInv ==
  /\ pc = "next" => stage = "search"
  /\ Trying /\ stage = "winner" => cur = winner
  /\ Trying /\ stage = "incumbent" => cur = Baseline
  /\ pc \in {"enter", "eval"} => ~own
  /\ pc = "read" /\ own => /\ latest \in graded
                           /\ latest.of = cfg /\ latest.kind = KindOf(stage)
  /\ pc = "restore" /\ ~stale => Graded(cfg, KindOf(stage), got)
  /\ \/ Trying /\ stage = "incumbent"
     \/ pc = "judge" /\ stage # "search"
     => stale \/ Graded(Applied(incumbent, winner), "oracle", oracle)
  /\ pc = "judge" /\ stage = "incumbent" => stale \/ Graded(incumbent, "oracle", got)

SweepInv == TypeOK /\ ConfigInv /\ ScoreInv

LEMMA InitInv == Init => SweepInv
  BY InitType DEF Init, SweepInv, ConfigInv, ScoreInv, Trying

\* While a sweep runs, the config parses.
LEMMA ConfigParses ==
  ASSUME SweepInv, pc # "idle"
  PROVE  cfg \in Config
<1>1. CASE pc \in {"next", "judge"}
  BY <1>1 DEF SweepInv, ConfigInv, TypeOK
<1>2. CASE Trying
  BY <1>2, AppliedType DEF SweepInv, ConfigInv, TypeOK
<1>3. QED
  BY <1>1, <1>2 DEF SweepInv, TypeOK, Trying

\* What a failed write leaves may be a broken file.
LEMMA LeftType ==
  ASSUME NEW old \in Config, NEW new \in Config
  PROVE  Left(old, new) \subseteq Config \cup {Torn}
  BY DEF Left, Config

\* _run_trial is called with candidates.
LEMMA UpcomingType ==
  ASSUME TypeOK
  PROVE  /\ Upcoming \subseteq Candidate
         /\ Upcoming # {} => pc \in {"next", "judge"}
<1>1. ASSUME NEW i \in DOMAIN results PROVE results[i].candidate \in Candidate
  <2>1. results[i] \in Result
    BY DEF TypeOK
  <2>2. QED
    BY <2>1 DEF Result
<1>2. CASE pc = "next"
  BY <1>2 DEF Upcoming, TypeOK
<1>3. CASE pc = "judge" /\ stage = "search"
  BY <1>1, <1>3 DEF Upcoming
<1>4. CASE pc = "judge" /\ stage = "winner"
  BY <1>4, BaselineType DEF Upcoming
<1>5. CASE ~(pc = "next" \/ (pc = "judge" /\ stage \in {"search", "winner"}))
  BY <1>5 DEF Upcoming
<1>6. QED
  BY <1>2, <1>3, <1>4, <1>5 DEF TypeOK

LEMMA TrialType ==
  ASSUME TypeOK, cfg \in Config, NEW c \in Candidate, NEW s \in {"search", "winner", "incumbent"}, Trial(c, s)
  PROVE  /\ cfg' \in Config /\ snap' \in Config /\ cur' \in Candidate
         /\ stage' \in {"search", "winner", "incumbent"}
         /\ own' \in BOOLEAN
         /\ pc' \in {"idle", "next", "enter", "eval", "read", "restore", "judge"}
  BY AppliedType DEF Trial, TypeOK

LEMMA NextType == SweepInv /\ [Next]_vars => TypeOK'
<1> SUFFICES ASSUME SweepInv, [Next]_vars PROVE TypeOK'
  OBVIOUS
<1> USE DEF search, past, bounds
<1>0. TypeOK
  BY DEF SweepInv
<1>p. pc # "idle" => cfg \in Config
  BY ConfigParses
<1>1. CASE Begin
  <2>1. todo' \in SUBSET Candidate
    BY <1>0, <1>1, PlansType DEF Begin, TypeOK
  <2>2. sweeps' \in 0..MaxSweeps
    BY <1>0, <1>1, BoundsAssumption DEF Begin, TypeOK
  <2>3. results' \in Seq(Result)
    BY <1>1 DEF Begin
  <2>4. pc' \in {"idle", "next", "enter", "eval", "read", "restore", "judge"}
    BY <1>1 DEF Begin
  <2>5. QED
    BY <1>0, <1>1, <2>1, <2>2, <2>3, <2>4 DEF Begin, TypeOK
<1>2. CASE TryNext
  <2>1. PICK c \in Upcoming : todo' = todo \ {c} /\ Trial(c, "search")
    BY <1>2 DEF TryNext
  <2>2. c \in Candidate /\ todo' \in SUBSET Candidate
    BY <1>0, <2>1, UpcomingType DEF TypeOK
  <2>3. cfg \in Config
    BY <1>2, <1>p DEF TryNext
  <2>4. QED
    BY <1>0, <1>2, <2>1, <2>2, <2>3, TrialType DEF TryNext, TypeOK
<1>3. CASE EvalReports
  <2>1. latest' \in Report
    BY <1>0, <1>3, <1>p DEF EvalReports, TypeOK, KindOf, Kind, Report
  <2>2. QED
    BY <1>0, <1>3, <2>1 DEF EvalReports, TypeOK
<1>4. CASE EvalDies
  BY <1>0, <1>4 DEF EvalDies, TypeOK
<1>5. CASE TrialReads
  <2>1. got' \in Score
    BY <1>0, <1>5, BoundsAssumption DEF TrialReads, TypeOK, Report, Score
  <2>2. stale' \in BOOLEAN
    BY <1>0, <1>5 DEF TrialReads, TypeOK
  <2>3. QED
    BY <1>0, <1>5, <2>1, <2>2 DEF TrialReads, TypeOK
<1>6. CASE TrialRestores
  <2>1. [candidate |-> cur, score |-> got] \in Result
    BY <1>0 DEF TypeOK, Result
  <2>2. results' \in Seq(Result)
    BY <1>0, <1>6, <2>1 DEF TrialRestores, Returns, TypeOK
  <2>3. oracle' \in Score
    BY <1>0, <1>6 DEF TrialRestores, Returns, TypeOK
  <2>4. pc' \in {"next", "judge"}
    BY <1>6 DEF TrialRestores, Returns
  <2>5. QED
    BY <1>0, <1>6, <2>2, <2>3, <2>4 DEF TrialRestores, Returns, TypeOK
<1>7. CASE Validate
  <2>1. cfg \in Config
    BY <1>7, <1>p DEF Validate
  <2>2. CASE winner' \in Upcoming /\ Trial(winner', "winner")
    <3>1. winner' \in Candidate
      BY <1>0, <2>2, UpcomingType
    <3>2. QED
      BY <1>0, <1>7, <2>1, <2>2, <3>1, TrialType DEF Validate, TypeOK
  <2>3. CASE Trial(Baseline, "incumbent") /\ UNCHANGED winner
    BY <1>0, <1>7, <2>1, <2>3, BaselineType, TrialType DEF Validate, TypeOK
  <2>4. QED
    BY <1>7, <2>2, <2>3 DEF Validate
<1>8. CASE Discard
  BY <1>0, <1>8 DEF Discard, TypeOK
<1>9. CASE Persist
  BY <1>0, <1>9, AppliedType DEF Persist, TypeOK
<1>10. CASE ForeignReports
  <2>1. foreign' \in 0..MaxForeign
    BY <1>0, <1>10, BoundsAssumption DEF ForeignReports, TypeOK
  <2>2. {own', stale'} \subseteq BOOLEAN
    BY <1>0, <1>10 DEF ForeignReports, TypeOK
  <2>3. QED
    BY <1>0, <1>10, <2>1, <2>2 DEF ForeignReports, TypeOK
<1>11. CASE Interrupt
  BY <1>0, <1>11 DEF Interrupt, TypeOK
<1>12. CASE Kill
  BY <1>0, <1>12, BoundsAssumption DEF Kill, TypeOK
<1>13. CASE UNCHANGED vars
  BY <1>0, <1>13 DEF vars, TypeOK
<1>14. CASE TrialWriteFails
  <2>1. PICK c \in Upcoming : cfg' \in Left(cfg, Applied(cfg, c))
    BY <1>14 DEF TrialWriteFails
  <2>2. c \in Candidate /\ cfg \in Config
    BY <1>0, <1>p, <2>1, UpcomingType
  <2>3. cfg' \in Config \cup {Torn}
    BY <2>1, <2>2, AppliedType, LeftType
  <2>4. QED
    BY <1>0, <1>14, <2>3, BoundsAssumption DEF TrialWriteFails, TypeOK
<1>15. CASE EarlyInterrupt
  BY <1>0, <1>15, BoundsAssumption DEF EarlyInterrupt, TypeOK
<1>16. CASE TrialEnters
  BY <1>0, <1>16 DEF TrialEnters, TypeOK
<1>17. CASE RestoreFails
  <2>1. cfg' \in Config \cup {Torn}
    BY <1>0, <1>p, <1>17, LeftType DEF RestoreFails, TypeOK
  <2>2. QED
    BY <1>0, <1>17, <2>1, BoundsAssumption DEF RestoreFails, TypeOK
<1>18. CASE PersistFails
  <2>1. cfg' \in Config \cup {Torn}
    BY <1>0, <1>p, <1>18, AppliedType, LeftType DEF PersistFails, TypeOK
  <2>2. QED
    BY <1>0, <1>18, <2>1, BoundsAssumption DEF PersistFails, TypeOK
<1>19. QED
  BY <1>1, <1>2, <1>3, <1>4, <1>5, <1>6, <1>7, <1>8, <1>9, <1>10, <1>11, <1>12, <1>13,
     <1>14, <1>15, <1>16, <1>17, <1>18 DEF Next


LEMMA NextConfigInv == SweepInv /\ [Next]_vars => ConfigInv'
<1> SUFFICES ASSUME SweepInv, [Next]_vars PROVE ConfigInv'
  OBVIOUS
<1> USE DEF search, past, bounds, SweepInv, ConfigInv, Trying
<1>1. CASE Begin
  BY <1>1 DEF Begin
<1>2. CASE TryNext
  BY <1>2 DEF TryNext, Trial
<1>3. CASE EvalReports \/ EvalDies \/ TrialReads
  BY <1>3 DEF EvalReports, EvalDies, TrialReads
<1>4. CASE TrialRestores
  BY <1>4 DEF TrialRestores, Returns
<1>5. CASE Validate
  BY <1>5 DEF Validate, Trial
<1>6. CASE Discard
  BY <1>6 DEF Discard
<1>7. CASE Persist
  BY <1>7 DEF Persist
<1>8. CASE ForeignReports
  BY <1>8 DEF ForeignReports
<1>9. CASE Interrupt
  BY <1>9 DEF Interrupt
<1>10. CASE Kill
  <2>1. kills' # 0 /\ pc' = "idle"
    BY <1>10 DEF Kill, TypeOK
  <2>2. QED
    BY <2>1
<1>11. CASE UNCHANGED vars
  BY <1>11 DEF vars
<1>12. CASE TrialWriteFails \/ EarlyInterrupt \/ RestoreFails \/ PersistFails
  <2>1. cuts' # 0 /\ pc' = "idle"
    BY <1>12 DEF TrialWriteFails, EarlyInterrupt, RestoreFails, PersistFails, TypeOK
  <2>2. QED
    BY <2>1
<1>13. CASE TrialEnters
  BY <1>13 DEF TrialEnters
<1>14. QED
  BY <1>1, <1>2, <1>3, <1>4, <1>5, <1>6, <1>7, <1>8, <1>9, <1>10, <1>11, <1>12,
     <1>13 DEF Next

LEMMA NextScoreInv == SweepInv /\ [Next]_vars => ScoreInv'
<1> SUFFICES ASSUME SweepInv, [Next]_vars PROVE ScoreInv'
  OBVIOUS
<1> USE DEF search, past, bounds, SweepInv, ScoreInv, Trying
<1>1. CASE Begin
  BY <1>1 DEF Begin
<1>2. CASE TryNext
  BY <1>2 DEF TryNext, Trial
<1>3. CASE EvalReports
  <2>1. latest' \in graded' /\ latest'.of = cfg /\ latest'.kind = KindOf(stage)
    BY <1>3 DEF EvalReports
  <2>2. stage = "incumbent" => stale \/ Graded(Applied(incumbent, winner), "oracle", oracle)'
    BY <1>3 DEF EvalReports, Graded
  <2>3. QED
    BY <1>3, <2>1, <2>2 DEF EvalReports, KindOf
<1>4. CASE EvalDies
  BY <1>4 DEF EvalDies, Graded, KindOf
<1>5. CASE TrialReads
  <2>1. ~stale' => latest \in graded /\ latest.of = cfg /\ latest.kind = KindOf(stage)
    BY <1>5 DEF TrialReads
  <2>2. ~stale' => latest # NoReport
    BY <2>1, ReportAssumption DEF TypeOK
  <2>3. ~stale' => Graded(cfg, KindOf(stage), got)'
    BY <1>5, <2>1, <2>2 DEF TrialReads, Graded, KindOf
  <2>4. stage = "incumbent" => stale' \/ Graded(Applied(incumbent, winner), "oracle", oracle)'
    BY <1>5 DEF TrialReads, Graded
  <2>5. QED
    BY <1>5, <2>3, <2>4 DEF TrialReads
<1>6. CASE TrialRestores
  <2>1. stage # "search" => stale \/ Graded(cfg, "oracle", got)
    BY <1>6 DEF TrialRestores, KindOf
  <2>2. cfg = Applied(incumbent, cur) /\ incumbent \in Config
    BY <1>6 DEF TrialRestores, ConfigInv, TypeOK
  <2>3. stage = "winner" => stale \/ Graded(Applied(incumbent, winner), "oracle", got)
    BY <1>6, <2>1, <2>2 DEF TrialRestores
  <2>4. stage = "incumbent" => stale \/ Graded(incumbent, "oracle", got)
    BY <1>6, <2>1, <2>2, BaselineChangesNothing DEF TrialRestores
  <2>5. CASE stage = "search"
    BY <1>6, <2>5 DEF TrialRestores, Returns
  <2>6. CASE stage = "winner"
    BY <1>6, <2>6, <2>3 DEF TrialRestores, Returns, Graded
  <2>7. CASE stage = "incumbent"
    BY <1>6, <2>7, <2>4 DEF TrialRestores, Returns, Graded
  <2>8. QED
    BY <2>5, <2>6, <2>7 DEF TypeOK
<1>7. CASE Validate
  <2>1. CASE stage = "search"
    <3>1. pc' = "enter" /\ stage' = "winner" /\ cur' = winner' /\ own' = FALSE
      BY <1>7, <2>1 DEF Validate, Trial
    <3>2. QED
      BY <3>1
  <2>2. CASE stage = "winner"
    <3>1. /\ pc' = "enter" /\ stage' = "incumbent" /\ cur' = Baseline /\ own' = FALSE
          /\ UNCHANGED <<incumbent, winner, oracle, graded, stale>>
      BY <1>7, <2>2 DEF Validate, Trial
    <3>2. stale \/ Graded(Applied(incumbent, winner), "oracle", oracle)
      BY <1>7, <2>2 DEF Validate
    <3>3. stale' \/ Graded(Applied(incumbent, winner), "oracle", oracle)'
      BY <3>1, <3>2 DEF Graded
    <3>4. QED
      BY <3>1, <3>3
  <2>3. QED
    BY <1>7, <2>1, <2>2 DEF Validate
<1>8. CASE Discard
  BY <1>8 DEF Discard
<1>9. CASE Persist
  BY <1>9 DEF Persist
<1>10. CASE ForeignReports
  BY <1>10 DEF ForeignReports, Graded, KindOf
<1>11. CASE Interrupt
  BY <1>11 DEF Interrupt
<1>12. CASE Kill
  BY <1>12 DEF Kill
<1>13. CASE UNCHANGED vars
  BY <1>13 DEF vars, Graded, KindOf
<1>14. CASE TrialWriteFails \/ EarlyInterrupt \/ RestoreFails \/ PersistFails
  BY <1>14 DEF TrialWriteFails, EarlyInterrupt, RestoreFails, PersistFails
<1>15. CASE TrialEnters
  BY <1>15 DEF TrialEnters, Graded, KindOf
<1>16. QED
  BY <1>1, <1>2, <1>3, <1>4, <1>5, <1>6, <1>7, <1>8, <1>9, <1>10, <1>11, <1>12, <1>13,
     <1>14, <1>15 DEF Next

LEMMA Invariant == Spec => []SweepInv
<1>1. SweepInv /\ [Next]_vars => SweepInv'
  BY NextType, NextConfigInv, NextScoreInv DEF SweepInv
<1>2. QED
  BY InitInv, <1>1, PTL DEF Spec

\* Every variable keeps its type, and so does a config whose write was cut off.
THEOREM TypeCorrect == Spec => []TypeOK
<1>1. SweepInv => TypeOK
  BY DEF SweepInv
<1>2. QED
  BY Invariant, <1>1, PTL

\* However its trials end, a sweep gives the config back (sweep.py:167), if it is
\* not killed and its own writes of the config do not fail.
THEOREM RestoresConfig == Spec => []ConfigRestored
<1>1. SweepInv => ConfigRestored
  <2> SUFFICES ASSUME SweepInv, kills = 0, cuts = 0 PROVE ConfigRestored
    BY DEF ConfigRestored
  <2>1. CASE pc \in {"idle", "next", "judge"}
    BY <2>1 DEF ConfigRestored, SweepInv, ConfigInv
  <2>2. CASE Trying
    BY <2>2 DEF ConfigRestored, SweepInv, ConfigInv, Trying
  <2>3. QED
    BY <2>1, <2>2 DEF SweepInv, TypeOK, Trying
<1>2. QED
  BY Invariant, <1>1, PTL

\* What is adopted was graded in full, by the oracle, above what it replaces,
\* if every score was that of its own trial.
THEOREM AdoptsTheBetter == Spec => AdoptedIsBetter
<1> DEFINE Better ==
      base' # base =>
        \/ stale
        \/ \E a, b \in graded : /\ a.of = base' /\ b.of = incumbent
                                /\ a.kind = "oracle" /\ b.kind = "oracle"
                                /\ a.score > b.score
<1>1. SweepInv /\ [Next]_vars => Better
  <2> SUFFICES ASSUME SweepInv, [Next]_vars, base' # base, ~stale
               PROVE  \E a, b \in graded : /\ a.of = base' /\ b.of = incumbent
                                           /\ a.kind = "oracle" /\ b.kind = "oracle"
                                           /\ a.score > b.score
    OBVIOUS
  <2>1. Persist
    BY DEF Next, vars, past, Begin, TryNext, EvalReports, EvalDies, TrialReads, TrialRestores,
           Returns, Validate, Discard, ForeignReports, Interrupt, Kill,
           TrialWriteFails, EarlyInterrupt, TrialEnters, RestoreFails, PersistFails
  <2>2. /\ pc = "judge" /\ stage = "incumbent" /\ oracle > got
        /\ base' = Applied(incumbent, winner)
    BY <2>1 DEF Persist
  <2>3. PICK a \in graded : a.of = base' /\ a.kind = "oracle" /\ a.score = oracle
    BY <2>2 DEF SweepInv, ScoreInv, Graded
  <2>4. PICK b \in graded : b.of = incumbent /\ b.kind = "oracle" /\ b.score = got
    BY <2>2 DEF SweepInv, ScoreInv, Graded
  <2>5. a.score > b.score
    BY <2>2, <2>3, <2>4
  <2>6. QED
    BY <2>3, <2>4, <2>5
<1>2. Spec => [][Better]_vars
  BY Invariant, <1>1, PTL DEF Spec
<1>3. QED
  BY <1>2 DEF AdoptedIsBetter
=============================================================================
