------------------------------ MODULE Grading ------------------------------
(***************************************************************************)
(* scripts/eval.py with pipeline/query.py, judge.py, cache.py and          *)
(* budget.py: an eval answers each case and has the answer graded, by up   *)
(* to three calls of a language model.  Every call goes through a cache on *)
(* disk that all evals share, and what the verdicts cost is held against   *)
(* a budget.  At its end an eval may grade cases of the history again, to  *)
(* see whether the judge has drifted.                                      *)
(* A world says what a model replies, at a time, to a prompt: at           *)
(* temperature 0, and until its provider changes it, the same again.       *)
(***************************************************************************)
EXTENDS Integers, FiniteSets, Sequences

CONSTANTS
  Case,             \* the cases, and which of them are in seed.jsonl
  Seeds,
  Order,            \* the order in which _gather_cases lists them
  Sources(_),       \* the source_passages of a case: [path, first, last]
  TopK, DefaultK,   \* the values of --k; the one without it
  Retrieved(_, _),  \* what the pipeline retrieves for a case, in a view
  World,            \* the worlds
  Says(_, _, _),    \* what a world says, at a time, to a key
  Text,             \* the answers that a model gives
  NoText,           \* None: an answer that was not generated
  Garbage,          \* a reply with no JSON object, or without a valid score
  Bare,             \* a reply that is JSON but no object
  NoScore,          \* None
  Eval,             \* eval processes
  Options,          \* their command lines, and what the config says: the models
                    \* that can be reached, and the cache_ttl_hours (0: no cache)
  NoLimit,          \* no --budget-usd
  Weights,          \* judge_weights, in tenths
  Samples,          \* n_samples
  Times,            \* the hours at which things happen
  MaxVersion, MaxRuns, MaxFaults   \* bounds

Mode   == {"oracle", "prejudge"}
Score  == 0..2     \* halves
\* What decides which passages a case is answered with: the version of the
\* pipeline, and how many of them are asked for.
View   == [version : 0..MaxVersion, k : TopK]
\* For a prompt that shows none.
Unseen == [version |-> 0, k |-> DefaultK]
Prompt == [call : {"answer"}, case : Case, view : View, text : {NoText}]
          \cup [call : {"correctness", "faithfulness"}, case : Case,
                view : View, text : Text \cup {NoText}]
Key    == [model : Mode, prompt : Prompt]

ASSUME WorldAssumption ==
  \A w \in World, t \in Times, k \in Key :
    Says(w, t, k) \in IF k.prompt.call = "answer" THEN Text
                                                  ELSE Score \cup {Garbage, Bare}
ASSUME TimesAssumption == 0 \in Times /\ Times \subseteq Nat
ASSUME CasesAssumption ==
  /\ IsFiniteSet(Case) /\ Seeds \subseteq Case
  /\ Order \in Seq(Case) /\ Order # <<>>
  /\ \A c \in Case : IsFiniteSet(Sources(c)) /\ Cardinality(Sources(c)) <= 2
ASSUME RepliesAssumption == {Garbage, Bare, NoScore} \cap Score = {}
ASSUME OptionsAssumption ==
  /\ Options # {}
  /\ Options \subseteq [mode : Mode, reach : SUBSET Mode, limit : Nat \cup {NoLimit},
                        subset : Nat, drift : BOOLEAN, ttl : Nat, k : TopK]
ASSUME WeightsAssumption ==
  Weights \in [correctness : Nat, recall : Nat, faithfulness : Nat]
ASSUME VersionsAssumption == MaxVersion \in Nat
ASSUME TopKAssumption == DefaultK \in TopK

VARIABLES
  world,
  now,
  version,   \* of the pipeline: its code, its config, the index, the weights
  cache,     \* what is in .cache/llm: a function on some keys
  job,       \* the state of each eval process
  history,   \* the rows of the reports in reports/history
  latest,    \* of latest.json: the composites, and which cases have flipped
  runs, faults

gradingVars == <<world, now, version, cache, job, history, latest, runs, faults>>

\* An eval process: where it is, and whether it has to call for that; its
\* options; the cases and, for drift_check, the rows of the history that are
\* left; the case and, of drift_check, the row that it works on, and what it
\* has of its verdict; what it has so far.  paid and asked are history: the
\* tokens of the calls it made for its verdicts, and what it was told.
Idle == [at |-> "idle", miss |-> FALSE, opt |-> CHOOSE o \in Options : TRUE,
         todo |-> <<>>, sample |-> {}, case |-> CHOOSE c \in Case : TRUE,
         prior |-> {}, view |-> Unseen, text |-> NoText, correctness |-> NoScore,
         faithfulness |-> NoScore, tokens |-> 0, usd |-> 0, rows |-> {},
         disagree |-> {}, paid |-> 0, asked |-> {}]

GradingInit ==
  /\ world \in World
  /\ now = 0
  /\ version = 0
  /\ cache = [k \in {} |-> 0]
  /\ job = [e \in Eval |-> Idle]
  /\ history = {}
  /\ latest = [composite |-> [c \in {} |-> 0], flipped |-> {}]
  /\ runs = 0
  /\ faults = 0
-----------------------------------------------------------------------------
(* What is computed.                                                       *)

Overlaps(ref, hit) ==
  ref.path = hit.path /\ ~(hit.last < ref.first \/ hit.first > ref.last)

\* recall_at_5, in halves.
Recall(c, retrieved) ==
  LET found == {s \in Sources(c) :
                  \E i \in DOMAIN retrieved : i <= 5 /\ Overlaps(s, retrieved[i])}
  IN IF Sources(c) = {} THEN 2
     ELSE (2 * Cardinality(found)) \div Cardinality(Sources(c))

\* _parse_score_json and the checks of _grade.
Parsed(reply) == IF reply \in Score THEN reply ELSE NoScore

OrZero(score) == IF score = NoScore THEN 0 ELSE score

\* The composite of _make_verdict, in twentieths.
Composite(c, v, correctness, faithfulness) ==
  Weights.correctness * OrZero(correctness) + Weights.recall * Recall(c, Retrieved(v, c))
    + Weights.faithfulness * OrZero(faithfulness)

Pass(composite) == composite >= 12

\* select_informative_subset: first what has flipped, then what is nearest to
\* the mark, then what is not known; among equals, by a shuffle.
Rank(c) ==
  IF c \in latest.flipped THEN -1
  ELSE IF c \notin DOMAIN latest.composite THEN 100
  ELSE LET d == latest.composite[c] - 12 IN IF d < 0 THEN -d ELSE d

Orders(cases) ==
  {s \in [1..Cardinality(cases) -> cases] : {s[i] : i \in DOMAIN s} = cases}

Selected(n) ==
  {SubSeq(s, 1, IF n < Len(s) THEN n ELSE Len(s)) : s \in {s \in Orders(Case) :
     \A i, j \in DOMAIN s : i < j => Rank(s[i]) <= Rank(s[j])}}

\* Mutation: the key leaves the model out.
PromptOnly(m, p) == [model |-> "oracle", prompt |-> p]

HashKey(m, p) == [model |-> m, prompt |-> p]

\* _read_entry: an entry that is not too old.
Entry(key, ttl) ==
  IF key \in DOMAIN cache /\ now - cache[key].at <= ttl THEN {cache[key]} ELSE {}
-----------------------------------------------------------------------------
(* The steps of an eval, as functions of its state.                        *)

Drifting(j) == j.prior # {}
JudgeMode(j) == IF Drifting(j) THEN "oracle" ELSE j.opt.mode

\* The model that the config names for a call cannot be reached without a key,
\* or a URL.
Reaches(j, mode) == mode \in j.opt.reach
AfterAnswer(j) == IF Reaches(j, JudgeMode(j)) THEN "correctness" ELSE "verdict"

\* query.answer: the retrieval, of as many passages as the eval's --k says, but
\* of the default number for drift_check; and the call if there is a key for it.
Takes(j, c, prior) ==
  LET n == IF prior = {} THEN j.opt.k ELSE DefaultK
      k == [j EXCEPT !.case = c, !.prior = prior, !.view = [version |-> version, k |-> n],
                     !.text = NoText, !.correctness = NoScore, !.faithfulness = NoScore,
                     !.tokens = 0, !.asked = {}]
  IN [k EXCEPT !.at = IF Reaches(k, "oracle") THEN "answer" ELSE AfterAnswer(k)]

NextCase(j)  == Takes([j EXCEPT !.todo = Tail(@)], Head(j.todo), {})
NextPrior(j) ==
  IF j.sample = {} THEN [j EXCEPT !.at = "report", !.prior = {}]
  ELSE LET r == CHOOSE r \in j.sample : TRUE
       IN  Takes([j EXCEPT !.sample = @ \ {r}], r.case, {r})

\* An exception ends the eval, and there is no report; drift_check goes on.
Raises(j) == IF Drifting(j) THEN NextPrior(j) ELSE Idle

Scored(j, reply) ==
  IF j.at = "correctness" THEN [j EXCEPT !.correctness = Parsed(reply), !.at = "faithfulness"]
                          ELSE [j EXCEPT !.faithfulness = Parsed(reply), !.at = "verdict"]

\* Mutation: a reply that does not parse has no tokens.
GradedOnly(j, reply, tokens) ==
  IF reply = Bare THEN Raises(j)
  ELSE Scored([j EXCEPT !.tokens = IF reply = Garbage THEN @ ELSE @ + tokens], reply)

\* _grade
Graded(j, reply, tokens) ==
  IF reply = Bare THEN Raises(j) ELSE Scored([j EXCEPT !.tokens = @ + tokens], reply)

Calling(j) == j.at \in {"answer", "correctness", "faithfulness"}
ModelOf(j) == IF j.at = "answer" THEN "oracle" ELSE JudgeMode(j)

\* The prompt for correctness shows no passages.
PromptOf(j) ==
  [call |-> j.at, case |-> j.case,
   view |-> IF j.at = "correctness" THEN Unseen ELSE j.view,
   text |-> IF j.at = "answer" THEN NoText ELSE j.text]

\* A call has a reply, from the model or from the cache.
Hears(j, reply) ==
  LET key == [model |-> ModelOf(j), prompt |-> PromptOf(j)]
      k == [j EXCEPT !.miss = FALSE,
                     !.asked = @ \cup {[key |-> key, reply |-> reply, time |-> now]}]
  IN IF j.at = "answer" THEN [k EXCEPT !.text = reply, !.at = AfterAnswer(j)]
     ELSE Graded(k, reply, 1)

\* estimate_usd: what the local judge does costs nothing.
Usd(mode, tokens) == IF mode = "prejudge" THEN 0 ELSE tokens

Hit(j) == j.opt.limit # NoLimit /\ j.usd >= j.opt.limit

CompositeOf(j) == Composite(j.case, j.view, j.correctness, j.faithfulness)

\* The verdict of a case: its row, its cost, and whether that was the last.
Counted(j) ==
  LET row == [case |-> j.case, mode |-> j.opt.mode, view |-> j.view,
              composite |-> CompositeOf(j),
              full |-> NoScore \notin {j.correctness, j.faithfulness}]
      k == [j EXCEPT !.rows = @ \cup {row}, !.usd = @ + Usd(j.opt.mode, j.tokens)]
  IN IF j.todo # <<>> /\ ~Hit(k) THEN NextCase(k)
     ELSE [k EXCEPT !.at = IF j.opt.drift THEN "drift" ELSE "report"]

Differs(a, b) == a - b > 2 \/ b - a > 2

\* Mutation: a verdict without a score is compared, too.
MiscountsAll(j, r) == Differs(CompositeOf(j), r.composite)

Disagrees(j, r) ==
  NoScore \notin {j.correctness, j.faithfulness} /\ Differs(CompositeOf(j), r.composite)

\* The verdict of a row of the history, which does not count without a score.
Compared(j) ==
  LET again == {[prior |-> r, view |-> j.view] : r \in {r \in j.prior : Disagrees(j, r)}}
  IN  NextPrior([j EXCEPT !.disagree = @ \cup again])
-----------------------------------------------------------------------------
Becomes(e, j) == job' = [job EXCEPT ![e] = j]

\* main up to the loop over the cases.
Start(e) ==
  /\ job[e].at = "idle"
  /\ runs < MaxRuns
  /\ runs' = runs + 1
  /\ \E o \in Options :
       \E todo \in IF o.subset = 0 THEN {Order}
                                   ELSE Selected(o.subset) :
         Becomes(e, NextCase([Idle EXCEPT !.opt = o, !.todo = todo]))
  /\ UNCHANGED <<world, now, version, cache, history, latest, faults>>

\* cached_call finds an entry, which carries the tokens of the call ...
CacheHit(e) ==
  LET j == job[e] IN
  /\ Calling(j) /\ ~j.miss /\ j.opt.ttl > 0
  /\ \E entry \in Entry(HashKey(ModelOf(j), PromptOf(j)), j.opt.ttl) :
       Becomes(e, Hears(j, entry.reply))
  /\ UNCHANGED <<world, now, version, cache, history, latest, runs, faults>>

\* ... or does not, or is not asked ...
CacheMiss(e) ==
  LET j == job[e] IN
  /\ Calling(j) /\ ~j.miss
  /\ j.opt.ttl > 0 => Entry(HashKey(ModelOf(j), PromptOf(j)), j.opt.ttl) = {}
  /\ Becomes(e, [j EXCEPT !.miss = TRUE])
  /\ UNCHANGED <<world, now, version, cache, history, latest, runs, faults>>

\* ... and the model is called, and its reply is written to the cache, which
\* may fail.
CallReplies(e) ==
  LET j     == job[e]
      model == ModelOf(j)
      reply == Says(world, now, [model |-> model, prompt |-> PromptOf(j)])
      entry == [reply |-> reply, at |-> now]
      key   == HashKey(model, PromptOf(j))
      charge == IF j.at = "answer" \/ Drifting(j) THEN 0 ELSE Usd(model, 1)
  IN
  /\ j.miss
  /\ \/ j.opt.ttl = 0 /\ UNCHANGED <<cache, faults>>
     \/ /\ j.opt.ttl > 0
        /\ cache' = [k \in DOMAIN cache \cup {key} |-> IF k = key THEN entry ELSE cache[k]]
        /\ UNCHANGED faults
     \/ /\ j.opt.ttl > 0
        /\ faults < MaxFaults
        /\ faults' = faults + 1
        /\ UNCHANGED cache
  /\ Becomes(e, Hears([j EXCEPT !.paid = @ + charge], reply))
  /\ UNCHANGED <<world, now, version, history, latest, runs>>

\* The call raises.  _grade catches that.
CallFails(e) ==
  LET j == job[e] IN
  /\ j.miss
  /\ faults < MaxFaults
  /\ faults' = faults + 1
  /\ Becomes(e, IF j.at = "answer" THEN Raises([j EXCEPT !.miss = FALSE])
                ELSE Graded([j EXCEPT !.miss = FALSE], Garbage, 0))
  /\ UNCHANGED <<world, now, version, cache, history, latest, runs>>

Verdict(e) ==
  /\ job[e].at = "verdict"
  /\ Becomes(e, IF Drifting(job[e]) THEN Compared(job[e]) ELSE Counted(job[e]))
  /\ UNCHANGED <<world, now, version, cache, history, latest, runs, faults>>

\* drift_check samples the rows of the oracle; those of cases that are not in
\* seed.jsonl are skipped.
Sample(e) ==
  LET pool == {r \in history : r.mode = "oracle"} IN
  /\ job[e].at = "drift"
  /\ \E sample \in SUBSET pool :
       /\ Cardinality(sample) = IF Cardinality(pool) < Samples THEN Cardinality(pool)
                                                              ELSE Samples
       /\ Becomes(e, NextPrior([job[e] EXCEPT !.sample = {r \in sample : r.case \in Seeds}]))
  /\ UNCHANGED <<world, now, version, cache, history, latest, runs, faults>>

\* build_report and write_report.
Report(e) ==
  LET rows  == job[e].rows
      cases == {r.case : r \in rows}
      new   == [c \in cases |-> (CHOOSE r \in rows : r.case = c).composite]
  IN
  /\ job[e].at = "report"
  /\ history' = history \cup rows
  /\ latest' = [composite |-> new,
                flipped |-> {c \in cases \cap DOMAIN latest.composite :
                               Pass(latest.composite[c]) # Pass(new[c])}]
  /\ Becomes(e, [job[e] EXCEPT !.at = "idle"])
  /\ UNCHANGED <<world, now, version, cache, runs, faults>>

Tick ==
  /\ now' \in {t \in Times : t > now}
  /\ UNCHANGED <<world, version, cache, job, history, latest, runs, faults>>

\* The blue team or the user changes what the pipeline does.
Change ==
  /\ version < MaxVersion
  /\ version' = version + 1
  /\ UNCHANGED <<world, now, cache, job, history, latest, runs, faults>>

GradingNext ==
  \/ \E e \in Eval : \/ Start(e) \/ CacheHit(e) \/ CacheMiss(e) \/ CallReplies(e)
                     \/ CallFails(e) \/ Verdict(e) \/ Sample(e) \/ Report(e)
  \/ Tick
  \/ Change

GradingSpec == GradingInit /\ [][GradingNext]_gradingVars
-----------------------------------------------------------------------------
(* Properties.                                                             *)

\* What an eval was told is what that model says to that very prompt, or said
\* within the TTL, whoever asked it then.
VerdictsGenuine ==
  \A e \in Eval : \A a \in job[e].asked :
    \E t \in Times : a.time - job[e].opt.ttl <= t /\ t <= a.time /\ Says(world, t, a.key) = a.reply

\* An eval under a budget does not pay more for its verdicts than the budget
\* and what the last case takes it over it, whatever the replies were.
BudgetHolds ==
  \A e \in Eval :
    LET limit == job[e].opt.limit
    IN  limit # NoLimit /\ limit > 0 => job[e].paid < limit + 2

\* drift_check reports a disagreement only with a verdict that had both its
\* scores, if neither the pipeline has changed since nor what a model replies
\* about the case: "skip rather than miscount" (judge.py:208).  But the row of an
\* eval that was given a --k is compared with an answer from other passages.
DriftGenuine ==
  \A e \in Eval : \A d \in job[e].disagree :
    \/ ~d.prior.full
    \/ d.view # d.prior.view
    \/ \E t, u \in Times, k \in Key :
         k.prompt.case = d.prior.case /\ Says(world, t, k) # Says(world, u, k)
=============================================================================
