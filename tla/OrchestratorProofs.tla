-------------------------- MODULE OrchestratorProofs --------------------------
(***************************************************************************)
(* What _converged computes, for every history, window and threshold; and  *)
(* what the loop, its evals and latest.json do together, for every number  *)
(* of runs, evals, cases and scores: the types, the reports, the halts.    *)
(* The induction theorems of the library take an operator as a parameter;  *)
(* WFMin does not, and gives the facts about folds that the sums and means *)
(* of the model need.                                                      *)
(***************************************************************************)
EXTENDS Orchestrator, FiniteSetTheorems, SequenceTheorems, WellFoundedInduction,
        TLAPS
-----------------------------------------------------------------------------
(* Induction over numbers and over finite sets, and what a fold adds up.   *)

\* The library's induction theorems take an operator; this is the principle
\* of the least element, from which an induction over a set of numbers follows.
LEMMA Least == \A T \in SUBSET Nat : T # {} => \E x \in T : \A y \in T : x <= y
<1> DEFINE R == {ss \in Nat \X Nat : ss[1] < ss[2]}
<1>1. IsWellFoundedOn(R, Nat)
  BY NatLessThanWellFounded DEF OpToRel
<1>2. \A a, b \in Nat : <<a, b>> \notin R => b <= a
  OBVIOUS
<1> HIDE DEF R
<1>3. ASSUME NEW T \in SUBSET Nat, T # {} PROVE \E x \in T : \A y \in T : x <= y
  <2>1. \E x \in T : \A y \in T : ~ (<<y, x>> \in R)
    BY <1>1, <1>3, WFMin
  <2> QED BY <2>1, <1>2
<1> QED BY <1>3

\* A set of numbers with 0 and the successor of each of its members is Nat.
LEMMA Induct ==
  ASSUME NEW I \in SUBSET Nat, 0 \in I, \A n \in I : n + 1 \in I
  PROVE  I = Nat
<1> SUFFICES ASSUME Nat \ I # {} PROVE FALSE
  OBVIOUS
<1>1. PICK m \in Nat \ I : \A y \in Nat \ I : m <= y
  BY Least
<1>2. m # 0 /\ m - 1 \in Nat
  OBVIOUS
<1>3. m - 1 \in I
  BY <1>1, <1>2
<1>4. (m - 1) + 1 = m
  BY <1>2
<1> QED
  BY <1>3, <1>4

Pick(s) == CHOOSE x \in s : TRUE
Added(f, g, s) == IF s = {} THEN 0 ELSE f[Pick(s)] + g[s \ {Pick(s)}]
SumFcn(f, S) == CHOOSE g : g = [s \in SUBSET S |-> Added(f, g, s)]
Total(f, S) == FoldFunctionOnSet(+, 0, f, S)

LEMMA TotalIs == \A f, S : Total(f, S) = SumFcn(f, S)[S]
BY DEF Total, FoldFunctionOnSet, MapThenFoldSet, SumFcn, Added, Pick

LEMMA PickIn == \A s : s # {} => Pick(s) \in s
BY DEF Pick

\* The subsets with at most n elements.
Small(S, n) == {s \in SUBSET S : Cardinality(s) <= n}

LEMMA Removed ==
  ASSUME NEW s, IsFiniteSet(s), NEW x \in s
  PROVE  /\ IsFiniteSet(s \ {x}) /\ Cardinality(s) \in Nat \ {0}
         /\ Cardinality(s \ {x}) = Cardinality(s) - 1
BY FS_RemoveElement, FS_CardinalityType, FS_EmptySet

\* FoldFunctionOnSet chooses a function that satisfies an equation; there is one,
\* as there is one for the subsets with at most n elements, for every n.
LEMMA SumFcnExists ==
  ASSUME NEW f, NEW S, IsFiniteSet(S)
  PROVE  SumFcn(f, S) = [s \in SUBSET S |-> Added(f, SumFcn(f, S), s)]
<1> DEFINE I == {n \in Nat : \E g : g = [s \in Small(S, n) |-> Added(f, g, s)]}
<1>1. 0 \in I
  <2> DEFINE g == [s \in Small(S, 0) |-> 0]
  <2>1. \A s \in Small(S, 0) : s = {}
    BY FS_Subset, FS_EmptySet, FS_CardinalityType DEF Small
  <2>2. \A s \in Small(S, 0) : Added(f, g, s) = 0
    BY <2>1 DEF Added
  <2> HIDE DEF g
  <2>3. g = [s \in Small(S, 0) |-> Added(f, g, s)]
    BY <2>2 DEF g
  <2> QED
    BY <2>3
<1>2. ASSUME NEW n \in I PROVE n + 1 \in I
  <2>1. PICK h : h = [s \in Small(S, n) |-> Added(f, h, s)]
    OBVIOUS
  <2> DEFINE g == [s \in Small(S, n + 1) |-> Added(f, h, s)]
  <2>2. n \in Nat
    OBVIOUS
  <2>3. ASSUME NEW s \in Small(S, n + 1) PROVE Added(f, h, s) = Added(f, g, s)
    <3>1. CASE s = {}
      BY <3>1 DEF Added
    <3>2. CASE s # {}
      <4> DEFINE t == s \ {Pick(s)}
      <4>1. t \in Small(S, n) /\ t \in Small(S, n + 1)
        <5>1. IsFiniteSet(s) /\ Pick(s) \in s /\ s \in SUBSET S /\ Cardinality(s) <= n + 1
          BY <3>2, FS_Subset, PickIn DEF Small
        <5>2. Cardinality(t) = Cardinality(s) - 1 /\ Cardinality(s) \in Nat
          BY <5>1, Removed
        <5> QED
          BY <5>1, <5>2, <2>2 DEF Small
      <4>2. h[t] = Added(f, h, t) /\ g[t] = Added(f, h, t)
        BY <4>1, <2>1
      <4> QED
        BY <4>2, <3>2 DEF Added
    <3> QED
      BY <3>1, <3>2
  <2> HIDE DEF g
  <2>4. g = [s \in Small(S, n + 1) |-> Added(f, g, s)]
    BY <2>3 DEF g
  <2> QED
    BY <2>2, <2>4
<1>3. Cardinality(S) \in I
  <2> HIDE DEF I
  <2>1. I \in SUBSET Nat
    BY DEF I
  <2> QED
    BY <1>1, <1>2, <2>1, Induct, FS_CardinalityType
<1>4. Small(S, Cardinality(S)) = SUBSET S
  BY FS_Subset DEF Small
<1> QED
  BY <1>3, <1>4 DEF SumFcn

LEMMA SumFcnAt ==
  ASSUME NEW f, NEW S, IsFiniteSet(S), NEW s \in SUBSET S
  PROVE  SumFcn(f, S)[s] = Added(f, SumFcn(f, S), s)
<1> DEFINE g == SumFcn(f, S)
<1>1. g = [r \in SUBSET S |-> Added(f, g, r)]
  BY SumFcnExists
<1> HIDE DEF g
<1>2. g[s] = Added(f, g, s)
  BY <1>1
<1> QED
  BY <1>2 DEF g

\* What holds of a set as soon as it holds of the set without any one of its
\* elements, holds of every finite set.
LEMMA SetInduct ==
  ASSUME NEW S, IsFiniteSet(S), NEW G,
         \A s \in SUBSET S : (\A x \in s : s \ {x} \in G) => s \in G
  PROVE  S \in G
<1> DEFINE I == {n \in Nat : \A s \in Small(S, n) : s \in G}
<1>1. 0 \in I
  <2>1. \A s \in Small(S, 0) : s = {}
    BY FS_Subset, FS_EmptySet, FS_CardinalityType DEF Small
  <2> QED
    BY <2>1
<1>2. ASSUME NEW n \in I PROVE n + 1 \in I
  <2>1. n \in Nat
    OBVIOUS
  <2>2. ASSUME NEW s \in Small(S, n + 1), NEW x \in s PROVE s \ {x} \in G
    <3>1. IsFiniteSet(s) /\ Cardinality(s) <= n + 1 /\ s \in SUBSET S
      BY FS_Subset DEF Small
    <3>2. s \ {x} \in Small(S, n)
      BY <2>1, <3>1, Removed DEF Small
    <3> QED
      BY <3>2
  <2>3. \A s \in Small(S, n + 1) : s \in G
    BY <2>2 DEF Small
  <2> QED
    BY <2>1, <2>3
<1>3. Cardinality(S) \in I
  <2> HIDE DEF I
  <2>1. I \in SUBSET Nat
    BY DEF I
  <2> QED
    BY <1>1, <1>2, <2>1, Induct, FS_CardinalityType
<1>4. S \in Small(S, Cardinality(S))
  BY FS_CardinalityType DEF Small
<1> QED
  BY <1>3, <1>4

\* The sum over a set does not depend on what it is a part of.
LEMMA SumFcnAgrees ==
  ASSUME NEW f, NEW S, IsFiniteSet(S), NEW T \in SUBSET S
  PROVE  SumFcn(f, S)[T] = SumFcn(f, T)[T]
<1> DEFINE G == {s \in SUBSET T : SumFcn(f, S)[s] = SumFcn(f, T)[s]}
<1>0. IsFiniteSet(T)
  BY FS_Subset
<1>1. ASSUME NEW s \in SUBSET T, \A x \in s : s \ {x} \in G PROVE s \in G
  <2>1. /\ SumFcn(f, S)[s] = Added(f, SumFcn(f, S), s)
        /\ SumFcn(f, T)[s] = Added(f, SumFcn(f, T), s)
    BY <1>0, SumFcnAt
  <2>2. Added(f, SumFcn(f, S), s) = Added(f, SumFcn(f, T), s)
    BY <1>1, PickIn DEF Added
  <2> QED
    BY <2>1, <2>2
<1> HIDE DEF G
<1>2. T \in G
  BY <1>0, <1>1, SetInduct
<1> QED
  BY <1>2 DEF G

\* The equation of the sum, ...
LEMMA TotalPick ==
  ASSUME NEW f, NEW S, IsFiniteSet(S)
  PROVE  /\ S = {} => Total(f, S) = 0
         /\ S # {} => Total(f, S) = f[Pick(S)] + Total(f, S \ {Pick(S)})
<1>1. Total(f, S) = Added(f, SumFcn(f, S), S)
  BY TotalIs, SumFcnAt
<1>2. ASSUME S # {} PROVE SumFcn(f, S)[S \ {Pick(S)}] = Total(f, S \ {Pick(S)})
  BY TotalIs, SumFcnAgrees
<1> QED
  BY <1>1, <1>2 DEF Added

LEMMA TotalType ==
  ASSUME NEW f, NEW S, IsFiniteSet(S), \A x \in S : f[x] \in Int
  PROVE  Total(f, S) \in Int
<1> DEFINE G == {s \in SUBSET S : Total(f, s) \in Int}
<1>1. ASSUME NEW s \in SUBSET S, \A x \in s : s \ {x} \in G PROVE s \in G
  <2>1. IsFiniteSet(s)
    BY FS_Subset
  <2>2. CASE s = {}
    <3>1. Total(f, s) = 0
      BY <2>1, <2>2, TotalPick
    <3> QED
      BY <3>1
  <2>3. CASE s # {}
    <3>1. Pick(s) \in s
      BY <2>3, PickIn
    <3>2. Total(f, s) = f[Pick(s)] + Total(f, s \ {Pick(s)})
      BY <2>1, <2>3, TotalPick
    <3> QED
      BY <1>1, <3>1, <3>2
  <2> QED
    BY <2>2, <2>3
<1> HIDE DEF G
<1>2. S \in G
  BY <1>1, SetInduct
<1> QED
  BY <1>2 DEF G

\* ... which holds whichever element is taken out first.
LEMMA TotalTakes ==
  ASSUME NEW f, NEW S, IsFiniteSet(S), \A x \in S : f[x] \in Int, NEW y \in S
  PROVE  Total(f, S) = f[y] + Total(f, S \ {y})
<1> DEFINE G == {s \in SUBSET S : \A z \in s : Total(f, s) = f[z] + Total(f, s \ {z})}
<1>1. ASSUME NEW s \in SUBSET S, \A x \in s : s \ {x} \in G PROVE s \in G
  <2>1. IsFiniteSet(s)
    BY FS_Subset
  <2>2. ASSUME NEW z \in s PROVE Total(f, s) = f[z] + Total(f, s \ {z})
    <3> DEFINE p == Pick(s)
               r == s \ {p, z}
    <3>1. p \in s /\ Total(f, s) = f[p] + Total(f, s \ {p})
      BY <2>1, TotalPick, PickIn
    <3>2. CASE z # p
      <4>1. (s \ {p}) \ {z} = r /\ (s \ {z}) \ {p} = r /\ z \in s \ {p} /\ p \in s \ {z}
        BY <3>1, <3>2
      <4>2. Total(f, s \ {p}) = f[z] + Total(f, r) /\ Total(f, s \ {z}) = f[p] + Total(f, r)
        BY <1>1, <3>1, <4>1
      <4>3. Total(f, r) \in Int
        <5>1. IsFiniteSet(r) /\ r \in SUBSET S
          BY <2>1, FS_Subset
        <5> QED
          BY <5>1, TotalType
      <4>4. f[z] \in Int /\ f[p] \in Int
        BY <3>1
      <4> HIDE DEF p, r
      <4> QED
        BY <3>1, <4>2, <4>3, <4>4
    <3> QED
      BY <3>1, <3>2
  <2> QED
    BY <2>2
<1> HIDE DEF G
<1>2. S \in G
  BY <1>1, SetInduct
<1> QED
  BY <1>2 DEF G

\* A sum depends only on the values that are added up.
LEMMA TotalSame ==
  ASSUME NEW f, NEW g, NEW S, IsFiniteSet(S), \A x \in S : f[x] = g[x]
  PROVE  Total(f, S) = Total(g, S)
<1> DEFINE G == {s \in SUBSET S : Total(f, s) = Total(g, s)}
<1>1. ASSUME NEW s \in SUBSET S, \A x \in s : s \ {x} \in G PROVE s \in G
  <2>1. IsFiniteSet(s)
    BY FS_Subset
  <2>2. CASE s = {}
    BY <2>1, <2>2, TotalPick
  <2>3. CASE s # {}
    <3>1. Pick(s) \in s
      BY <2>3, PickIn
    <3>2. /\ Total(f, s) = f[Pick(s)] + Total(f, s \ {Pick(s)})
          /\ Total(g, s) = g[Pick(s)] + Total(g, s \ {Pick(s)})
      BY <2>1, <2>3, TotalPick
    <3> QED
      BY <1>1, <3>1, <3>2
  <2> QED
    BY <2>2, <2>3
<1> HIDE DEF G
<1>2. S \in G
  BY <1>1, SetInduct
<1> QED
  BY <1>2 DEF G

\* The sum of n percentages; then their mean.
LEMMA TotalBound ==
  ASSUME NEW f, NEW S, IsFiniteSet(S), \A x \in S : f[x] \in 0..100
  PROVE  Total(f, S) \in 0..(100 * Cardinality(S))
<1> DEFINE G == {s \in SUBSET S : Total(f, s) \in 0..(100 * Cardinality(s))}
<1>1. ASSUME NEW s \in SUBSET S, \A x \in s : s \ {x} \in G PROVE s \in G
  <2>1. IsFiniteSet(s)
    BY FS_Subset
  <2>2. CASE s = {}
    <3>1. Total(f, s) = 0 /\ Cardinality(s) = 0
      BY <2>1, <2>2, TotalPick, FS_EmptySet
    <3> QED
      BY <3>1
  <2>3. CASE s # {}
    <3> DEFINE p == Pick(s)
               t == Total(f, s \ {p})
               c == Cardinality(s)
    <3>1. p \in s /\ Total(f, s) = f[p] + t /\ f[p] \in 0..100
      BY <2>1, <2>3, TotalPick, PickIn
    <3>2. c \in Nat \ {0} /\ Cardinality(s \ {p}) = c - 1
      BY <2>1, <3>1, Removed
    <3>3. t \in 0..(100 * (c - 1))
      BY <1>1, <3>1, <3>2
    <3> HIDE DEF p, t, c
    <3>4. Total(f, s) \in 0..(100 * c)
      BY <3>1, <3>2, <3>3
    <3> QED
      BY <3>4 DEF c
  <2> QED
    BY <2>2, <2>3
<1> HIDE DEF G
<1>2. S \in G
  BY <1>1, SetInduct
<1> QED
  BY <1>2 DEF G

LEMMA DivBound ==
  ASSUME NEW n \in Nat \ {0}, NEW a \in 0..(100 * n)
  PROVE  a \div n \in 0..100
  OBVIOUS
-----------------------------------------------------------------------------
(* The stop criteria.                                                      *)

\* A slice that the sequence can fill has its last n elements.
LEMMA LastOfFits ==
  ASSUME NEW seq \in Seq(Int), NEW n \in 1..Len(seq)
  PROVE  /\ LastOf(seq, n) \in Seq(Int)
         /\ Len(LastOf(seq, n)) = n
         /\ \A k \in 1..n : LastOf(seq, n)[k] = seq[Len(seq) - n + k]
<1> DEFINE from == IF n < Len(seq) THEN Len(seq) - n + 1 ELSE 1
<1>1. from = Len(seq) - n + 1 /\ from \in 1..Len(seq) /\ Len(seq) \in Nat
  OBVIOUS
<1>2. LastOf(seq, n) = SubSeq(seq, from, Len(seq))
  BY DEF LastOf
<1> HIDE DEF from
<1>3. /\ LastOf(seq, n) \in Seq(Int)
      /\ Len(LastOf(seq, n)) = Len(seq) - from + 1
  BY <1>1, <1>2
<1>4. \A k \in 1..(Len(seq) - from + 1) :
        LastOf(seq, n)[k] = seq[from + k - 1]
  BY <1>1, <1>2
<1>5. Len(seq) - from + 1 = n /\ \A k \in 1..n : from + k - 1 = Len(seq) - n + k
  BY <1>1
<1> QED
  BY <1>3, <1>4, <1>5

\* A slice that is wider than the sequence is the sequence.
LEMMA LastOfShort ==
  ASSUME NEW seq \in Seq(Int), NEW n \in Nat, Len(seq) < n
  PROVE  LastOf(seq, n) \in Seq(Int) /\ Len(LastOf(seq, n)) = Len(seq)
<1> DEFINE from == IF n < Len(seq) THEN Len(seq) - n + 1 ELSE 1
<1>1. from = 1 /\ Len(seq) \in Nat
  OBVIOUS
<1>2. LastOf(seq, n) = SubSeq(seq, from, Len(seq))
  BY DEF LastOf
<1> HIDE DEF from
<1> QED
  BY <1>1, <1>2

\* evaluate() answers "convergence" on exactly the histories that end in a
\* plateau: neither the slice of the history nor the length test lets a short,
\* wide or falling series through (pipeline/stop_criteria.py:81-93).
THEOREM ConvergedIsPlateau ==
  ASSUME NEW cfg, cfg.window \in Nat, cfg.threshold \in Int,
         NEW hist \in Seq(Int), NEW mean \in Int
  PROVE  Converged(cfg, mean, hist)
           <=> Plateau(cfg, Append(hist, mean))
<1> DEFINE w      == cfg.window
           all    == Append(hist, mean)
           n      == Len(hist)
           last   == LastOf(hist, w - 1)
           series == Append(last, mean)
<1>1. all \in Seq(Int) /\ Len(all) = n + 1 /\ n \in Nat /\ w \in Nat
  OBVIOUS
<1>2. CASE w <= 1
  BY <1>2, <1>1 DEF Converged, Plateau
<1>3. CASE w > 1 /\ n < w - 1
  <2>1. last \in Seq(Int) /\ Len(last) = n
    BY <1>1, <1>3, LastOfShort
  <2>2. Len(series) = n + 1
    BY <2>1
  <2>3. ~Converged(cfg, mean, hist)
    BY <2>2, <1>1, <1>3 DEF Converged
  <2>4. ~Plateau(cfg, all)
    BY <1>1, <1>3 DEF Plateau
  <2> QED
    BY <2>3, <2>4
<1>4. CASE w > 1 /\ n >= w - 1
  <2>1. /\ last \in Seq(Int)
        /\ Len(last) = w - 1
        /\ \A k \in 1..(w - 1) : last[k] = hist[n - (w - 1) + k]
    <3>1. w - 1 \in 1..Len(hist)
      BY <1>1, <1>4
    <3> QED
      BY <3>1, LastOfFits
  <2>2. series \in Seq(Int) /\ Len(series) = w
    BY <2>1, <1>4
  <2>3. Converged(cfg, mean, hist)
          <=> \A k \in 2..w : Abs(series[k] - series[k-1]) < cfg.threshold
    <3>1. Converged(cfg, mean, hist)
            <=> /\ w > 1
                /\ Len(series) >= w
                /\ \A k \in 2..Len(series) :
                     Abs(series[k] - series[k-1]) < cfg.threshold
      BY Zenon DEF Converged
    <3>2. Len(series) = w /\ w > 1
      BY <2>2, <1>4
    <3> HIDE DEF series
    <3> QED
      BY <3>1, <3>2, <1>1
  <2>4. Plateau(cfg, all)
          <=> \A k \in 1..(w - 1) :
                Abs(all[n + 1 - k + 1] - all[n + 1 - k]) < cfg.threshold
    <3>1. w \in 2..(n + 1) /\ cfg.window = w /\ Len(all) = n + 1
      BY <1>1, <1>4
    <3>2. Plateau(cfg, all)
            <=> \A k \in 1..(cfg.window - 1) :
                  Abs(all[Len(all) - k + 1] - all[Len(all) - k]) < cfg.threshold
      <4>1. cfg.window \in 2..Len(all)
        BY <3>1
      <4> HIDE DEF all, n, w
      <4> QED
        BY <4>1 DEF Plateau
    <3>3. 1..(cfg.window - 1) = 1..(w - 1)
      BY <3>1
    <3>4. ASSUME NEW k \in 1..(w - 1)
          PROVE  /\ Len(all) - k + 1 = n + 1 - k + 1
                 /\ Len(all) - k = n + 1 - k
      BY <3>1
    <3> HIDE DEF all, n, w
    <3>5. ASSUME NEW k \in 1..(w - 1)
          PROVE  /\ all[Len(all) - k + 1] = all[n + 1 - k + 1]
                 /\ all[Len(all) - k] = all[n + 1 - k]
      BY <3>4
    <3> QED
      BY <3>2, <3>3, <3>5
  <2>5. \A k \in 1..(w - 1) : all[n + 1 - w + k] = hist[n - (w - 1) + k]
    BY <1>1, <1>4
  <2>6. /\ \A k \in 1..(w - 1) : series[k] = last[k]
        /\ series[w] = mean
        /\ all[n + 1] = mean
    BY <2>1, <1>1, <1>4
  <2> HIDE DEF series, all, last, n, w
  <2>7. ASSUME NEW k \in 1..w PROVE series[k] = all[n + 1 - w + k]
    <3>1. CASE k = w
      <4>1. n + 1 - w + w = n + 1
        BY <1>1
      <4> QED
        BY <4>1, <3>1, <2>6
    <3>2. CASE k # w
      <4>1. k \in 1..(w - 1)
        BY <3>2, <1>1
      <4> QED
        BY <4>1, <2>1, <2>5, <2>6
    <3> QED
      BY <3>1, <3>2
  <2>8. ASSUME \A k \in 2..w : Abs(series[k] - series[k-1]) < cfg.threshold,
               NEW k \in 1..(w - 1)
        PROVE  Abs(all[n + 1 - k + 1] - all[n + 1 - k]) < cfg.threshold
    <3> DEFINE j == w - k + 1
    <3>1. j \in 2..w /\ j \in 1..w /\ j - 1 \in 1..w
      BY <1>1
    <3>2. n + 1 - w + j = n + 1 - k + 1 /\ n + 1 - w + (j - 1) = n + 1 - k
      BY <1>1
    <3> HIDE DEF j
    <3>3. series[j] = all[n + 1 - k + 1] /\ series[j - 1] = all[n + 1 - k]
      BY <3>1, <3>2, <2>7
    <3> QED
      BY <3>1, <3>3, <2>8
  <2>9. ASSUME \A k \in 1..(w - 1) :
                 Abs(all[n + 1 - k + 1] - all[n + 1 - k]) < cfg.threshold,
               NEW k \in 2..w
        PROVE  Abs(series[k] - series[k-1]) < cfg.threshold
    <3> DEFINE j == w - k + 1
    <3>1. j \in 1..(w - 1) /\ k \in 1..w /\ k - 1 \in 1..w
      BY <1>1
    <3>2. n + 1 - w + k = n + 1 - j + 1 /\ n + 1 - w + (k - 1) = n + 1 - j
      BY <1>1
    <3> HIDE DEF j
    <3>3. series[k] = all[n + 1 - j + 1] /\ series[k - 1] = all[n + 1 - j]
      BY <3>1, <3>2, <2>7
    <3> QED
      BY <3>1, <3>3, <2>9
  <2>10. Converged(cfg, mean, hist) <=> Plateau(cfg, all)
    BY <2>3, <2>4, <2>8, <2>9
  <2> QED
    BY <2>10 DEF all
<1>5. w <= 1 \/ (w > 1 /\ n < w - 1) \/ (w > 1 /\ n >= w - 1)
  BY <1>1
<1> QED
  BY <1>2, <1>3, <1>4, <1>5
-----------------------------------------------------------------------------
(* The loop and its evals.                                                 *)

Fields == {"pc", "run", "iteration", "size", "scores", "usd", "code",
           "head", "report"}

\* What is written into latest.json.
ReportFields == {"by", "iteration", "mean", "scores", "regressions", "usd", "hash", "stop"}

NullsAreNoReports == \A r : DOMAIN r = ReportFields => r \notin {NoReport, Torn}

Shape ==
  /\ ev = [e \in Eval |-> ev[e]]
  /\ \A e \in Eval : DOMAIN ev[e] = Fields /\ ev[e] = [f \in Fields |-> ev[e][f]]

Active(e) == ev[e].pc \in {"start", "grade", "build", "open", "write"}

\* A report of an eval that has exited, with the hash of what HEAD was for it.
Sound(r) ==
  /\ DOMAIN r = ReportFields /\ r = [f \in ReportFields |-> r[f]]
  /\ r.by \in Eval
  /\ ev[r.by].pc = "exited"
  /\ r.hash = ev[r.by].head

\* The loop waits for the only eval there is, and HEAD is as that eval has
\* found it.
EvalInv ==
  /\ kills = 0
  /\ i \in Nat
  /\ Shape
  /\ \A e \in Eval :
       /\ Active(e) => pc = "wait" /\ child = e
       /\ ev[e].pc \in {"grade", "build", "open", "write"} => ev[e].head = tree.head
       /\ ev[e].pc \in {"open", "write"} =>
            LET r == ev[e].report
            IN  /\ DOMAIN r = ReportFields /\ r = [f \in ReportFields |-> r[f]]
                /\ r.by = e /\ r.hash = ev[e].head
  /\ Readable => Sound(latest)
  /\ pc \in {"decide", "open", "write"} => Sound(report)

LEMMA EvalInit == MaxKills = 0 /\ Init => EvalInv
BY DEF Init, EvalInv, Shape, Fields, Active, Readable, Unborn

\* An eval's step is about that eval.
LEMMA EvalStepOne ==
  ASSUME Shape, NEW e \in Eval, EvalStep(e)
  PROVE  /\ Shape' /\ \A d \in Eval : d # e => ev'[d] = ev[d]
         /\ UNCHANGED <<pc, run, child, cases, tree, runs, kills, end>>
<1> USE DEF Shape, EvalOnly, Fields
<1>1. CASE EvalStart(e)
  BY <1>1 DEF EvalStart
<1>2. CASE EvalBuild(e)
  BY <1>2 DEF EvalBuild
<1>3. CASE EvalOpen(e) \/ EvalWrite(e) \/ EvalDies(e)
  BY <1>3 DEF EvalOpen, EvalWrite, EvalDies
<1>4. ASSUME NEW s \in Scores, NEW c \in Costs, EvalGrade(e, s, c)
      PROVE  /\ Shape' /\ \A d \in Eval : d # e => ev'[d] = ev[d]
             /\ UNCHANGED <<pc, run, child, cases, tree, runs, kills, end>>
  BY <1>4 DEF EvalGrade
<1> QED
  BY <1>1, <1>2, <1>3, <1>4 DEF EvalStep

\* When the loop does not wait, no eval is active.
LEMMA NoneActive ==
  ASSUME EvalInv, pc # "wait" \/ Exited(child)
  PROVE  \A e \in Eval : ~Active(e)
BY DEF EvalInv, Active, Exited

\* The steps that start, end or resume the loop touch no eval and no report.
LEMMA LoopKeepsEvals ==
  ASSUME EvalInv,
         \/ \E n \in IterationArgs : LoopStart(n)
         \/ RedTeam \/ (\E t \in Edits : CommitRaises(t)) \/ NoAgents
         \/ \E t \in Edits : \E outcome : BlueTeam(t, outcome)
  PROVE  EvalInv'
<1>1. /\ UNCHANGED <<ev, latest, kills>>
      /\ pc \in {"off", "red", "blue"}
      /\ pc' \in {"off", "red", "blue", "eval"}
      /\ i' \in {i, 0, 1}
  BY DEF LoopStart, RedTeam, CommitRaises, NoAgents, BlueTeam, Off, run
<1>2. \A e \in Eval : ~Active(e)
  BY <1>1, NoneActive
<1> QED
  BY <1>1, <1>2 DEF EvalInv, Shape, Active, Readable, Sound

\* The loop starts an eval when the last one is over.
LEMMA SpawnKeeps == EvalInv /\ SpawnEval => EvalInv'
<1> SUFFICES ASSUME EvalInv, SpawnEval PROVE EvalInv'
  OBVIOUS
<1>1. PICK e \in Eval :
        /\ ev[e].pc = "unborn"
        /\ child' = e
        /\ ev' = [ev EXCEPT ![e].pc = "start", ![e].run = runs,
                            ![e].iteration = i]
  BY DEF SpawnEval
<1>2. /\ pc = "eval" /\ pc' = "wait"
      /\ UNCHANGED <<i, latest, kills, tree>>
  BY DEF SpawnEval, run
<1>3. \A d \in Eval : ~Active(d)
  BY <1>2, NoneActive
<1>4. Shape' /\ ev'[e].pc = "start" /\ \A d \in Eval : d # e => ev'[d] = ev[d]
  BY <1>1 DEF EvalInv, Shape, Fields
<1>5. Readable' => Sound(latest)'
  BY <1>1, <1>2, <1>4 DEF EvalInv, Readable, Sound
<1>6. \A d \in Eval : ~Active(d)' \/ d = e
  BY <1>3, <1>4 DEF Active
<1> QED
  BY <1>1, <1>2, <1>4, <1>5, <1>6 DEF EvalInv, Active

\* The loop reads a report, judges it and writes it back.
LEMMA ReportKeeps ==
  EvalInv /\ (Collect \/ Decide \/ StopOpen \/ StopWrite) => EvalInv'
<1> SUFFICES ASSUME EvalInv, Collect \/ Decide \/ StopOpen \/ StopWrite
             PROVE  EvalInv'
  OBVIOUS
<1>0. Collect => \/ pc' = "off" /\ UNCHANGED report
                 \/ pc' = "decide" /\ report' = latest /\ Readable
  <2>1. ASSUME Collect, ~Readable PROVE pc' = "off" /\ UNCHANGED report
    BY <2>1 DEF Collect, Off
  <2>2. ASSUME Collect, Readable, i = 0 PROVE pc' = "off" /\ UNCHANGED report
    BY <2>2 DEF Collect, Off
  <2>3. ASSUME Collect, Readable, i > 0, i # 0
        PROVE  pc' = "decide" /\ report' = latest
    BY <2>3 DEF Collect, Off
  <2>4. i = 0 \/ (i > 0 /\ i # 0)
    BY DEF EvalInv
  <2> QED
    BY <2>1, <2>2, <2>3, <2>4
<1>1. /\ UNCHANGED <<ev, kills, tree>> /\ i' \in {i, i + 1}
      /\ pc # "wait" \/ Exited(child)
      /\ pc' # "wait"
  <2>1. UNCHANGED <<ev, kills, tree>> /\ i' \in {i, i + 1}
    BY DEF Collect, Decide, StopOpen, StopWrite, Off, Stop, GoOn, run
  <2>2. pc # "wait" \/ Exited(child)
    BY DEF Collect, Decide, StopOpen, StopWrite
  <2>3. pc' # "wait"
    BY <1>0 DEF Decide, StopOpen, StopWrite, Off, Stop, GoOn
  <2> QED
    BY <2>1, <2>2, <2>3
<1>2. \A e \in Eval : ~Active(e)
  BY <1>1, NoneActive
<1>3. CASE Collect
  <2>1. UNCHANGED latest
    BY <1>3 DEF Collect
  <2> QED
    BY <2>1, <1>0, <1>1, <1>2, <1>3
       DEF EvalInv, Shape, Active, Readable, Sound
<1>4. CASE Decide
  <2>1. UNCHANGED latest /\ pc = "decide"
    BY <1>4 DEF Decide
  <2>2. CASE \E reason : Stop(reason)
    <3>1. PICK reason : Stop(reason)
      BY <2>2
    <3>2. Sound(report)'
      BY <3>1, <2>1, <1>1 DEF Stop, EvalInv, Sound, ReportFields
    <3> QED
      BY <3>1, <3>2, <2>1, <1>1, <1>2
         DEF Stop, EvalInv, Shape, Active, Readable, Sound
  <2>3. CASE GoOn
    BY <2>3, <2>1, <1>1, <1>2
       DEF GoOn, Off, EvalInv, Shape, Active, Readable, Sound
  <2> QED
    BY <2>2, <2>3, <1>4 DEF Decide
<1>5. CASE StopOpen
  <2>1. ~Readable' /\ pc' = "write" /\ pc = "open" /\ UNCHANGED report
    BY <1>5 DEF StopOpen, Readable, run
  <2> QED
    BY <2>1, <1>1, <1>2 DEF EvalInv, Shape, Active, Sound
<1>6. CASE StopWrite
  BY <1>6, <1>1, <1>2
     DEF StopWrite, Off, EvalInv, Shape, Active, Readable, Sound
<1> QED
  BY <1>3, <1>4, <1>5, <1>6

\* An eval that is active is the one the loop waits for.
LEMMA EvalKeeps ==
  ASSUME EvalInv, NEW e \in Eval, EvalStep(e)
  PROVE  EvalInv'
<1>1. Active(e) /\ pc = "wait" /\ child = e
  BY DEF EvalInv, Active, EvalStep, EvalStart, EvalGrade, EvalBuild, EvalOpen,
         EvalWrite, EvalDies
<1>2. /\ Shape'
      /\ \A d \in Eval : d # e => ev'[d] = ev[d]
      /\ UNCHANGED <<pc, run, child, cases, tree, runs, kills, end>>
  BY EvalStepOne DEF EvalInv
<1>3. \A d \in Eval : Active(d)' => d = e
  BY <1>1, <1>2 DEF EvalInv, Active
<1>4. ASSUME UNCHANGED latest, ev[e].pc # "exited"
      PROVE  Readable' => Sound(latest)'
  BY <1>2, <1>4 DEF EvalInv, Readable, Sound
<1> DEFINE FullReport(x) ==
      /\ DOMAIN x = ReportFields /\ x = [f \in ReportFields |-> x[f]]
      /\ x.by = e /\ x.hash = tree.head
<1>5. SUFFICES /\ ev'[e].pc \in {"grade", "build", "open", "write"}
                    => ev'[e].head = tree.head
               /\ ev'[e].pc \in {"open", "write"} => FullReport(ev'[e].report)
               /\ Readable' => Sound(latest)'
  BY <1>1, <1>2, <1>3 DEF EvalInv, Active, run, ReportFields
<1>6. ev[e] = [f \in Fields |-> ev[e][f]] /\ ev = [d \in Eval |-> ev[d]]
  BY DEF EvalInv, Shape
<1>7. /\ ev[e].pc \in {"grade", "build", "open", "write"} => ev[e].head = tree.head
      /\ ev[e].pc \in {"open", "write"} => FullReport(ev[e].report)
  BY DEF EvalInv
<1>8. CASE EvalStart(e)
  BY <1>8, <1>4, <1>6 DEF EvalStart, Fields
<1>9. ASSUME NEW s \in Scores, NEW c \in Costs, EvalGrade(e, s, c)
      PROVE  /\ ev'[e].pc \in {"grade", "build"} /\ ev'[e].head = tree.head
             /\ Readable' => Sound(latest)'
  BY <1>9, <1>4, <1>6, <1>7 DEF EvalGrade, Fields
<1>10. CASE EvalBuild(e)
  <2>1. PICK previous : ev' = [ev EXCEPT ![e].pc = "open",
                                         ![e].report = Built(e, previous)]
    BY <1>10 DEF EvalBuild
  <2>2. FullReport(Built(e, previous))
    BY DEF Built, ReportFields
  <2>3. ev'[e].pc = "open" /\ ev'[e].head = ev[e].head
        /\ ev'[e].report = Built(e, previous)
    BY <2>1, <1>6 DEF Fields
  <2> QED
    BY <2>2, <2>3, <1>4, <1>7, <1>10 DEF EvalBuild
<1>11. CASE EvalOpen(e)
  BY <1>11, <1>6, <1>7 DEF EvalOpen, Readable, Fields
<1>12. CASE EvalWrite(e)
  <2>1. /\ ev'[e].pc = "exited" /\ ev'[e].head = ev[e].head
        /\ latest' = ev[e].report /\ ev[e].pc = "write"
    BY <1>12, <1>6 DEF EvalWrite, Fields
  <2>2. Sound(latest)'
    BY <2>1, <1>7 DEF Sound
  <2> QED
    BY <2>1, <2>2
<1>13. CASE EvalDies(e)
  BY <1>13, <1>4, <1>6 DEF EvalDies, Fields
<1> QED
  BY <1>8, <1>9, <1>10, <1>11, <1>12, <1>13 DEF EvalStep

LEMMA EvalNext == MaxKills = 0 /\ EvalInv /\ [Next]_vars => EvalInv'
<1> SUFFICES ASSUME MaxKills = 0, EvalInv, [Next]_vars PROVE EvalInv'
  OBVIOUS
<1>1. CASE Loop
  BY <1>1, LoopKeepsEvals, SpawnKeeps, ReportKeeps DEF Loop
<1>2. CASE \E n \in IterationArgs : LoopStart(n)
  BY <1>2, LoopKeepsEvals
<1>3. CASE \E e \in Eval : EvalStep(e)
  BY <1>3, EvalKeeps
<1>4. CASE LoopKilled
  BY <1>4 DEF LoopKilled, EvalInv
<1>5. CASE UNCHANGED vars
  BY <1>5 DEF vars, run, EvalInv, Shape, Active, Readable, Sound
<1> QED
  BY <1>1, <1>2, <1>3, <1>4, <1>5 DEF Next
-----------------------------------------------------------------------------
\* Where no eval raises and no run is killed, an eval that has exited without a
\* report has found no case; the loop waits for an eval that it has started;
\* and what it judges and writes is the report of that eval.
EndInv ==
  /\ cases \in Nat
  /\ Readable => cases # 0
  /\ \A e \in Eval :
       /\ ev[e].pc # "dead"
       /\ ev[e].pc \in {"grade", "build", "open", "write"} => cases # 0
  /\ pc = "wait" =>
       /\ child \in Eval
       /\ ev[child].pc # "unborn"
       /\ Readable /\ ev[child].pc = "exited" => latest.by = child
  /\ pc \in {"decide", "open", "write"} => report.by = child /\ cases # 0
  /\ pc \in {"open", "write"} => report.stop # NoReason
  /\ FinalReport

LEMMA EndInit == Init => EndInv
BY BoundsAssumption DEF Init, EndInv, FinalReport, Readable, Unborn

LEMMA LoopKeepsEnd ==
  ASSUME ~MayFail, EvalInv, EndInv,
         \/ \E n \in IterationArgs : LoopStart(n)
         \/ RedTeam \/ (\E t \in Edits : CommitRaises(t)) \/ NoAgents
         \/ \E t \in Edits : \E outcome : BlueTeam(t, outcome)
  PROVE  EndInv'
<1>1. /\ UNCHANGED <<ev, latest>>
      /\ pc' \in {"red", "blue", "eval"}
      /\ cases' = cases \/ (cases' \in {cases, cases + 1} \cap 0..MaxCases)
  BY DEF LoopStart, RedTeam, CommitRaises, NoAgents, BlueTeam
<1>2. cases' \in Nat /\ (cases # 0 => cases' # 0)
  BY <1>1 DEF EndInv
<1> QED
  BY <1>1, <1>2 DEF EndInv, FinalReport, Readable

LEMMA SpawnKeepsEnd == EvalInv /\ EndInv /\ SpawnEval => EndInv'
<1> SUFFICES ASSUME EvalInv, EndInv, SpawnEval PROVE EndInv'
  OBVIOUS
<1>1. PICK e \in Eval :
        /\ ev[e].pc = "unborn"
        /\ child' = e
        /\ ev' = [ev EXCEPT ![e].pc = "start", ![e].run = runs,
                            ![e].iteration = i]
  BY DEF SpawnEval
<1>2. pc' = "wait" /\ UNCHANGED <<latest, cases>>
  BY DEF SpawnEval
<1>3. ev'[e].pc = "start" /\ \A d \in Eval : d # e => ev'[d] = ev[d]
  BY <1>1 DEF EvalInv, Shape, Fields
<1> QED
  BY <1>1, <1>2, <1>3 DEF EndInv, FinalReport, Readable

\* The report that is judged is that of the eval the loop has waited for.
LEMMA CollectKeepsEnd == EvalInv /\ EndInv /\ Collect => EndInv'
<1> SUFFICES ASSUME EvalInv, EndInv, Collect PROVE EndInv'
  OBVIOUS
<1>1. /\ UNCHANGED <<ev, latest, cases, child>>
      /\ pc = "wait" /\ ev[child].pc = "exited"
  BY DEF Collect, Exited, EndInv
<1>2. \/ pc' = "off" /\ end' # "stopped"
      \/ pc' = "decide" /\ report' = latest /\ Readable
  <2>1. ASSUME ~Readable PROVE pc' = "off" /\ end' # "stopped"
    BY <2>1 DEF Collect, Off
  <2>2. ASSUME Readable, i = 0 PROVE pc' = "off" /\ end' # "stopped"
    BY <2>2 DEF Collect, Off
  <2>3. ASSUME Readable, i > 0, i # 0 PROVE pc' = "decide" /\ report' = latest
    BY <2>3 DEF Collect, Off
  <2>4. i = 0 \/ (i > 0 /\ i # 0)
    BY DEF EvalInv
  <2> QED
    BY <2>1, <2>2, <2>3, <2>4
<1> QED
  BY <1>1, <1>2 DEF EndInv, FinalReport, Readable

LEMMA DecideKeepsEnd == EvalInv /\ EndInv /\ Decide => EndInv'
<1> SUFFICES ASSUME EvalInv, EndInv, Decide PROVE EndInv'
  OBVIOUS
<1>1. UNCHANGED <<ev, latest, cases, child>> /\ pc = "decide"
  BY DEF Decide
<1>2. CASE \E reason : reason # NoReason /\ Stop(reason)
  <2>1. PICK reason : reason # NoReason /\ Stop(reason)
    BY <1>2
  <2>2. report'.stop = reason /\ report'.by = report.by /\ pc' = "open"
    BY <2>1, <1>1 DEF Stop, EvalInv, Sound, ReportFields
  <2> QED
    BY <1>1, <2>1, <2>2 DEF EndInv, FinalReport, Readable
<1>3. CASE GoOn
  <2>1. pc' = "red" \/ (pc' = "off" /\ end' # "stopped")
    BY <1>3 DEF GoOn, Off
  <2> QED
    BY <1>1, <2>1 DEF EndInv, FinalReport, Readable
<1> QED
  BY <1>2, <1>3 DEF Decide

LEMMA WriteKeepsEnd ==
  NullsAreNoReports /\ EvalInv /\ EndInv /\ (StopOpen \/ StopWrite) => EndInv'
<1> SUFFICES ASSUME NullsAreNoReports, EvalInv, EndInv, StopOpen \/ StopWrite
             PROVE  EndInv'
  OBVIOUS
<1>1. /\ UNCHANGED <<ev, cases, child, report>>
      /\ \A e \in Eval : ev[e].pc # "dead"
  BY DEF StopOpen, StopWrite, run, EndInv
<1>2. CASE StopOpen
  <2>1. ~Readable' /\ pc' = "write" /\ pc = "open"
    BY <1>2 DEF StopOpen, Readable
  <2> QED
    BY <1>1, <2>1 DEF EndInv, FinalReport
<1>3. CASE StopWrite
  <2>1. pc = "write" /\ pc' = "off" /\ latest' = report /\ Sound(report)
    BY <1>3 DEF StopWrite, Off, EvalInv
  <2>2. Readable' /\ latest'.by = child' /\ latest'.stop # NoReason
    BY <2>1, <1>1 DEF Sound, NullsAreNoReports, Readable, EndInv
  <2> QED
    BY <1>1, <2>1, <2>2 DEF EndInv, FinalReport
<1> QED
  BY <1>2, <1>3

LEMMA EvalKeepsEnd ==
  ASSUME ~MayFail, EvalInv, EndInv, NEW e \in Eval, EvalStep(e)
  PROVE  EndInv'
<1>1. Active(e) /\ pc = "wait" /\ child = e
  BY DEF EvalInv, Active, EvalStep, EvalStart, EvalGrade, EvalBuild, EvalOpen,
         EvalWrite, EvalDies
<1>2. /\ \A d \in Eval : d # e => ev'[d] = ev[d]
      /\ UNCHANGED <<pc, child, cases>>
  BY EvalStepOne DEF EvalInv, run
<1>3. SUFFICES /\ ev'[e].pc \notin {"dead", "unborn"}
               /\ ev'[e].pc \in {"grade", "build", "open", "write"}
                    => cases # 0
               /\ Readable' => cases # 0
               /\ Readable' /\ ev'[e].pc = "exited" => latest'.by = e
  BY <1>1, <1>2 DEF EndInv, FinalReport
<1>4. ev[e] = [f \in Fields |-> ev[e][f]] /\ ev = [d \in Eval |-> ev[d]]
  BY DEF EvalInv, Shape
<1>5. /\ ev[e].pc \in {"grade", "build", "open", "write"} => cases # 0
      /\ Readable => cases # 0
  BY DEF EndInv
<1>6. CASE EvalStart(e)
  BY <1>6, <1>4, <1>5 DEF EvalStart, Readable, Fields
<1>7. ASSUME NEW s \in Scores, NEW c \in Costs, EvalGrade(e, s, c)
      PROVE  ev'[e].pc \in {"grade", "build"} /\ cases # 0
  BY <1>7, <1>4, <1>5 DEF EvalGrade, Fields
<1>8. CASE EvalBuild(e) \/ EvalOpen(e)
  BY <1>8, <1>4, <1>5 DEF EvalBuild, EvalOpen, Fields
<1>9. CASE EvalWrite(e)
  <2>1. /\ ev'[e].pc = "exited" /\ latest' = ev[e].report
        /\ ev[e].pc = "write"
    BY <1>9, <1>4 DEF EvalWrite, Fields
  <2> QED
    BY <2>1, <1>5 DEF EvalInv
<1> QED
  BY <1>6, <1>7, <1>8, <1>9 DEF EvalStep, EvalDies

LEMMA EndNext ==
  ASSUME MaxKills = 0, ~MayFail, NullsAreNoReports, EvalInv, EndInv, [Next]_vars
  PROVE  EndInv'
<1>1. CASE Loop
  BY <1>1, LoopKeepsEnd, SpawnKeepsEnd, CollectKeepsEnd, DecideKeepsEnd,
     WriteKeepsEnd DEF Loop
<1>2. CASE \E n \in IterationArgs : LoopStart(n)
  BY <1>2, LoopKeepsEnd
<1>3. CASE \E e \in Eval : EvalStep(e)
  BY <1>3, EvalKeepsEnd
<1>4. CASE LoopKilled
  BY <1>4 DEF LoopKilled, EvalInv
<1>5. CASE UNCHANGED vars
  BY <1>5 DEF vars, run, EndInv, FinalReport, Readable
<1> QED
  BY <1>1, <1>2, <1>3, <1>4, <1>5 DEF Next

\* A loop that halts for a reason leaves that reason behind, on the report of
\* its own last eval, although it takes whatever report it finds when the eval
\* is over (scripts/loop.py:163, 118): where nothing fails, what it finds is
\* never an earlier eval's.
THEOREM HaltIsExplained ==
  ASSUME MaxKills = 0, ~MayFail, NullsAreNoReports
  PROVE  Spec => []FinalReport
<1>1. Init => EvalInv /\ EndInv
  BY EvalInit, EndInit
<1>2. EvalInv /\ [Next]_vars => EvalInv'
  BY EvalNext
<1>3. EvalInv /\ EndInv /\ [Next]_vars => EndInv'
  BY EndNext
<1>4. EndInv => FinalReport
  BY DEF EndInv
<1> QED
  BY <1>1, <1>2, <1>3, <1>4, PTL DEF Spec
-----------------------------------------------------------------------------
(* Types.  A report has a mean because an eval has graded a case before it *)
(* builds one, and no more cases than there are.                           *)

TypeInv ==
  /\ TypeOK
  /\ pc \in {"decide", "open", "write"} => report \in Report
  /\ \A e \in Eval :
       /\ ev[e].pc \in {"unborn", "start"} => ev[e].scores = <<>>
       /\ ev[e].pc = "grade" => Len(ev[e].scores) < ev[e].size
       /\ ev[e].pc = "build" => Len(ev[e].scores) \in 1..ev[e].size
       /\ ev[e].pc \in {"open", "write"} => ev[e].report \in Report
-----------------------------------------------------------------------------
(* Where no loop is killed and nothing fails, the evals form one line.     *)

\* A report of what e did, when the evals were evals.
TellsOf(r, e, evals) ==
  /\ r.by = e
  /\ r.mean = Mean(evals[e].scores)
  /\ r.usd = evals[e].usd
  /\ r.scores = evals[e].scores
  /\ r.regressions = Regressions(evals[e].scores, IF e > 1 THEN evals[e-1].scores ELSE <<>>)
Tells(r, e) == TellsOf(r, e, ev)

\* The evals are started in order, and none sees fewer cases than the one
\* before it; one that has seen any leaves a report, and it is that of the last
\* one which is in latest.json, until the next one opens the file.
LineInv ==
  /\ \A e \in Eval : ev[e].pc # "unborn" <=> e <= child
  /\ \A d, e \in Eval :
       d <= e /\ ev[e].pc \notin {"unborn", "start"} => ev[d].size <= ev[e].size
  /\ \A e \in Eval :
       /\ ev[e].size <= cases
       /\ ev[e].pc \in {"unborn", "start"} => ev[e].size = 0 /\ ev[e].usd = 0
       /\ ev[e].size = 0 => ev[e].scores = <<>>
       /\ ev[e].pc \in {"grade", "build", "open", "write"} => ev[e].size # 0
       /\ ev[e].pc \in {"open", "write"} => Tells(ev[e].report, e)
  /\ Readable => Tells(latest, latest.by) /\ ev[latest.by].size # 0
  /\ pc \in {"decide", "open", "write"} =>
       child \in Eval /\ Tells(report, child) /\ ev[child].size # 0
  /\ pc = "wait" => child \in Eval
  /\ pc # "write" /\ child # 0 /\ ev[child].pc = "exited" /\ ev[child].size # 0
       => Readable /\ latest.by = child
  /\ child > 1 /\ ev[child].pc \in {"start", "grade", "build", "open"}
       /\ ev[child-1].size # 0
       => Readable /\ latest.by = child - 1

-----------------------------------------------------------------------------
(* What evaluate() answers.                                                *)

\* evaluate() answers with a reason that fires, or with None if there is none.
LEMMA EvaluateSpec ==
  ASSUME NEW cfg, NEW rep, NEW state
  PROVE  \/ /\ Evaluate(cfg, rep, state) = NoReason
            /\ \A k \in 1..7 : ~Fires(Reasons[k], cfg, rep, state)
         \/ \E k \in 1..7 : /\ Evaluate(cfg, rep, state) = Reasons[k]
                            /\ Reasons[k] # NoReason
                            /\ Fires(Reasons[k], cfg, rep, state)
<1> DEFINE firing == {k \in 1..7 : Fires(Reasons[k], cfg, rep, state)}
<1>1. DOMAIN Reasons = 1..7 /\ Len(Reasons) = 7
  BY DEF Reasons
<1>2. Evaluate(cfg, rep, state) =
        IF firing = {} THEN NoReason
        ELSE Reasons[CHOOSE k \in firing : \A j \in firing : k <= j]
  BY <1>1 DEF Evaluate
<1>3. CASE firing = {}
  BY <1>2, <1>3
<1>4. CASE firing # {}
  <2>1. \E k \in firing : \A j \in firing : k <= j
    <3>1. firing \in SUBSET Nat
      OBVIOUS
    <3> HIDE DEF firing
    <3> QED
      BY <1>4, <3>1, Least
  <2> DEFINE least == CHOOSE k \in firing : \A j \in firing : k <= j
  <2>2. least \in firing
    BY <2>1
  <2>3. Evaluate(cfg, rep, state) = Reasons[least]
    BY <1>2, <1>4
  <2> HIDE DEF least
  <2>4. least \in 1..7 /\ Fires(Reasons[least], cfg, rep, state)
    BY <2>2
  <2> QED
    BY <1>1, <2>3, <2>4, NoReasonAssumption
<1> QED
  BY <1>3, <1>4

LEMMA ReasonType == ToSet(Reasons) = {Reasons[k] : k \in 1..7}
BY DEF ToSet, Reasons

LEMMA VerdictType == \A spent : Verdict(spent) \in ToSet(Reasons) \cup {NoReason}
BY EvaluateSpec, ReasonType DEF Verdict

\* The verdicts that the properties are about.
LEMMA VerdictGoesOn ==
  ASSUME NEW spent, Verdict(spent) = NoReason
  PROVE  /\ ~BudgetExceeded(Cfg, spent)
         /\ ~AnchorRegression(Cfg, report.regressions)
<1> DEFINE state == [iteration |-> i, history |-> history, usd |-> spent,
                     drift |-> <<>>, outcomes |-> outcomes, manual |-> FALSE]
<1>1. \A k \in 1..7 : ~Fires(Reasons[k], Cfg, report, state)
  BY EvaluateSpec DEF Verdict
<1>2. ~Fires("budget", Cfg, report, state) /\ ~Fires("anchor_regression", Cfg, report, state)
  <2>1. Reasons[2] = "budget" /\ Reasons[4] = "anchor_regression"
    BY DEF Reasons
  <2> HIDE DEF state
  <2> QED
    BY <1>1, <2>1
<1> QED
  BY <1>2 DEF Fires

LEMMA VerdictConverged ==
  ASSUME NEW spent, Verdict(spent) = "convergence"
  PROVE  Converged(Cfg, report.mean, history)
<1> DEFINE state == [iteration |-> i, history |-> history, usd |-> spent,
                     drift |-> <<>>, outcomes |-> outcomes, manual |-> FALSE]
<1>1. \/ Verdict(spent) = NoReason
      \/ \E k \in 1..7 : Verdict(spent) = Reasons[k] /\ Fires(Reasons[k], Cfg, report, state)
  BY EvaluateSpec DEF Verdict
<1>2. Verdict(spent) # NoReason
  <2>1. Reasons[7] = "convergence" /\ 7 \in DOMAIN Reasons
    BY DEF Reasons
  <2> QED
    BY <2>1, NoReasonAssumption
<1>3. Fires("convergence", Cfg, report, state)
  BY <1>1, <1>2
<1> QED
  BY <1>3 DEF Fires
-----------------------------------------------------------------------------
\* The mean of percentages is one, and it needs a score (pipeline/metrics.py).
LEMMA MeanType ==
  ASSUME NEW s \in Seq(Scores), Len(s) # 0
  PROVE  Mean(s) \in 0..100
<1> DEFINE D == DOMAIN s
           n == Len(s)
           t == Total(s, D)
<1>1. D = 1..n /\ n \in Nat \ {0}
  OBVIOUS
<1>2. IsFiniteSet(D) /\ Cardinality(D) = n
  <2>1. 1 \in Int /\ n \in Int /\ n - 1 + 1 = n /\ ~(1 > n)
    BY <1>1
  <2> HIDE DEF D, n
  <2> QED
    BY <1>1, <2>1, FS_Interval
<1>3. \A k \in D : s[k] \in 0..100
  <2>1. \A k \in D : s[k] \in Scores
    BY <1>1
  <2>2. \A x \in Scores : x \in 0..100
    BY ScoresAssumption
  <2> HIDE DEF D
  <2> QED
    BY <2>1, <2>2
<1>4. t \in 0..(100 * n)
  <2> HIDE DEF D, n
  <2> QED
    BY <1>2, <1>3, TotalBound
<1>5. Mean(s) = t \div n
  BY DEF Mean, Total, FoldSeq, FoldFunction
<1> HIDE DEF t, n
<1> QED
  BY <1>1, <1>4, <1>5, DivBound

\* What an eval builds is a report.
LEMMA BuiltType ==
  ASSUME TypeInv, NEW e \in Eval, ev[e].pc = "build", NEW previous \in Seq(Scores)
  PROVE  Built(e, previous) \in Report
<1> DEFINE s == ev[e].scores
<1>1. /\ s \in Seq(Scores) /\ Len(s) # 0 /\ Len(s) <= MaxCases /\ Len(s) \in Nat
      /\ ev[e].iteration \in Nat /\ ev[e].usd \in Nat /\ tree.head \in Nat
  <2>1. /\ ev[e].scores \in Seq(Scores) /\ ev[e].size \in 0..MaxCases
        /\ ev[e].iteration \in Nat /\ ev[e].usd \in Nat /\ tree.head \in Nat
    BY DEF TypeInv, TypeOK, EvalRecord, Tree
  <2>2. Len(s) \in 1..ev[e].size
    BY DEF TypeInv
  <2>3. MaxCases \in Nat
    BY BoundsAssumption
  <2>4. Len(s) # 0 /\ Len(s) <= MaxCases /\ Len(s) \in Nat
    <3> HIDE DEF s
    <3> QED
      BY <2>1, <2>2, <2>3
  <2> QED
    BY <2>1, <2>4
<1>2. Mean(s) \in 0..100
  BY <1>1, MeanType
<1>3. Regressions(s, previous) \in SUBSET Regression
  <2>1. ASSUME NEW k \in DOMAIN s \cap DOMAIN previous
        PROVE  k \in 1..MaxCases /\ previous[k] \in Scores /\ s[k] \in Scores
    BY <1>1, BoundsAssumption
  <2> HIDE DEF s
  <2> QED
    BY <2>1 DEF Regressions, Regression
<1>4. (IF Hit(ev[e].usd) THEN "budget" ELSE NoReason) \in ToSet(Reasons) \cup {NoReason}
  <2>1. "budget" \in ToSet(Reasons)
    <3>1. Reasons[2] = "budget"
      BY DEF Reasons
    <3> QED
      BY <3>1, ReasonType
  <2> QED
    BY <2>1
<1> DEFINE mean == Mean(s)
           regressions == Regressions(s, previous)
           stop == IF Hit(ev[e].usd) THEN "budget" ELSE NoReason
<1>5. Built(e, previous) =
        [by |-> e, iteration |-> ev[e].iteration, mean |-> mean, scores |-> s,
         usd |-> ev[e].usd, hash |-> tree.head, regressions |-> regressions, stop |-> stop]
  BY DEF Built
<1> HIDE DEF s, mean, regressions, stop
<1> QED
  BY <1>1, <1>2, <1>3, <1>4, <1>5 DEF Report, mean, regressions, stop

LEMMA TypeShape == TypeInv => Shape
BY DEF TypeInv, TypeOK, EvalRecord, Shape, Fields

LEMMA TypeInit == Init => TypeInv
<1> SUFFICES ASSUME Init PROVE TypeInv
  OBVIOUS
<1>1. Unborn \in EvalRecord
  BY BoundsAssumption DEF Unborn, EvalRecord
<1>2. SeedCases \in 0..MaxCases /\ 0 \in 0..MaxEvals /\ 0 \in 0..MaxRuns /\ 0 \in 0..MaxKills
  BY BoundsAssumption
<1> QED
  BY <1>1, <1>2 DEF Init, TypeInv, TypeOK, Unborn, EvalRecord, Tree

\* An edit is a tree, and so is what the commit makes of it.
LEMMA TreeType ==
  ASSUME tree \in Tree, NEW t \in Edits
  PROVE  t \in Tree /\ \A outcome : Committed(t, outcome) \in Tree
<1>1. PICK move \in Moves : t = Edited(move)
  BY DEF Edits
<1>2. t \in Tree
  <2> USE DEF Edited, Tree
  <2>1. CASE move = "nothing"
    BY <1>1, <2>1
  <2>2. CASE move = "tracked"
    <3>1. t = [tree EXCEPT !.code = @ + 1, !.unstaged = TRUE]
      BY <1>1, <2>2
    <3>2. t = [code |-> tree.code + 1, head |-> tree.head, unstaged |-> TRUE]
      BY <3>1
    <3> QED
      BY <3>2
  <2>3. CASE move = "untracked"
    BY <1>1, <2>3
  <2>4. CASE move = "revert"
    <3>1. t = [tree EXCEPT !.head = tree.code + 1,
                           !.code = IF @ = tree.head THEN @ + 1 ELSE @ + 2]
      BY <1>1, <2>4
    <3> DEFINE code == IF tree.code = tree.head THEN tree.code + 1 ELSE tree.code + 2
    <3>2. t = [code |-> code, head |-> tree.code + 1, unstaged |-> tree.unstaged]
      BY <3>1
    <3>3. code \in Nat
      OBVIOUS
    <3> HIDE DEF code
    <3> QED
      BY <3>2, <3>3
  <2> QED
    BY <2>1, <2>2, <2>3, <2>4 DEF Moves
<1> QED
  BY <1>2 DEF Committed, Tree

\* A step that leaves the evals and latest.json alone.
LEMMA QuietType ==
  ASSUME TypeInv, UNCHANGED <<ev, latest, child>>,
         pc' \in {"off", "red", "blue", "eval", "wait", "decide", "open", "write"},
         iterations' \in IterationArgs \cup {0}, i' \in 0..iterations', usd' \in Nat,
         history' \in Seq(0..100), outcomes' \in Seq({"accept", "noop"}),
         report' \in Report \cup {NoReport}, cases' \in 0..MaxCases, tree' \in Tree,
         runs' \in 0..MaxRuns, kills' \in 0..MaxKills,
         end' \in {"none", "stopped", "done", "exhausted", "reportless", "raised", "killed"},
         pc' \in {"decide", "open", "write"} => report' \in Report
  PROVE  TypeInv'
BY DEF TypeInv, TypeOK

\* The steps of the loop that touch neither a report nor an eval, ...
LEMMA LoopType ==
  ASSUME TypeInv,
         \/ \E n \in IterationArgs : LoopStart(n)
         \/ RedTeam \/ (\E t \in Edits : CommitRaises(t)) \/ NoAgents \/ LoopKilled
         \/ \E t \in Edits, outcome \in {"accept", "noop"} : BlueTeam(t, outcome)
  PROVE  TypeInv'
<1> USE BoundsAssumption, IterationsAssumption DEF Off, run
<1>1. ASSUME NEW n \in IterationArgs, LoopStart(n) PROVE TypeInv'
  <2>1. runs + 1 \in 0..MaxRuns
    BY <1>1 DEF LoopStart, TypeInv, TypeOK
  <2>2. history' \in Seq(0..100)
    <3>1. Readable => latest.mean \in 0..100
      BY DEF Readable, TypeInv, TypeOK, Report
    <3>2. Readable => <<latest.mean>> \in Seq(0..100)
      BY <3>1
    <3>3. history' = IF Readable THEN <<latest.mean>> ELSE <<>>
      BY <1>1 DEF LoopStart
    <3>4. CASE Readable
      BY <3>2, <3>3, <3>4
    <3>5. CASE ~Readable
      BY <3>3, <3>5
    <3> QED
      BY <3>4, <3>5
  <2>3. i' \in 0..n /\ pc' \in {"red", "eval"}
    BY <1>1 DEF LoopStart
  <2> QED
    BY <1>1, <2>1, <2>2, <2>3, QuietType DEF LoopStart, TypeInv, TypeOK
<1>2. CASE RedTeam
  BY <1>2, QuietType DEF RedTeam, TypeInv, TypeOK
<1>3. ASSUME NEW t \in Edits, CommitRaises(t) PROVE TypeInv'
  BY <1>3, TreeType, QuietType DEF CommitRaises, TypeInv, TypeOK
<1>4. CASE NoAgents
  BY <1>4, QuietType DEF NoAgents, TypeInv, TypeOK
<1>5. CASE LoopKilled
  <2>1. kills + 1 \in 0..MaxKills /\ tree' \in Tree
    BY <1>5, TreeType DEF LoopKilled, TypeInv, TypeOK
  <2> QED
    BY <1>5, <2>1, QuietType DEF LoopKilled, TypeInv, TypeOK
<1>6. ASSUME NEW t \in Edits, NEW outcome \in {"accept", "noop"}, BlueTeam(t, outcome)
      PROVE  TypeInv'
  <2>1. tree' \in Tree /\ Append(outcomes, outcome) \in Seq({"accept", "noop"})
    BY <1>6, TreeType DEF BlueTeam, TypeInv, TypeOK
  <2> QED
    BY <1>6, <2>1, QuietType DEF BlueTeam, TypeInv, TypeOK
<1> QED
  BY <1>1, <1>2, <1>3, <1>4, <1>5, <1>6

\* ... those that judge a report, ...
LEMMA ReportTypes ==
  ASSUME TypeInv, Collect \/ Decide
  PROVE  TypeInv'
<1>1. CASE Collect
  <2>1. \/ pc' = "off" /\ UNCHANGED report /\ end' \in {"reportless", "done"}
        \/ pc' = "decide" /\ report' = latest /\ Readable /\ UNCHANGED end
    <3>1. i = 0 \/ (i > 0 /\ i # 0)
      BY IterationsAssumption DEF TypeInv, TypeOK
    <3>2. ASSUME ~Readable
          PROVE  pc' = "off" /\ UNCHANGED report /\ end' \in {"reportless", "done"}
      BY <1>1, <3>2 DEF Collect, Off
    <3>3. ASSUME Readable, i = 0
          PROVE  pc' = "off" /\ UNCHANGED report /\ end' \in {"reportless", "done"}
      BY <1>1, <3>3 DEF Collect, Off
    <3>4. ASSUME Readable, i > 0, i # 0
          PROVE  pc' = "decide" /\ report' = latest /\ UNCHANGED end
      BY <1>1, <3>4 DEF Collect, Off
    <3> QED
      BY <3>1, <3>2, <3>3, <3>4
  <2>2. Readable => latest \in Report
    BY DEF Readable, TypeInv, TypeOK
  <2> QED
    BY <1>1, <2>1, <2>2, QuietType DEF Collect, TypeInv, TypeOK
<1>2. CASE Decide
  <2>1. report \in Report /\ report.usd \in Nat /\ report.mean \in 0..100
    BY <1>2 DEF Decide, TypeInv, Report
  <2>2. usd' = usd + report.usd /\ usd' \in Nat
    BY <1>2, <2>1 DEF Decide, TypeInv, TypeOK
  <2>3. ASSUME Stop(Verdict(usd')) PROVE TypeInv'
    <3>1. report' \in Report
      BY <2>1, <2>3, VerdictType DEF Stop, Report
    <3> QED
      BY <1>2, <2>2, <2>3, <3>1, QuietType DEF Decide, Stop, TypeInv, TypeOK
  <2>4. ASSUME GoOn PROVE TypeInv'
    <3>1. history' \in Seq(0..100)
      BY <2>1, <2>4 DEF GoOn, TypeInv, TypeOK
    <3>2. /\ i' \in 0..iterations
          /\ pc' \in {"red", "off"}
          /\ end' = end \/ end' = "exhausted"
      <4>1. iterations \in Nat /\ i \in 0..iterations
        BY IterationsAssumption DEF TypeInv, TypeOK
      <4> QED
        BY <2>4, <4>1 DEF GoOn, Off
    <3> QED
      BY <1>2, <2>2, <2>4, <3>1, <3>2, QuietType DEF Decide, GoOn, TypeInv, TypeOK
  <2> QED
    BY <1>2, <2>3, <2>4 DEF Decide
<1> QED
  BY <1>1, <1>2

\* ... those that start an eval or write a file.
LEMMA FileType ==
  ASSUME TypeInv, SpawnEval \/ StopOpen \/ StopWrite
  PROVE  TypeInv'
<1>1. CASE SpawnEval
  <2>1. PICK e \in Eval :
          /\ ev[e].pc = "unborn"
          /\ child' = e
          /\ ev' = [ev EXCEPT ![e].pc = "start", ![e].run = runs, ![e].iteration = i]
    BY <1>1 DEF SpawnEval
  <2>2. i \in Nat /\ runs \in 0..MaxRuns /\ e \in 0..MaxEvals
    <3>1. iterations \in Nat /\ i \in 0..iterations
      BY IterationsAssumption DEF TypeInv, TypeOK
    <3>2. runs \in 0..MaxRuns
      BY DEF TypeInv, TypeOK
    <3> QED
      BY <3>1, <3>2 DEF Eval
  <2>3. /\ Shape' /\ \A d \in Eval : d # e => ev'[d] = ev[d]
        /\ ev'[e].pc = "start" /\ ev'[e].run = runs /\ ev'[e].iteration = i
        /\ ev'[e].size = ev[e].size /\ ev'[e].scores = ev[e].scores
        /\ ev'[e].usd = ev[e].usd /\ ev'[e].code = ev[e].code /\ ev'[e].head = ev[e].head
        /\ ev'[e].report = ev[e].report
    <3>1. /\ ev = [d \in Eval |-> ev[d]] /\ ev[e] = [f \in Fields |-> ev[e][f]]
          /\ \A d \in Eval : DOMAIN ev[d] = Fields /\ ev[d] = [f \in Fields |-> ev[d][f]]
      BY TypeShape DEF Shape
    <3>2. Shape' /\ \A d \in Eval : d # e => ev'[d] = ev[d]
      BY <2>1, <3>1 DEF Shape, Fields
    <3> QED
      BY <2>1, <3>1, <3>2 DEF Fields
  <2>4. ev'[e] \in EvalRecord
    <3>1. ev[e] \in EvalRecord
      BY DEF TypeInv, TypeOK
    <3> QED
      BY <2>2, <2>3, <3>1 DEF EvalRecord, Shape, Fields
  <2>5. \A d \in Eval : ev'[d] \in EvalRecord
    BY <2>3, <2>4 DEF TypeInv, TypeOK
  <2>6. ev' \in [Eval -> EvalRecord]
    BY <2>3, <2>5 DEF Shape
  <2> QED
    BY <1>1, <2>1, <2>2, <2>3, <2>4, <2>6 DEF SpawnEval, run, TypeInv, TypeOK
<1>2. CASE StopOpen
  BY <1>2 DEF StopOpen, run, TypeInv, TypeOK
<1>3. CASE StopWrite
  BY <1>3 DEF StopWrite, Off, run, TypeInv, TypeOK
<1> QED
  BY <1>1, <1>2, <1>3

\* A step of an eval.
LEMMA EvalType ==
  ASSUME TypeInv, NEW e \in Eval, EvalStep(e)
  PROVE  TypeInv'
<1> USE DEF EvalOnly, run
<1>1. /\ Shape' /\ \A d \in Eval : d # e => ev'[d] = ev[d]
      /\ UNCHANGED <<pc, run, child, cases, tree, runs, kills, end>>
  BY TypeShape, EvalStepOne
<1>2. ev[e] \in EvalRecord /\ ev[e].size \in 0..MaxCases /\ ev[e].scores \in Seq(Scores)
  BY DEF TypeInv, TypeOK, EvalRecord
<1>3. SUFFICES
        /\ latest' \in Report \cup {NoReport, Torn}
        /\ ev'[e].pc \in {"grade", "build", "open", "write", "exited", "dead"}
        /\ ev'[e].run = ev[e].run /\ ev'[e].iteration = ev[e].iteration
        /\ ev'[e].size \in 0..MaxCases /\ ev'[e].scores \in Seq(Scores)
        /\ ev'[e].usd \in Nat /\ ev'[e].code \in Nat /\ ev'[e].head \in Nat
        /\ ev'[e].report \in Report \cup {NoReport}
        /\ ev'[e].pc = "grade" => Len(ev'[e].scores) < ev'[e].size
        /\ ev'[e].pc = "build" => Len(ev'[e].scores) \in 1..ev'[e].size
        /\ ev'[e].pc \in {"open", "write"} => ev'[e].report \in Report
  <2>1. ev'[e] \in EvalRecord
    BY <1>1, <1>2, <1>3 DEF EvalRecord, Shape, Fields
  <2>2. \A d \in Eval : ev'[d] \in EvalRecord
    BY <1>1, <2>1 DEF TypeInv, TypeOK
  <2>3. ev' \in [Eval -> EvalRecord]
    BY <1>1, <2>2 DEF Shape
  <2>4. TypeOK'
    BY <1>1, <1>3, <2>3 DEF TypeInv, TypeOK
  <2> QED
    BY <1>1, <1>3, <2>4 DEF TypeInv
<1>4. /\ ev = [d \in Eval |-> ev[d]]
      /\ ev[e] = [f \in Fields |-> ev[e][f]]
  BY TypeShape DEF Shape
<1>5. /\ latest \in Report \cup {NoReport, Torn} /\ tree.code \in Nat /\ tree.head \in Nat
      /\ cases \in 0..MaxCases
      /\ ev[e].usd \in Nat /\ ev[e].code \in Nat /\ ev[e].head \in Nat
      /\ ev[e].report \in Report \cup {NoReport}
      /\ ev[e].pc = "start" => ev[e].scores = <<>>
      /\ ev[e].pc = "grade" => Len(ev[e].scores) < ev[e].size
      /\ ev[e].pc \in {"open", "write"} => ev[e].report \in Report
  BY <1>2 DEF TypeInv, TypeOK, EvalRecord, Tree
<1>6. CASE EvalStart(e)
  <2>1. /\ ev'[e].pc = IF cases = 0 THEN "exited" ELSE "grade"
        /\ ev'[e].size = cases /\ ev'[e].code = tree.code /\ ev'[e].head = tree.head
        /\ ev'[e].run = ev[e].run /\ ev'[e].iteration = ev[e].iteration
        /\ ev'[e].scores = ev[e].scores /\ ev'[e].usd = ev[e].usd
        /\ ev'[e].report = ev[e].report /\ ev[e].pc = "start" /\ UNCHANGED latest
    BY <1>4, <1>6 DEF EvalStart, Fields
  <2>2. ev'[e].pc = "grade" => cases > 0 /\ Len(ev[e].scores) = 0
    BY <2>1, <1>5, BoundsAssumption
  <2> QED
    BY <1>2, <1>5, <2>1, <2>2
<1>7. ASSUME NEW s \in Scores, NEW c \in Costs, EvalGrade(e, s, c)
      PROVE  /\ UNCHANGED latest
             /\ ev'[e].pc \in {"grade", "build"}
             /\ ev'[e].run = ev[e].run /\ ev'[e].iteration = ev[e].iteration
             /\ ev'[e].size = ev[e].size /\ ev'[e].scores \in Seq(Scores)
             /\ ev'[e].usd \in Nat /\ ev'[e].code = ev[e].code /\ ev'[e].head = ev[e].head
             /\ ev'[e].report = ev[e].report
             /\ ev'[e].pc = "grade" => Len(ev'[e].scores) < ev'[e].size
             /\ ev'[e].pc = "build" => Len(ev'[e].scores) \in 1..ev'[e].size
  <2> DEFINE scores == Append(ev[e].scores, s)
             spent  == ev[e].usd + c
  <2>1. /\ ev[e].pc = "grade" /\ UNCHANGED latest
        /\ ev'[e].pc = IF Len(scores) = ev[e].size \/ Hit(spent) THEN "build" ELSE "grade"
        /\ ev'[e].scores = scores /\ ev'[e].usd = spent
        /\ ev'[e].run = ev[e].run /\ ev'[e].iteration = ev[e].iteration
        /\ ev'[e].size = ev[e].size /\ ev'[e].code = ev[e].code /\ ev'[e].head = ev[e].head
        /\ ev'[e].report = ev[e].report
    BY <1>4, <1>7 DEF EvalGrade, Fields
  <2>2. /\ scores \in Seq(Scores) /\ Len(scores) = Len(ev[e].scores) + 1
        /\ Len(ev[e].scores) \in Nat /\ ev[e].size \in Nat
    BY <1>2
  <2>3. spent \in Nat
    BY <1>5, ScoresAssumption
  <2>4. Len(ev[e].scores) < ev[e].size
    BY <1>5, <2>1
  <2> HIDE DEF scores, spent
  <2>5. Len(scores) \in 1..ev[e].size
    BY <2>2, <2>4
  <2>6. ev'[e].pc = "grade" => Len(scores) < ev[e].size
    <3>1. ev'[e].pc = "grade" => Len(scores) # ev[e].size
      BY <2>1
    <3> QED
      BY <2>2, <2>5, <3>1
  <2> QED
    BY <2>1, <2>2, <2>3, <2>5, <2>6
<1>8. CASE EvalBuild(e)
  <2> DEFINE previous == IF Readable THEN latest.scores ELSE <<>>
  <2>1. previous \in Seq(Scores)
    <3>1. Readable => latest.scores \in Seq(Scores)
      BY <1>5 DEF Readable, Report
    <3>2. <<>> \in Seq(Scores)
      OBVIOUS
    <3> QED
      BY <3>1, <3>2
  <2>2. /\ ev[e].pc = "build" /\ UNCHANGED latest
        /\ ev'[e].pc = "open" /\ ev'[e].report = Built(e, previous)
        /\ ev'[e].run = ev[e].run /\ ev'[e].iteration = ev[e].iteration
        /\ ev'[e].size = ev[e].size /\ ev'[e].scores = ev[e].scores
        /\ ev'[e].usd = ev[e].usd /\ ev'[e].code = ev[e].code /\ ev'[e].head = ev[e].head
    BY <1>4, <1>8 DEF EvalBuild, Fields
  <2>3. Built(e, previous) \in Report
    BY <2>1, <2>2, BuiltType
  <2> HIDE DEF previous
  <2> QED
    BY <1>2, <1>5, <2>2, <2>3
<1>9. CASE EvalOpen(e)
  BY <1>2, <1>4, <1>5, <1>9 DEF EvalOpen, Fields
<1>10. CASE EvalWrite(e)
  BY <1>2, <1>4, <1>5, <1>10 DEF EvalWrite, Fields
<1>11. CASE EvalDies(e)
  BY <1>2, <1>4, <1>5, <1>11 DEF EvalDies, Fields
<1> QED
  BY <1>2, <1>5, <1>6, <1>7, <1>8, <1>9, <1>10, <1>11 DEF EvalStep

LEMMA TypeNext == TypeInv /\ [Next]_vars => TypeInv'
<1> SUFFICES ASSUME TypeInv, [Next]_vars PROVE TypeInv'
  OBVIOUS
<1>1. CASE Loop
  BY <1>1, LoopType, ReportTypes, FileType DEF Loop
<1>2. CASE LoopKilled \/ \E n \in IterationArgs : LoopStart(n)
  BY <1>2, LoopType
<1>3. CASE \E e \in Eval : EvalStep(e)
  BY <1>3, EvalType
<1>4. CASE UNCHANGED vars
  BY <1>4 DEF vars, run, TypeInv, TypeOK
<1> QED
  BY <1>1, <1>2, <1>3, <1>4 DEF Next

\* The state has its types, whatever is killed and whatever fails: what a fold
\* makes of the scores of an eval is a mean, between 0 and 100.
THEOREM TypeCorrect == Spec => []TypeOK
<1>1. Init => TypeInv
  BY TypeInit
<1>2. TypeInv /\ [Next]_vars => TypeInv'
  BY TypeNext
<1>3. TypeInv => TypeOK
  BY DEF TypeInv
<1> QED
  BY <1>1, <1>2, <1>3, PTL DEF Spec
-----------------------------------------------------------------------------
(* The line of evals.                                                      *)

LEMMA LineInit == Init => LineInv
<1> SUFFICES ASSUME Init PROVE LineInv
  OBVIOUS
<1>1. /\ child = 0 /\ pc = "off" /\ ~Readable /\ cases \in Nat
      /\ \A e \in Eval : ev[e] = Unborn
  BY BoundsAssumption DEF Init, Readable
<1>2. \A e \in Eval : ~(e <= 0)
  BY BoundsAssumption DEF Eval
<1>3. /\ Unborn.pc = "unborn" /\ Unborn.size = 0 /\ Unborn.usd = 0 /\ Unborn.scores = <<>>
      /\ 0 <= cases
  BY <1>1 DEF Unborn
<1> QED
  BY <1>1, <1>2, <1>3 DEF LineInv

\* Numbers are numbers: what the arithmetic below needs.
LEMMA LineTypes ==
  ASSUME TypeInv
  PROVE  /\ child \in 0..MaxEvals /\ child \in Nat /\ cases \in Nat
         /\ \A e \in Eval : /\ e \in Nat /\ e >= 1 /\ ev[e].size \in Nat
                            /\ ev[e].usd \in Nat /\ ev[e].scores \in Seq(Scores)
                            /\ e > 1 => e - 1 \in Eval
         /\ \A n \in Nat : n >= 1 /\ n <= child => n \in Eval
<1>1. child \in 0..MaxEvals /\ cases \in 0..MaxCases
  BY DEF TypeInv, TypeOK
<1>2. MaxEvals \in Nat /\ MaxCases \in Nat
  BY BoundsAssumption
<1>3. \A e \in Eval : ev[e].size \in 0..MaxCases /\ ev[e].usd \in Nat /\ ev[e].scores \in Seq(Scores)
  BY DEF TypeInv, TypeOK, EvalRecord
<1> QED
  BY <1>1, <1>2, <1>3 DEF Eval

\* Steps that leave the evals and latest.json alone, of a loop that is not
\* about to write there, keep the line.
LEMMA QuietLine ==
  ASSUME LineInv, TypeInv, TypeInv', UNCHANGED <<ev, latest, child>>, cases' >= cases,
         pc # "write", pc' \notin {"write", "wait"},
         pc' \in {"decide", "open"} =>
           child \in Eval /\ Tells(report', child) /\ ev[child].size # 0
  PROVE  LineInv'
<1>1. /\ \A e \in Eval : ev[e].size <= cases'
  <2>1. cases' \in Nat
    <3>1. cases' \in 0..MaxCases
      BY DEF TypeInv, TypeOK
    <3> QED
      BY <3>1
  <2>2. \A e \in Eval : ev[e].size <= cases
    BY DEF LineInv
  <2> QED
    BY <2>1, <2>2, LineTypes
<1>2. Readable' <=> Readable
  BY DEF Readable
<1> QED
  BY <1>1, <1>2 DEF LineInv, Tells

\* The steps of the loop that start no eval and write no file.
LEMMA LoopLine ==
  ASSUME EvalInv, EndInv, LineInv, TypeInv, TypeInv',
         \/ \E n \in IterationArgs : LoopStart(n)
         \/ RedTeam \/ (\E t \in Edits : CommitRaises(t)) \/ NoAgents
         \/ \E t \in Edits : \E outcome : BlueTeam(t, outcome)
         \/ Collect \/ Decide
  PROVE  LineInv'
<1>1. CASE \/ \E n \in IterationArgs : LoopStart(n)
           \/ RedTeam \/ (\E t \in Edits : CommitRaises(t)) \/ NoAgents
           \/ \E t \in Edits : \E outcome : BlueTeam(t, outcome)
  <2>1. /\ UNCHANGED <<ev, latest, child>>
        /\ pc \in {"off", "red", "blue"} /\ pc' \in {"off", "red", "blue", "eval"}
        /\ cases' = cases \/ cases' \in {cases, cases + 1} \cap 0..MaxCases
    BY <1>1 DEF LoopStart, RedTeam, CommitRaises, NoAgents, BlueTeam, Off, run
  <2>2. cases' >= cases
    BY <2>1, LineTypes
  <2> QED
    BY <2>1, <2>2, QuietLine
<1>2. CASE Collect
  <2>1. UNCHANGED <<ev, latest, child, cases>> /\ pc = "wait" /\ ev[child].pc = "exited"
    BY <1>2 DEF Collect, Exited, EndInv
  <2>2. \/ pc' = "off"
        \/ pc' = "decide" /\ report' = latest /\ Readable
    <3>1. ASSUME ~Readable PROVE pc' = "off"
      BY <1>2, <3>1 DEF Collect, Off
    <3>2. ASSUME Readable, i = 0 PROVE pc' = "off"
      BY <1>2, <3>2 DEF Collect, Off
    <3>3. ASSUME Readable, i > 0, i # 0 PROVE pc' = "decide" /\ report' = latest
      BY <1>2, <3>3 DEF Collect, Off
    <3>4. i = 0 \/ (i > 0 /\ i # 0)
      BY DEF EvalInv
    <3> QED
      BY <3>1, <3>2, <3>3, <3>4
  <2>3. child \in Eval /\ (Readable => latest.by = child)
    BY <2>1 DEF EndInv
  <2>4. Readable => Tells(latest, child) /\ ev[child].size # 0
    BY <2>3 DEF LineInv
  <2>5. cases' >= cases
    BY <2>1, LineTypes
  <2> QED
    BY <2>1, <2>2, <2>3, <2>4, <2>5, QuietLine
<1>3. CASE Decide
  <2>1. UNCHANGED <<ev, latest, child, cases>> /\ pc = "decide"
    BY <1>3 DEF Decide
  <2>2. child \in Eval /\ Tells(report, child) /\ ev[child].size # 0 /\ Sound(report)
    BY <2>1 DEF LineInv, EvalInv
  <2>3. cases' >= cases
    BY <2>1, LineTypes
  <2>4. ASSUME NEW reason, Stop(reason)
        PROVE  pc' = "open" /\ Tells(report', child)
    BY <2>2, <2>4 DEF Stop, Sound, ReportFields, Tells, TellsOf
  <2>5. GoOn => pc' \in {"red", "off"}
    BY DEF GoOn, Off
  <2>6. \/ pc' = "open" /\ Tells(report', child)
        \/ pc' \in {"red", "off"}
    BY <1>3, <2>4, <2>5 DEF Decide
  <2> QED
    BY <2>1, <2>2, <2>3, <2>6, QuietLine
<1> QED
  BY <1>1, <1>2, <1>3

\* An eval is started when all those before it have been.
LEMMA SpawnNext ==
  ASSUME EvalInv, LineInv, TypeInv, SpawnEval
  PROVE  child' = child + 1
<1>1. PICK e \in Eval :
        /\ ev[e].pc = "unborn"
        /\ \A d \in Eval : d < e => ev[d].pc # "unborn"
        /\ child' = e
  BY DEF SpawnEval
<1>2. e = child + 1
  <2>1. e > child
    BY <1>1, LineTypes DEF LineInv
  <2>2. ASSUME e > child + 1 PROVE FALSE
    <3>1. child + 1 \in Eval /\ child + 1 < e
      <4>1. MaxEvals \in Nat /\ e \in 1..MaxEvals /\ child \in Nat
        BY LineTypes, BoundsAssumption DEF Eval
      <4>2. child + 1 \in 1..MaxEvals /\ child + 1 < e
        BY <2>2, <4>1
      <4> QED
        BY <4>2 DEF Eval
    <3>2. ev[child + 1].pc # "unborn"
      BY <1>1, <3>1
    <3>3. child + 1 <= child
      BY <3>1, <3>2 DEF LineInv
    <3> QED
      BY <3>3, LineTypes
  <2>3. e \in Nat /\ child \in Nat
    BY LineTypes
  <2>4. ~(e > child + 1)
    BY <2>2
  <2> QED
    BY <2>1, <2>3, <2>4
<1> QED
  BY <1>1, <1>2

\* The next eval takes its place behind the last one.
LEMMA SpawnLine ==
  ASSUME EvalInv, EndInv, LineInv, TypeInv, SpawnEval
  PROVE  LineInv'
<1>1. PICK e \in Eval :
        /\ ev[e].pc = "unborn"
        /\ \A d \in Eval : d < e => ev[d].pc # "unborn"
        /\ child' = e
        /\ ev' = [ev EXCEPT ![e].pc = "start", ![e].run = runs,
                            ![e].iteration = i]
  BY DEF SpawnEval
<1>2. pc = "eval" /\ pc' = "wait" /\ UNCHANGED <<latest, cases, report>>
  BY DEF SpawnEval, run
<1>3. /\ \A d \in Eval : d # e => ev'[d] = ev[d]
      /\ ev'[e].pc = "start" /\ ev'[e].size = ev[e].size /\ ev'[e].usd = ev[e].usd
      /\ ev'[e].scores = ev[e].scores
  BY <1>1, TypeShape DEF Shape, Fields
<1>4. e = child + 1
  BY <1>1, SpawnNext
<1>5. \A d \in Eval : d <= e <=> d <= child \/ d = e
  BY <1>4, LineTypes
<1>6. \A d \in Eval : d <= child => d # e
  BY <1>4, LineTypes
<1>7. ev[e].size = 0 /\ ev[e].usd = 0 /\ ev[e].scores = <<>>
  BY <1>1 DEF LineInv
<1>8. \A d \in Eval : ev'[d].size = ev[d].size /\ ev'[d].scores = ev[d].scores /\ ev'[d].usd = ev[d].usd
  BY <1>3
<1>9. ASSUME NEW r, NEW d \in Eval PROVE TellsOf(r, d, ev') <=> TellsOf(r, d, ev)
  BY <1>8, LineTypes DEF TellsOf
<1>10. Readable => latest.by \in Eval
  BY DEF EvalInv, Sound
<1>11. Readable' => Tells(latest, latest.by)' /\ ev'[latest'.by].size # 0
  BY <1>2, <1>8, <1>9, <1>10 DEF LineInv, Readable, Tells
<1>12. child # 0 => child \in Eval /\ ev[child].pc = "exited"
  <2>1. child # 0 => child \in Eval /\ ev[child].pc # "unborn"
    BY LineTypes DEF LineInv
  <2>2. \A d \in Eval : ~Active(d)
    BY <1>2, NoneActive
  <2>3. child # 0 => ev[child].pc \in {"exited", "dead"}
    BY <2>1, <2>2 DEF Active, TypeInv, TypeOK, EvalRecord
  <2> QED
    BY <2>1, <2>3 DEF EndInv
<1>13. e > 1 /\ ev'[e-1].size # 0 => Readable' /\ latest'.by = e - 1
  <2>1. e - 1 = child /\ (e > 1 => child # 0)
    BY <1>4, LineTypes
  <2> QED
    BY <2>1, <1>2, <1>8, <1>12 DEF LineInv, Readable
<1>14. \A d, f \in Eval :
         d <= f /\ ev'[f].pc \notin {"unborn", "start"} => ev'[d].size <= ev'[f].size
  BY <1>3, <1>8 DEF LineInv
<1>15. \A d \in Eval : ev'[d].pc # "unborn" <=> d <= child'
  BY <1>1, <1>3, <1>5, <1>6 DEF LineInv
<1>16. \A d \in Eval :
         /\ ev'[d].size <= cases'
         /\ ev'[d].pc \in {"unborn", "start"} => ev'[d].size = 0 /\ ev'[d].usd = 0
         /\ ev'[d].size = 0 => ev'[d].scores = <<>>
         /\ ev'[d].pc \in {"grade", "build", "open", "write"} => ev'[d].size # 0
         /\ ev'[d].pc \in {"open", "write"} => TellsOf(ev'[d].report, d, ev')
  BY <1>2, <1>3, <1>7, <1>8, <1>9 DEF LineInv, Tells
<1>17. /\ pc' = "wait" /\ child' = e /\ e \in Eval /\ ev'[child'].pc = "start"
       /\ child' > 1 /\ ev'[child'-1].size # 0 => Readable' /\ latest'.by = child' - 1
  BY <1>1, <1>2, <1>3, <1>13
<1> QED
  BY <1>11, <1>14, <1>15, <1>16, <1>17 DEF LineInv, Tells

\* The loop opens latest.json and writes the report it has judged.
LEMMA StopLine ==
  ASSUME NullsAreNoReports, EvalInv, EndInv, LineInv, TypeInv, StopOpen \/ StopWrite
  PROVE  LineInv'
<1>1. /\ UNCHANGED <<ev, child, cases, report>> /\ pc \in {"open", "write"}
      /\ child \in Eval /\ Tells(report, child) /\ ev[child].size # 0 /\ Sound(report)
  BY DEF StopOpen, StopWrite, run, LineInv, EvalInv
<1>2. ev[child].pc = "exited" /\ report.by = child
  BY <1>1 DEF EndInv, Sound
<1>3. CASE StopOpen
  <2>1. pc' = "write" /\ ~Readable'
    BY <1>3 DEF StopOpen, Readable
  <2> QED
    BY <1>1, <1>2, <2>1 DEF LineInv, Tells
<1>4. CASE StopWrite
  <2>1. pc' = "off" /\ latest' = report
    BY <1>4 DEF StopWrite, Off
  <2>2. Readable' /\ latest'.by = child
    BY <2>1, <1>1, <1>2 DEF Readable, Sound, NullsAreNoReports
  <2> QED
    BY <1>1, <1>2, <2>1, <2>2 DEF LineInv, Tells
<1> QED
  BY <1>3, <1>4

\* The numbers of the evals.
LEMMA EvalNat ==
  /\ \A e \in Eval : e \in Nat /\ e >= 1 /\ (e > 1 => e - 1 \in Eval)
  /\ \A d, e \in Eval : d < e => d # e /\ d - 1 # e /\ d <= e
  /\ \A d, e \in Eval : d <= e /\ d # e => d < e
<1>1. MaxEvals \in Nat
  BY BoundsAssumption
<1> QED
  BY <1>1 DEF Eval

\* The effect of a step of an eval on its own record.
LEMMA EvalEffect ==
  ASSUME Shape, NEW e \in Eval, EvalStep(e)
  PROVE  /\ ev'[e].run = ev[e].run
         /\ \/ /\ ev[e].pc = "start" /\ ev'[e].size = cases
               /\ ev'[e].pc = IF cases = 0 THEN "exited" ELSE "grade"
               /\ ev'[e].scores = ev[e].scores /\ ev'[e].usd = ev[e].usd
               /\ UNCHANGED latest
            \/ /\ ev[e].pc = "grade" /\ ev'[e].size = ev[e].size
               /\ \E s \in Scores, c \in Costs :
                    /\ ev'[e].scores = Append(ev[e].scores, s)
                    /\ ev'[e].usd = ev[e].usd + c
                    /\ ev'[e].pc = IF \/ Len(Append(ev[e].scores, s)) = ev[e].size
                                      \/ Hit(ev[e].usd + c)
                                   THEN "build" ELSE "grade"
               /\ UNCHANGED latest
            \/ /\ ev[e].pc = "build" /\ ev'[e].pc = "open" /\ ev'[e].size = ev[e].size
               /\ ev'[e].scores = ev[e].scores /\ ev'[e].usd = ev[e].usd
               /\ ev'[e].report = Built(e, IF Readable THEN latest.scores ELSE <<>>)
               /\ UNCHANGED latest
            \/ /\ ev[e].pc = "open" /\ ev'[e].pc = "write" /\ ev'[e].size = ev[e].size
               /\ ev'[e].scores = ev[e].scores /\ ev'[e].usd = ev[e].usd
               /\ ev'[e].report = ev[e].report /\ latest' = Torn
            \/ /\ ev[e].pc = "write" /\ ev'[e].pc = "exited" /\ ev'[e].size = ev[e].size
               /\ ev'[e].scores = ev[e].scores /\ ev'[e].usd = ev[e].usd
               /\ latest' = ev[e].report
            \/ MayFail
<1>1. ev[e] = [f \in Fields |-> ev[e][f]] /\ ev = [d \in Eval |-> ev[d]]
  BY DEF Shape
<1>2. CASE EvalStart(e)
  BY <1>1, <1>2 DEF EvalStart, Fields
<1>3. ASSUME NEW s \in Scores, NEW c \in Costs, EvalGrade(e, s, c)
      PROVE  /\ ev[e].pc = "grade" /\ ev'[e].size = ev[e].size /\ ev'[e].run = ev[e].run
             /\ ev'[e].scores = Append(ev[e].scores, s)
             /\ ev'[e].usd = ev[e].usd + c
             /\ ev'[e].pc = IF \/ Len(Append(ev[e].scores, s)) = ev[e].size
                               \/ Hit(ev[e].usd + c)
                            THEN "build" ELSE "grade"
             /\ UNCHANGED latest
  BY <1>1, <1>3 DEF EvalGrade, Fields
<1>4. CASE EvalBuild(e)
  BY <1>1, <1>4 DEF EvalBuild, Fields
<1>5. CASE EvalOpen(e)
  BY <1>1, <1>5 DEF EvalOpen, Fields
<1>6. CASE EvalWrite(e)
  BY <1>1, <1>6 DEF EvalWrite, Fields
<1>7. CASE EvalDies(e)
  BY <1>1, <1>7 DEF EvalDies, Fields
<1> QED
  BY <1>2, <1>3, <1>4, <1>5, <1>6, <1>7 DEF EvalStep

\* What an eval compares with is what the eval before it has scored.
LEMMA BuildsOnPrevious ==
  ASSUME EvalInv, EndInv, LineInv, TypeInv, NEW e \in Eval, ev[e].pc = "build", child = e
  PROVE  (IF Readable THEN latest.scores ELSE <<>>) = IF e > 1 THEN ev[e-1].scores ELSE <<>>
<1>1. Readable =>
        /\ latest.by \in Eval /\ latest.by <= e - 1 /\ latest.by \in Nat
        /\ ev[latest.by].size # 0 /\ latest.scores = ev[latest.by].scores
        /\ ev[latest.by].pc = "exited"
  <2> SUFFICES ASSUME Readable
               PROVE  /\ latest.by \in Eval /\ latest.by <= e - 1 /\ latest.by \in Nat
                      /\ ev[latest.by].size # 0 /\ latest.scores = ev[latest.by].scores
                      /\ ev[latest.by].pc = "exited"
    OBVIOUS
  <2>1. /\ latest.by \in Eval /\ ev[latest.by].pc = "exited" /\ ev[latest.by].size # 0
        /\ latest.scores = ev[latest.by].scores
    BY DEF EvalInv, Sound, LineInv, Tells, TellsOf
  <2>2. latest.by <= e
    BY <2>1 DEF LineInv
  <2>3. latest.by # e
    BY <2>1
  <2>4. latest.by \in Nat /\ e \in Nat
    BY <2>1, LineTypes
  <2> QED
    BY <2>1, <2>2, <2>3, <2>4
<1>2. CASE e > 1
  <2>1. e - 1 \in Eval /\ e - 1 <= e /\ e \in Nat /\ ~(e <= e - 1)
    BY <1>2, LineTypes
  <2>2. ev[e-1].pc \notin {"unborn", "start"}
    <3>1. e - 1 <= child /\ e # e - 1
      BY <2>1
    <3>2. ev[e-1].pc # "unborn"
      BY <2>1, <3>1 DEF LineInv
    <3>3. ev[e-1].pc # "start"
      BY <2>1, <3>1 DEF EvalInv, Active
    <3> QED
      BY <3>2, <3>3
  <2>3. CASE ev[e-1].size # 0
    BY <1>2, <2>1, <2>3 DEF LineInv, Tells, TellsOf
  <2>4. CASE ev[e-1].size = 0
    <3>1. ev[e-1].scores = <<>>
      BY <2>1, <2>4 DEF LineInv
    <3>2. ~Readable
      <4> SUFFICES ASSUME Readable PROVE FALSE
        OBVIOUS
      <4>1. ev[latest.by].size <= ev[e-1].size
        BY <1>1, <2>1, <2>2 DEF LineInv
      <4>2. ev[latest.by].size \in Nat
        BY <1>1, LineTypes
      <4> QED
        BY <1>1, <2>4, <4>1, <4>2
    <3> QED
      BY <1>2, <3>1, <3>2
  <2> QED
    BY <2>3, <2>4
<1>3. CASE ~(e > 1)
  <2>1. e = 1
    BY <1>3, LineTypes
  <2>2. Readable => latest.by <= 0 /\ latest.by \in Eval
    BY <1>1, <2>1
  <2>3. ~Readable
    <3>1. latest.by \in Eval => latest.by >= 1 /\ latest.by \in Nat
      BY EvalNat
    <3> QED
      BY <2>2, <3>1
  <2> QED
    BY <1>3, <2>3
<1> QED
  BY <1>2, <1>3

\* A step of an eval keeps the line.
LEMMA EvalLine ==
  ASSUME ~MayFail, NullsAreNoReports, EvalInv, EndInv, LineInv, TypeInv, TypeInv',
         NEW e \in Eval, EvalStep(e)
  PROVE  LineInv'
<1>1. /\ Active(e) /\ pc = "wait" /\ child = e
      /\ \A d \in Eval : d # e => ~Active(d)
  BY DEF EvalInv, Active, EvalStep, EvalStart, EvalGrade, EvalBuild, EvalOpen,
         EvalWrite, EvalDies
<1>2. /\ \A d \in Eval : d # e => ev'[d] = ev[d]
      /\ UNCHANGED <<pc, child, cases>>
  BY EvalStepOne, TypeShape DEF run
<1>3. /\ Readable => /\ latest.by \in Eval /\ latest.by # e /\ Tells(latest, latest.by)
                     /\ ev[latest.by].size # 0 /\ latest.by < e
  <2>1. Readable => latest.by \in Eval /\ ev[latest.by].pc = "exited"
    BY DEF EvalInv, Sound
  <2>2. Readable => latest.by # e /\ latest.by <= e /\ Tells(latest, latest.by)
                    /\ ev[latest.by].size # 0
    BY <1>1, <2>1 DEF Active, LineInv
  <2> QED
    BY <2>1, <2>2, EvalNat
<1>4. ASSUME NEW r, NEW d \in Eval, d < e
      PROVE  TellsOf(r, d, ev') <=> TellsOf(r, d, ev)
  <2>1. d # e /\ (d > 1 => d - 1 \in Eval /\ d - 1 # e)
    BY <1>4, EvalNat
  <2> QED
    BY <1>2, <2>1 DEF TellsOf
<1>5. ASSUME UNCHANGED latest
      PROVE  Readable' => TellsOf(latest', latest'.by, ev') /\ ev'[latest'.by].size # 0
  BY <1>2, <1>3, <1>4, <1>5 DEF Readable, Tells
<1>6. e > 1 => e - 1 \in Eval /\ e - 1 # e
  BY EvalNat
<1>7. SUFFICES
        /\ ev'[e].pc \notin {"unborn", "start", "dead"} /\ ev'[e].size >= ev[e].size
        /\ ev'[e].size <= cases /\ \A d \in Eval : d < e => ev[d].size <= ev'[e].size
        /\ ev'[e].size = 0 => ev'[e].scores = <<>>
        /\ ev'[e].pc \in {"grade", "build", "open", "write"} => ev'[e].size # 0
        /\ ev'[e].pc \in {"open", "write"} => TellsOf(ev'[e].report, e, ev')
        /\ Readable' => TellsOf(latest', latest'.by, ev') /\ ev'[latest'.by].size # 0
        /\ ev'[e].pc = "exited" /\ ev'[e].size # 0 => Readable' /\ latest'.by = e
        /\ e > 1 /\ ev'[e].pc \in {"grade", "build", "open"} /\ ev[e-1].size # 0
             => Readable' /\ latest'.by = e - 1
  <2>1. \A d \in Eval : ev'[d].pc # "unborn" <=> d <= child'
    BY <1>1, <1>2, <1>7, LineTypes DEF LineInv
  <2>2. ASSUME NEW d \in Eval, NEW f \in Eval, d <= f, ev'[f].pc \notin {"unborn", "start"}
        PROVE  ev'[d].size <= ev'[f].size
    <3>1. f <= e
      BY <1>1, <1>2, <2>1, <2>2
    <3>2. CASE f = e /\ d = e
      <4>1. ev'[e].size \in Nat
        BY DEF TypeInv, TypeOK, EvalRecord
      <4> QED
        BY <3>2, <4>1
    <3>3. CASE f = e /\ d # e
      <4>1. d < e
        BY <2>2, <3>3, EvalNat
      <4> QED
        BY <1>2, <1>7, <3>3, <4>1
    <3>4. CASE f # e
      <4>1. f < e
        BY <3>1, <3>4, EvalNat
      <4>2. d # e
        <5>1. d \in Nat /\ e \in Nat /\ f \in Nat
          BY EvalNat
        <5> QED
          BY <2>2, <4>1, <5>1
      <4> QED
        BY <1>2, <2>2, <3>4, <4>2 DEF LineInv
    <3> QED
      BY <3>2, <3>3, <3>4
  <2>3. \A d \in Eval : d # e => ev[d].pc \notin {"open", "write"}
    BY <1>1 DEF Active
  <2>4. \A d \in Eval :
          /\ ev'[d].size <= cases'
          /\ ev'[d].pc \in {"unborn", "start"} => ev'[d].size = 0 /\ ev'[d].usd = 0
          /\ ev'[d].size = 0 => ev'[d].scores = <<>>
          /\ ev'[d].pc \in {"grade", "build", "open", "write"} => ev'[d].size # 0
          /\ ev'[d].pc \in {"open", "write"} => TellsOf(ev'[d].report, d, ev')
    BY <1>2, <1>7, <2>3 DEF LineInv
  <2>5. /\ pc' = "wait" /\ child' = e /\ e \in Eval
        /\ e > 1 => ev'[e-1].size = ev[e-1].size
    BY <1>1, <1>2, <1>6
  <2> QED
    BY <1>7, <2>1, <2>2, <2>4, <2>5 DEF LineInv, Tells
<1>8. /\ ev[e].size <= cases /\ \A d \in Eval : d < e => ev[d].size <= cases
      /\ ev[e].pc = "start" => ev[e].size = 0 /\ ev[e].scores = <<>>
      /\ ev[e].pc # "start" => \A d \in Eval : d < e => ev[d].size <= ev[e].size
      /\ ev[e].pc \in {"grade", "build", "open", "write"} => ev[e].size # 0
      /\ ev[e].pc \in {"open", "write"} => TellsOf(ev[e].report, e, ev)
      /\ e > 1 /\ ev[e].pc \in {"start", "grade", "build", "open"} /\ ev[e-1].size # 0
           => Readable /\ latest.by = e - 1
  <2>1. \A d \in Eval : d < e => d <= e
    BY EvalNat
  <2>2. ev[e].pc # "unborn"
    BY <1>1 DEF Active
  <2>3. ev[e].pc = "start" => ev[e].scores = <<>>
    BY DEF TypeInv
  <2> QED
    BY <1>1, <2>1, <2>2, <2>3 DEF LineInv, Tells
<1>9. ev[e].size \in Nat /\ cases \in Nat /\ ev'[e].size \in Nat
  <2>1. ev[e].size \in Nat /\ cases \in Nat
    BY LineTypes
  <2>2. ev'[e].size \in 0..MaxCases
    BY DEF TypeInv, TypeOK, EvalRecord
  <2> QED
    BY <2>1, <2>2
<1>10. ASSUME ev'[e].scores = ev[e].scores, ev'[e].usd = ev[e].usd, NEW r
       PROVE  TellsOf(r, e, ev') <=> TellsOf(r, e, ev)
  BY <1>2, <1>6, <1>10 DEF TellsOf
<1>11. CASE /\ ev[e].pc = "start" /\ ev'[e].size = cases
            /\ ev'[e].pc = IF cases = 0 THEN "exited" ELSE "grade"
            /\ ev'[e].scores = ev[e].scores /\ ev'[e].usd = ev[e].usd
            /\ UNCHANGED latest
  <2>1. Readable' <=> Readable
    BY <1>11 DEF Readable
  <2> QED
    BY <1>5, <1>8, <1>9, <1>11, <2>1
<1>12. CASE /\ ev[e].pc = "grade" /\ ev'[e].size = ev[e].size
            /\ ev'[e].pc \in {"build", "grade"}
            /\ UNCHANGED latest
  <2>1. Readable' <=> Readable
    BY <1>12 DEF Readable
  <2> QED
    BY <1>5, <1>8, <1>9, <1>12, <2>1
<1>13. CASE /\ ev[e].pc = "build" /\ ev'[e].pc = "open" /\ ev'[e].size = ev[e].size
            /\ ev'[e].scores = ev[e].scores /\ ev'[e].usd = ev[e].usd
            /\ ev'[e].report = Built(e, IF Readable THEN latest.scores ELSE <<>>)
            /\ UNCHANGED latest
  <2>1. Readable' <=> Readable
    BY <1>13 DEF Readable
  <2> DEFINE previous == IF Readable THEN latest.scores ELSE <<>>
  <2>2. previous = IF e > 1 THEN ev[e-1].scores ELSE <<>>
    BY <1>1, <1>13, BuildsOnPrevious
  <2> HIDE DEF previous
  <2>3. TellsOf(Built(e, previous), e, ev)
    BY <2>2 DEF TellsOf, Built
  <2>4. TellsOf(ev'[e].report, e, ev')
    BY <1>10, <1>13, <2>3 DEF previous
  <2> QED
    BY <1>5, <1>8, <1>9, <1>13, <2>1, <2>4
<1>14. CASE /\ ev[e].pc = "open" /\ ev'[e].pc = "write" /\ ev'[e].size = ev[e].size
            /\ ev'[e].scores = ev[e].scores /\ ev'[e].usd = ev[e].usd
            /\ ev'[e].report = ev[e].report /\ latest' = Torn
  <2>1. ~Readable'
    BY <1>14 DEF Readable
  <2>2. TellsOf(ev'[e].report, e, ev')
    BY <1>8, <1>10, <1>14
  <2> QED
    BY <1>8, <1>9, <1>14, <2>1, <2>2
<1>15. CASE /\ ev[e].pc = "write" /\ ev'[e].pc = "exited" /\ ev'[e].size = ev[e].size
            /\ ev'[e].scores = ev[e].scores /\ ev'[e].usd = ev[e].usd
            /\ latest' = ev[e].report
  <2>1. Readable' /\ latest'.by = e
    <3>1. DOMAIN ev[e].report = ReportFields /\ ev[e].report.by = e
      BY <1>15 DEF EvalInv
    <3> QED
      BY <1>15, <3>1 DEF Readable, NullsAreNoReports
  <2>2. TellsOf(latest', e, ev')
    BY <1>8, <1>10, <1>15
  <2> QED
    BY <1>8, <1>9, <1>15, <2>1, <2>2
<1> QED
  BY <1>11, <1>12, <1>13, <1>14, <1>15, EvalEffect, TypeShape

\* Every step keeps the line.
LEMMA LineNext ==
  ASSUME MaxKills = 0, ~MayFail, NullsAreNoReports, EvalInv, EndInv, TypeInv, TypeInv',
         LineInv, [Next]_vars
  PROVE  LineInv'
<1>1. CASE Loop
  BY <1>1, LoopLine, SpawnLine, StopLine DEF Loop
<1>2. CASE \E n \in IterationArgs : LoopStart(n)
  BY <1>2, LoopLine
<1>3. CASE \E e \in Eval : EvalStep(e)
  BY <1>3, EvalLine
<1>4. CASE LoopKilled
  BY <1>4 DEF LoopKilled, EvalInv
<1>5. CASE UNCHANGED vars
  BY <1>5 DEF vars, run, LineInv, Readable, Tells
<1> QED
  BY <1>1, <1>2, <1>3, <1>4, <1>5 DEF Next
-----------------------------------------------------------------------------
(* The loop goes on after no regression.                                   *)

\* Without --budget-usd an eval that is over has graded all its cases; and a
\* loop that goes on has seen no regression between its last two evals.
AnchorInv ==
  /\ \A e \in Eval :
       ev[e].pc \in {"build", "open", "write", "exited"} => Len(ev[e].scores) = ev[e].size
  /\ Continuing => /\ child \in Eval /\ Tells(report, child)
                   /\ ~AnchorRegression(Cfg, report.regressions)

\* The evals that the loop waits for take the steps of the evals.
LEMMA EvalOfLoop ==
  ASSUME EvalInv, NEW e \in Eval, EvalStep(e)
  PROVE  /\ Active(e) /\ pc = "wait" /\ child = e
         /\ \A d \in Eval : d # e => ev'[d] = ev[d]
         /\ UNCHANGED <<pc, run, child, cases, tree, runs, kills, end>>
<1>1. Active(e)
  BY DEF Active, EvalStep, EvalStart, EvalGrade, EvalBuild, EvalOpen, EvalWrite, EvalDies
<1> QED
  BY <1>1, EvalStepOne DEF EvalInv

\* What a step that is not an eval's does to the evals.
LEMMA SpawnEffect ==
  ASSUME EvalInv, SpawnEval
  PROVE  /\ pc = "eval" /\ pc' = "wait" /\ UNCHANGED <<run, latest, cases, runs, end>>
         /\ child' \in Eval /\ ev[child'].pc = "unborn"
         /\ ev'[child'].pc = "start" /\ ev'[child'].run = runs
         /\ \A d \in Eval : d # child' => ev'[d] = ev[d]
         /\ \A d \in Eval : ev'[d].usd = ev[d].usd /\ ev'[d].scores = ev[d].scores
<1>1. PICK e \in Eval :
        /\ ev[e].pc = "unborn"
        /\ child' = e
        /\ ev' = [ev EXCEPT ![e].pc = "start", ![e].run = runs,
                            ![e].iteration = i]
  BY DEF SpawnEval
<1>2. pc = "eval" /\ pc' = "wait" /\ UNCHANGED <<run, latest, cases, runs, end>>
  BY DEF SpawnEval
<1>3. /\ \A d \in Eval : d # e => ev'[d] = ev[d]
      /\ ev'[e].pc = "start" /\ ev'[e].run = runs
      /\ ev'[e].usd = ev[e].usd /\ ev'[e].scores = ev[e].scores
  BY <1>1 DEF EvalInv, Shape, Fields
<1> QED
  BY <1>1, <1>2, <1>3

\* The loop ends or has a report to judge.
LEMMA CollectEffect ==
  ASSUME EvalInv, Collect
  PROVE  /\ pc = "wait" /\ Exited(child)
         /\ UNCHANGED <<iterations, i, usd, history, outcomes, child, ev, latest, cases, runs>>
         /\ \/ pc' = "off" /\ end' # "stopped" /\ UNCHANGED report
            \/ pc' = "decide" /\ report' = latest /\ Readable
<1>1. ASSUME ~Readable PROVE pc' = "off" /\ end' # "stopped" /\ UNCHANGED report
  BY <1>1 DEF Collect, Off
<1>2. ASSUME Readable, i = 0 PROVE pc' = "off" /\ end' # "stopped" /\ UNCHANGED report
  BY <1>2 DEF Collect, Off
<1>3. ASSUME Readable, i > 0, i # 0 PROVE pc' = "decide" /\ report' = latest
  BY <1>3 DEF Collect, Off
<1>4. i = 0 \/ (i > 0 /\ i # 0)
  BY DEF EvalInv
<1> QED
  BY <1>1, <1>2, <1>3, <1>4 DEF Collect

LEMMA AnchorInit == Init => AnchorInv
BY DEF Init, AnchorInv, Unborn, Continuing

\* An eval ends when it has graded all its cases, as no budget stops it.
LEMMA FullNext ==
  ASSUME MaxKills = 0, ~MayFail, BudgetFlag = NoLimit, EvalInv, TypeInv, [Next]_vars,
         \A e \in Eval : ev[e].pc \in {"build", "open", "write", "exited"}
                           => Len(ev[e].scores) = ev[e].size,
         NEW d \in Eval, ev'[d].pc \in {"build", "open", "write", "exited"}
  PROVE  Len(ev'[d].scores) = ev'[d].size
<1>1. CASE UNCHANGED ev
  BY <1>1
<1>2. CASE SpawnEval
  BY <1>2, SpawnEffect
<1>3. ASSUME NEW e \in Eval, EvalStep(e) PROVE Len(ev'[d].scores) = ev'[d].size
  <2>1. CASE d # e
    BY <1>3, <2>1, EvalOfLoop
  <2>2. CASE d = e
    <3>1. ASSUME ev[e].pc = "start", ev'[e].size = cases,
                 ev'[e].pc = IF cases = 0 THEN "exited" ELSE "grade",
                 ev'[e].scores = ev[e].scores
          PROVE  Len(ev'[d].scores) = ev'[d].size
      BY <2>2, <3>1 DEF TypeInv
    <3>2. ASSUME ev'[e].size = ev[e].size,
                 NEW s \in Scores, NEW c \in Costs,
                 ev'[e].scores = Append(ev[e].scores, s),
                 ev'[e].pc = IF \/ Len(Append(ev[e].scores, s)) = ev[e].size
                                \/ Hit(ev[e].usd + c)
                             THEN "build" ELSE "grade"
          PROVE  Len(ev'[d].scores) = ev'[d].size
      <4>1. ~Hit(ev[e].usd + c)
        BY DEF Hit
      <4> QED
        BY <2>2, <3>2, <4>1
    <3>3. ASSUME ev[e].pc \in {"build", "open", "write"}, ev'[e].size = ev[e].size,
                 ev'[e].scores = ev[e].scores
          PROVE  Len(ev'[d].scores) = ev'[d].size
      BY <2>2, <3>3
    <3> QED
      BY <1>3, <3>1, <3>2, <3>3, EvalEffect DEF EvalInv
  <2> QED
    BY <2>1, <2>2
<1>4. UNCHANGED ev \/ SpawnEval \/ \E e \in Eval : EvalStep(e)
  BY DEF Next, Loop, LoopStart, RedTeam, CommitRaises, NoAgents, BlueTeam, Collect, Decide,
         StopOpen, StopWrite, LoopKilled, vars
<1> QED
  BY <1>1, <1>2, <1>3, <1>4

\* An iteration that is not the first follows a verdict to go on.
LEMMA ContinuingAfter ==
  ASSUME EvalInv, LineInv, [Next]_vars, Continuing'
  PROVE  \/ /\ Decide /\ GoOn /\ Verdict(usd') = NoReason
            /\ UNCHANGED <<ev, child, report, runs>>
         \/ Continuing /\ UNCHANGED <<ev, child, report, runs, usd>>
<1>1. pc' = "red" /\ i' > 1
  BY DEF Continuing
<1>2. CASE Decide
  BY <1>1, <1>2 DEF Decide, Stop, GoOn
<1>3. CASE \E e \in Eval : EvalStep(e)
  BY <1>1, <1>3, EvalOfLoop
<1>4. CASE Collect
  BY <1>1, <1>4, CollectEffect
<1>5. CASE \E n \in IterationArgs : LoopStart(n)
  <2>1. i' = 0 \/ i' = 1
    BY <1>5 DEF LoopStart
  <2> QED
    BY <1>1, <2>1
<1>6. CASE UNCHANGED vars
  BY <1>1, <1>6 DEF vars, run, Continuing
<1>7. CASE \/ RedTeam \/ (\E t \in Edits : CommitRaises(t)) \/ NoAgents \/ SpawnEval \/ StopOpen \/ StopWrite
           \/ LoopKilled \/ \E t \in Edits : \E outcome : BlueTeam(t, outcome)
  BY <1>1, <1>7 DEF RedTeam, CommitRaises, NoAgents, SpawnEval, StopOpen, StopWrite,
                    LoopKilled, BlueTeam, Off
<1> QED
  BY <1>2, <1>3, <1>4, <1>5, <1>6, <1>7 DEF Next, Loop

\* Every step keeps the anchor invariant.
LEMMA AnchorNext ==
  ASSUME MaxKills = 0, ~MayFail, BudgetFlag = NoLimit, EvalInv, TypeInv, LineInv, AnchorInv,
         [Next]_vars
  PROVE  AnchorInv'
<1>1. ASSUME NEW d \in Eval, ev'[d].pc \in {"build", "open", "write", "exited"}
      PROVE  Len(ev'[d].scores) = ev'[d].size
  BY <1>1, FullNext DEF AnchorInv
<1>2. ASSUME Continuing'
      PROVE  /\ child' \in Eval /\ Tells(report, child)'
             /\ ~AnchorRegression(Cfg, report'.regressions)
  <2>1. CASE /\ Decide /\ GoOn /\ Verdict(usd') = NoReason
             /\ UNCHANGED <<ev, child, report, runs>>
    <3>1. pc = "decide"
      BY <2>1 DEF Decide
    <3>2. child \in Eval /\ Tells(report, child)
      BY <3>1 DEF LineInv
    <3> QED
      BY <2>1, <3>2, VerdictGoesOn DEF Tells
  <2>2. CASE Continuing /\ UNCHANGED <<ev, child, report, runs, usd>>
    BY <2>2 DEF AnchorInv, Tells
  <2> QED
    BY <1>2, <2>1, <2>2, ContinuingAfter
<1>3. Cfg' = Cfg
  BY DEF Cfg
<1> QED
  BY <1>1, <1>2, <1>3 DEF AnchorInv

\* What an eval compares with is the eval that graded the case last: no eval
\* has seen more cases than the one before.
LEMMA BeforeIsPrevious ==
  ASSUME EvalInv, EndInv, TypeInv, LineInv, AnchorInv, Continuing, child \in Eval,
         NEW k \in Nat \ {0}, Before(child, k) > 0
  PROVE  child > 1 /\ Before(child, k) = child - 1 /\ k \in DOMAIN ev[child-1].scores
<1> DEFINE S == {m \in 0..(child-1) : m = 0 \/ Graded(m, k)}
<1>1. child \in Nat /\ child >= 1 /\ MaxEvals \in Nat
  BY EvalNat, BoundsAssumption
<1>2. Before(child, k) = CHOOSE x \in S : \A y \in S : x >= y
  BY DEF Before, Max
<1>3. ASSUME NEW x \in S, \A y \in S : x >= y PROVE Before(child, k) = x
  <2>1. S \subseteq Int
    OBVIOUS
  <2> HIDE DEF S
  <2>2. Before(child, k) \in S /\ \A y \in S : Before(child, k) >= y
    BY <1>2, <1>3
  <2>3. x \in Int /\ Before(child, k) \in Int /\ x >= Before(child, k) /\ Before(child, k) >= x
    BY <1>3, <2>1, <2>2
  <2> QED
    BY <2>3
<1>4. CASE child > 1 /\ Graded(child - 1, k)
  <2>1. child - 1 \in S /\ \A y \in S : child - 1 >= y
    BY <1>1, <1>4
  <2> HIDE DEF S
  <2> QED
    BY <1>3, <1>4, <2>1 DEF Graded
<1>5. CASE ~(child > 1 /\ Graded(child - 1, k))
  <2>1. ASSUME NEW m \in 1..(child-1), Graded(m, k) PROVE FALSE
    <3>1. child > 1 /\ m \in Eval /\ child - 1 \in Eval /\ m <= child - 1
      BY <1>1, EvalNat DEF Eval
    <3>2. m <= child /\ child - 1 <= child /\ m # child /\ child - 1 # child
      BY <1>1, <3>1
    <3>3. ASSUME NEW d \in Eval, d <= child PROVE ev[d].pc = "exited"
      <4>1. ev[d].pc # "unborn" /\ ev[d].pc # "dead"
        BY <3>3 DEF LineInv, EndInv
      <4>2. ~Active(d)
        BY NoneActive DEF Continuing
      <4>3. ev[d].pc \in {"unborn", "start", "grade", "build", "open", "write", "exited", "dead"}
        BY DEF TypeInv, TypeOK, EvalRecord
      <4> QED
        BY <4>1, <4>2, <4>3 DEF Active
    <3>4. /\ Len(ev[m].scores) = ev[m].size
          /\ Len(ev[child-1].scores) = ev[child-1].size
          /\ ev[m].size <= ev[child-1].size
      BY <3>1, <3>2, <3>3 DEF AnchorInv, LineInv
    <3>5. DOMAIN ev[m].scores = 1..ev[m].size /\ DOMAIN ev[child-1].scores = 1..ev[child-1].size
      BY <3>1, <3>4, LineTypes
    <3>6. ev[m].size \in Nat /\ ev[child-1].size \in Nat
      BY <3>1, LineTypes
    <3>7. k \in 1..ev[child-1].size
      BY <2>1, <3>4, <3>5, <3>6 DEF Graded
    <3> QED
      BY <1>5, <3>1, <3>5, <3>7 DEF Graded
  <2>2. S = {0}
    BY <1>1, <2>1
  <2> HIDE DEF S
  <2>3. Before(child, k) = 0
    BY <1>3, <2>2
  <2> QED
    BY <2>3
<1> QED
  BY <1>4, <1>5

\* A case that fell by the threshold would be among the regressions of the
\* report that the loop has judged.
LEMMA AnchorGives ==
  ASSUME EvalInv, EndInv, TypeInv, LineInv, AnchorInv
  PROVE  AnchorHalts
<1> SUFFICES ASSUME Continuing, NEW k \in DOMAIN ev[child].scores,
                    Before(child, k) > 0,
                    ev[Before(child, k)].scores[k] >= PassMark,
                    ev[child].scores[k] < PassMark
             PROVE  ev[Before(child, k)].scores[k] - ev[child].scores[k] < AnchorThreshold
  BY DEF AnchorHalts
<1>1. child \in Eval /\ Tells(report, child) /\ ~AnchorRegression(Cfg, report.regressions)
  BY DEF AnchorInv
<1>2. ev[child].scores \in Seq(Scores) /\ k \in Nat \ {0}
  <2>1. ev[child].scores \in Seq(Scores)
    BY <1>1, LineTypes
  <2> QED
    BY <2>1
<1>3. /\ child > 1 /\ Before(child, k) = child - 1 /\ child - 1 \in Eval
      /\ k \in DOMAIN ev[child-1].scores
  BY <1>1, <1>2, BeforeIsPrevious, EvalNat
<1> DEFINE p == ev[child-1].scores[k]
           c == ev[child].scores[k]
           r == [case |-> k, previous |-> p, current |-> c]
<1>4. r \in report.regressions
  BY <1>1, <1>3 DEF Tells, TellsOf, Regressions
<1>5. ~(r.previous - r.current >= Cfg.anchorThreshold)
  BY <1>1, <1>4 DEF AnchorRegression
<1>6. ~(p - c >= AnchorThreshold)
  BY <1>5 DEF Cfg
<1>7. p \in Int /\ c \in Int /\ AnchorThreshold \in Int
  <2>1. ev[child-1].scores \in Seq(Scores)
    BY <1>3, LineTypes
  <2>2. p \in Scores /\ c \in Scores
    BY <1>2, <1>3, <2>1
  <2> HIDE DEF p, c, r
  <2> QED
    BY <2>2, ScoresAssumption, SettingsAssumption
<1> HIDE DEF p, c
<1>8. p - c < AnchorThreshold
  BY <1>6, <1>7
<1> QED
  BY <1>3, <1>8 DEF p, c
-----------------------------------------------------------------------------
(* The loop's sum is what its evals have spent.                            *)

\* What the loop has added up is what its evals have spent.
Usd == [e \in Eval |-> ev[e].usd]
SpentInv ==
  /\ \A e \in Eval : ev[e].pc # "unborn" => ev[e].run <= runs
  /\ pc \in {"wait", "decide"} => ev[child].run = runs
  /\ pc \in {"red", "blue", "eval"} => usd = Total(Usd, Own)
  /\ pc \in {"wait", "decide"} => usd = Total(Usd, Own \ {child})
  /\ Continuing => ~BudgetExceeded(Cfg, usd)

LEMMA SpentIs == Spent = Total(Usd, Own)
BY DEF Spent, Usd, Total

\* The sum is over finitely many numbers.
LEMMA SpentTypes ==
  ASSUME TypeInv
  PROVE  /\ IsFiniteSet(Own) /\ \A S \in SUBSET Own : IsFiniteSet(S)
         /\ \A e \in Own : Usd[e] \in Int
         /\ \A e \in Eval : Usd[e] = ev[e].usd /\ ev[e].usd \in Nat
<1>1. MaxEvals \in Int /\ 1 \in Int
  BY BoundsAssumption
<1>2. IsFiniteSet(Eval)
  BY <1>1, FS_Interval DEF Eval
<1>3. Own \subseteq Eval
  BY DEF Own
<1>4. \A e \in Eval : Usd[e] = ev[e].usd /\ ev[e].usd \in Nat
  BY LineTypes DEF Usd
<1>5. \A S \in SUBSET Eval : IsFiniteSet(S)
  BY <1>2, FS_Subset
<1> QED
  BY <1>3, <1>4, <1>5

LEMMA SpentInit == Init => SpentInv
BY DEF Init, SpentInv, Unborn, Continuing

\* Steps that leave the evals alone.
LEMMA QuietSpent ==
  ASSUME SpentInv, UNCHANGED <<ev, runs, child, usd>>,
         pc' = "off" \/ pc' = "open" \/ pc' = "write" \/ pc' = pc
         \/ (pc \in {"red", "blue"} /\ pc' \in {"blue", "eval"})
         \/ (pc = "wait" /\ pc' = "decide"),
         Continuing' => Continuing
  PROVE  SpentInv'
<1>1. Own' = Own /\ Usd' = Usd
  BY DEF Own, Usd
<1>2. Cfg' = Cfg
  BY DEF Cfg
<1> QED
  BY <1>1, <1>2 DEF SpentInv

\* A loop that starts has no evals and has spent nothing.
LEMMA StartSpent ==
  ASSUME TypeInv, SpentInv, NEW n \in IterationArgs, LoopStart(n)
  PROVE  SpentInv'
<1>1. /\ UNCHANGED <<ev, child>> /\ runs' = runs + 1 /\ usd' = 0
      /\ pc' \in {"red", "eval"} /\ i' \in {0, 1}
  BY DEF LoopStart
<1>2. runs \in Nat /\ \A e \in Eval : ev[e].run \in Nat
  <2>1. runs \in 0..MaxRuns /\ \A e \in Eval : ev[e].run \in 0..MaxRuns
    BY DEF TypeInv, TypeOK, EvalRecord
  <2> QED
    BY <2>1
<1>3. \A e \in Eval : ev[e].pc # "unborn" => ev[e].run <= runs
  BY DEF SpentInv
<1>4. \A e \in Eval : ev[e].pc # "unborn" => ev[e].run <= runs + 1 /\ ev[e].run # runs + 1
  BY <1>2, <1>3
<1>5. Own' = {}
  BY <1>1, <1>4 DEF Own
<1>6. Total(Usd', Own') = 0
  BY <1>5, FS_EmptySet, TotalPick
<1>7. ~Continuing'
  BY <1>1 DEF Continuing
<1> QED
  BY <1>1, <1>4, <1>6, <1>7 DEF SpentInv

\* The new eval is the one whose spend is not in the sum yet, ...
LEMMA SpawnSpent ==
  ASSUME EvalInv, TypeInv, SpentInv, SpawnEval
  PROVE  SpentInv'
<1>1. /\ pc = "eval" /\ pc' = "wait" /\ UNCHANGED <<usd, runs>>
      /\ child' \in Eval /\ ev[child'].pc = "unborn"
      /\ ev'[child'].pc = "start" /\ ev'[child'].run = runs
      /\ \A d \in Eval : d # child' => ev'[d] = ev[d]
      /\ \A d \in Eval : ev'[d].usd = ev[d].usd
  BY SpawnEffect DEF run
<1>2. Own' = Own \cup {child'} /\ child' \notin Own
  BY <1>1 DEF Own
<1>3. Own' \ {child'} = Own
  BY <1>2
<1>4. Usd' = Usd
  BY <1>1 DEF Usd
<1>5. usd' = Total(Usd', Own' \ {child'})
  BY <1>1, <1>3, <1>4 DEF SpentInv
<1>6. runs \in Nat
  <2>1. runs \in 0..MaxRuns
    BY DEF TypeInv, TypeOK
  <2> QED
    BY <2>1
<1>7. \A d \in Eval : ev'[d].pc # "unborn" => ev'[d].run <= runs
  BY <1>1, <1>6 DEF SpentInv
<1>8. ~Continuing'
  BY <1>1 DEF Continuing
<1> QED
  BY <1>1, <1>5, <1>7, <1>8 DEF SpentInv

\* ... and only its spend changes.
LEMMA EvalSpent ==
  ASSUME ~MayFail, EvalInv, TypeInv, SpentInv, NEW e \in Eval, EvalStep(e)
  PROVE  SpentInv'
<1>1. /\ Active(e) /\ pc = "wait" /\ child = e
      /\ \A d \in Eval : d # e => ev'[d] = ev[d]
      /\ UNCHANGED <<pc, usd, i, child, runs>>
  BY EvalOfLoop DEF run
<1>2. ev'[e].run = ev[e].run /\ ev'[e].pc # "unborn" /\ ev[e].pc # "unborn"
  BY <1>1, EvalEffect DEF Active, EvalInv
<1>3. Own' = Own
  <2>1. \A d \in Eval : /\ ev'[d].run = ev[d].run
                        /\ ev'[d].pc = "unborn" <=> ev[d].pc = "unborn"
    BY <1>1, <1>2
  <2> QED
    BY <1>1, <2>1 DEF Own
<1>4. Total(Usd', Own \ {e}) = Total(Usd, Own \ {e})
  <2>1. \A d \in Own \ {e} : Usd'[d] = Usd[d]
    BY <1>1 DEF Own, Usd
  <2>2. IsFiniteSet(Own \ {e})
    BY SpentTypes
  <2> QED
    BY <2>1, <2>2, TotalSame
<1>5. usd' = Total(Usd', Own' \ {child'})
  BY <1>1, <1>3, <1>4 DEF SpentInv
<1>6. \A d \in Eval : ev'[d].pc # "unborn" => ev'[d].run <= runs
  BY <1>1, <1>2 DEF SpentInv
<1>7. ~Continuing' /\ ev'[child'].run = runs'
  BY <1>1, <1>2 DEF Continuing, SpentInv
<1> QED
  BY <1>1, <1>5, <1>6, <1>7 DEF SpentInv

\* The loop adds what the report says that its eval has spent.
LEMMA DecideSpent ==
  ASSUME EvalInv, TypeInv, LineInv, SpentInv, Decide
  PROVE  SpentInv'
<1>1. /\ pc = "decide" /\ usd' = usd + report.usd /\ UNCHANGED <<ev, child, runs>>
      /\ \/ Verdict(usd') = NoReason /\ GoOn
         \/ Stop(Verdict(usd'))
  BY DEF Decide
<1>2. child \in Eval /\ report.usd = ev[child].usd /\ ev[child].pc # "unborn"
  <2>1. child \in Eval /\ Tells(report, child)
    BY <1>1 DEF LineInv
  <2>2. child <= child
    BY <2>1, EvalNat
  <2> QED
    BY <2>1, <2>2 DEF LineInv, Tells, TellsOf
<1>3. child \in Own /\ usd = Total(Usd, Own \ {child})
  BY <1>1, <1>2 DEF SpentInv, Own
<1>4. usd' = Total(Usd, Own)
  <2>1. Total(Usd, Own) = Usd[child] + Total(Usd, Own \ {child})
    BY <1>3, SpentTypes, TotalTakes
  <2>2. Usd[child] = report.usd /\ report.usd \in Nat /\ usd \in Nat
    BY <1>2, SpentTypes DEF TypeInv, TypeOK
  <2>3. usd + report.usd = report.usd + usd
    BY <2>2
  <2> QED
    BY <1>1, <1>3, <2>1, <2>2, <2>3
<1>5. Own' = Own /\ Usd' = Usd /\ Cfg' = Cfg
  BY <1>1 DEF Own, Usd, Cfg
<1>6. \/ pc' \in {"red", "off"} /\ ~BudgetExceeded(Cfg, usd')
      \/ pc' = "open"
  BY <1>1, VerdictGoesOn DEF GoOn, Stop, Off
<1> QED
  BY <1>1, <1>4, <1>5, <1>6 DEF SpentInv, Continuing

\* Every step keeps the sum.
LEMMA SpentNext ==
  ASSUME MaxKills = 0, ~MayFail, EvalInv, TypeInv, LineInv, SpentInv, [Next]_vars
  PROVE  SpentInv'
<1>1. CASE \E n \in IterationArgs : LoopStart(n)
  BY <1>1, StartSpent
<1>2. CASE SpawnEval
  BY <1>2, SpawnSpent
<1>3. CASE Decide
  BY <1>3, DecideSpent
<1>4. CASE \E e \in Eval : EvalStep(e)
  BY <1>4, EvalSpent
<1>5. CASE Collect
  BY <1>5, CollectEffect, QuietSpent DEF Continuing
<1>6. CASE \/ RedTeam \/ (\E t \in Edits : CommitRaises(t)) \/ NoAgents \/ StopOpen \/ StopWrite
           \/ \E t \in Edits : \E outcome : BlueTeam(t, outcome)
  <2>1. UNCHANGED <<ev, runs, child, usd>>
    BY <1>6 DEF RedTeam, CommitRaises, NoAgents, StopOpen, StopWrite, BlueTeam, run
  <2>2. /\ pc' \in {"off", "write"} \/ (pc \in {"red", "blue"} /\ pc' \in {"blue", "eval"})
        /\ pc' # "red"
    BY <1>6 DEF RedTeam, CommitRaises, NoAgents, StopOpen, StopWrite, BlueTeam, Off
  <2> QED
    BY <2>1, <2>2, QuietSpent DEF Continuing
<1>7. CASE LoopKilled
  BY <1>7 DEF LoopKilled, EvalInv
<1>8. CASE UNCHANGED vars
  BY <1>8, QuietSpent DEF vars, run, Continuing
<1> QED
  BY <1>1, <1>2, <1>3, <1>4, <1>5, <1>6, <1>7, <1>8 DEF Next, Loop

\* A loop that goes on is below its ceiling, by its own sum and so in fact.
LEMMA SpentGives ==
  ASSUME TypeInv, SpentInv
  PROVE  BudgetHalts
<1> SUFFICES ASSUME Continuing, UsdPerRun > 0 PROVE Spent < UsdPerRun
  BY DEF BudgetHalts
<1>1. usd = Spent /\ ~BudgetExceeded(Cfg, usd)
  BY SpentIs DEF SpentInv, Continuing
<1>2. ~(usd >= UsdPerRun)
  BY <1>1 DEF BudgetExceeded, Cfg
<1>3. usd \in Nat /\ UsdPerRun \in Nat
  BY SettingsAssumption DEF TypeInv, TypeOK
<1> QED
  BY <1>1, <1>2, <1>3
-----------------------------------------------------------------------------
(* The loop's history is that of the evals.                                *)

\* The loop's history is the means of the evals before the next one, or before
\* the one it is busy with.
HistoryInv ==
  LET last == IF pc \in {"wait", "decide"} THEN child - 1 ELSE child
  IN  pc \in {"red", "blue", "eval", "wait", "decide"} =>
        /\ Len(history) <= last
        /\ \A k \in 1..Len(history) :
             history[k] = Mean(ev[last - Len(history) + k].scores)

\* The means of h are those of the evals that end with n.
Remembers(h, n, evals) ==
  /\ Len(h) <= n
  /\ \A k \in 1..Len(h) : h[k] = Mean(evals[n - Len(h) + k].scores)

LEMMA HistoryShape ==
  HistoryInv <=>
    /\ pc \in {"red", "blue", "eval"} => Remembers(history, child, ev)
    /\ pc \in {"wait", "decide"} => Remembers(history, child - 1, ev)
BY DEF HistoryInv, Remembers

LEMMA HistoryTypes ==
  ASSUME TypeInv
  PROVE  /\ history \in Seq(0..100) /\ Len(history) \in Nat
         /\ child \in 0..MaxEvals /\ MaxEvals \in Nat /\ child \in Nat
BY LineTypes, BoundsAssumption DEF TypeInv, TypeOK

\* What is remembered of evals stays true when a later one takes steps.
LEMMA RemembersStays ==
  ASSUME NEW h, Len(h) \in Nat, NEW n \in 0..MaxEvals, MaxEvals \in Nat, NEW f, NEW g,
         Remembers(h, n, f), \A d \in Eval : d <= n => f[d].scores = g[d].scores
  PROVE  Remembers(h, n, g)
<1>1. Len(h) <= n
  BY DEF Remembers
<1>2. ASSUME NEW k \in 1..Len(h) PROVE h[k] = Mean(g[n - Len(h) + k].scores)
  <2>1. n - Len(h) + k \in Eval /\ n - Len(h) + k <= n
    BY <1>1 DEF Eval
  <2>2. h[k] = Mean(f[n - Len(h) + k].scores)
    BY DEF Remembers
  <2> QED
    BY <2>1, <2>2
<1> QED
  BY <1>1, <1>2 DEF Remembers

\* The mean of the next eval may be appended.
LEMMA RemembersMore ==
  ASSUME NEW h \in Seq(0..100), NEW n \in Nat \ {0}, NEW mean, NEW f,
         Remembers(h, n - 1, f), mean = Mean(f[n].scores)
  PROVE  Remembers(Append(h, mean), n, f)
<1> DEFINE g == Append(h, mean)
<1>1. Len(g) = Len(h) + 1 /\ Len(h) \in Nat /\ Len(h) <= n - 1
      /\ g[Len(h) + 1] = mean /\ \A k \in 1..Len(h) : g[k] = h[k]
  BY DEF Remembers
<1> HIDE DEF g
<1>2. Len(g) <= n
  BY <1>1
<1>3. ASSUME NEW k \in 1..Len(g) PROVE g[k] = Mean(f[n - Len(g) + k].scores)
  <2>1. CASE k = Len(h) + 1
    <3>1. n - Len(g) + k = n
      BY <1>1, <2>1
    <3> QED
      BY <1>1, <2>1, <3>1
  <2>2. CASE k # Len(h) + 1
    <3>1. k \in 1..Len(h)
      BY <1>1, <2>2
    <3>2. n - Len(g) + k = (n - 1) - Len(h) + k
      BY <1>1, <3>1
    <3> QED
      BY <1>1, <3>1, <3>2 DEF Remembers
  <2> QED
    BY <2>1, <2>2
<1> QED
  BY <1>2, <1>3 DEF Remembers, g

LEMMA HistoryInit == Init => HistoryInv
BY DEF Init, HistoryInv

\* What loop.py finds when it is started is the report of the last eval.
LEMMA FoundIsLast ==
  ASSUME EvalInv, EndInv, TypeInv, LineInv, pc = "off", Readable
  PROVE  child \in Eval /\ latest.mean = Mean(ev[child].scores)
<1>1. /\ latest.by \in Eval /\ ev[latest.by].pc = "exited" /\ ev[latest.by].size # 0
      /\ latest.mean = Mean(ev[latest.by].scores)
  BY DEF EvalInv, Sound, LineInv, Tells, TellsOf
<1>2. latest.by <= child
  BY <1>1 DEF LineInv
<1>3. child \in Eval /\ child # 0 /\ child <= child
  <2>1. child \in Nat /\ latest.by \in Nat /\ latest.by >= 1
    BY <1>1, LineTypes
  <2> QED
    BY <1>2, <2>1, LineTypes
<1>4. ev[child].pc = "exited"
  <2>1. ev[child].pc # "unborn" /\ ev[child].pc # "dead"
    BY <1>3 DEF LineInv, EndInv
  <2>2. ~Active(child)
    BY <1>3, NoneActive
  <2>3. ev[child].pc \in {"unborn", "start", "grade", "build", "open", "write", "exited", "dead"}
    BY <1>3 DEF TypeInv, TypeOK, EvalRecord
  <2> QED
    BY <2>1, <2>2, <2>3 DEF Active
<1>5. ev[child].size # 0
  <2>1. ev[latest.by].size <= ev[child].size
    BY <1>1, <1>2, <1>3, <1>4 DEF LineInv
  <2>2. ev[latest.by].size \in Nat /\ ev[child].size \in Nat
    BY <1>1, <1>3, LineTypes
  <2> QED
    BY <1>1, <2>1, <2>2
<1>6. latest.by = child
  BY <1>3, <1>4, <1>5 DEF LineInv
<1> QED
  BY <1>1, <1>3, <1>6

\* Every step keeps the history in line with the evals.
LEMMA HistoryNext ==
  ASSUME MaxKills = 0, ~MayFail, EvalInv, EndInv, TypeInv, LineInv, HistoryInv, [Next]_vars
  PROVE  HistoryInv'
<1> DEFINE NewShape ==
      /\ pc' \in {"red", "blue", "eval"} => Remembers(history', child', ev')
      /\ pc' \in {"wait", "decide"} => Remembers(history', child' - 1, ev')
<1>0. SUFFICES NewShape
  BY DEF HistoryInv, Remembers
<1>1. ASSUME NEW n \in IterationArgs, LoopStart(n) PROVE NewShape
  <2>1. /\ pc = "off" /\ UNCHANGED <<child, ev>> /\ pc' \in {"red", "eval"}
        /\ history' = IF Readable THEN <<latest.mean>> ELSE <<>>
    BY <1>1 DEF LoopStart
  <2>2. CASE Readable
    <3>1. child \in Eval /\ latest.mean = Mean(ev[child].scores)
      BY <2>1, <2>2, FoundIsLast
    <3>2. /\ history' = <<latest.mean>> /\ Len(<<latest.mean>>) = 1
          /\ <<latest.mean>>[1] = latest.mean /\ child \in Nat /\ 1 <= child
      BY <2>1, <2>2, <3>1, EvalNat
    <3>3. child - 1 + 1 = child /\ \A k \in 1..1 : k = 1
      BY <3>2
    <3>4. Remembers(history', child', ev')
      BY <2>1, <3>1, <3>2, <3>3 DEF Remembers
    <3> QED
      BY <2>1, <3>4
  <2>3. CASE ~Readable
    <3>1. history' = <<>> /\ Len(<<>>) = 0 /\ 1..0 = {} /\ 0 <= child
      BY <2>1, <2>3, LineTypes
    <3> QED
      BY <2>1, <3>1 DEF Remembers
  <2> QED
    BY <2>2, <2>3
<1>2. CASE SpawnEval
  <2>1. /\ pc = "eval" /\ pc' = "wait" /\ UNCHANGED history
        /\ \A d \in Eval : ev'[d].scores = ev[d].scores
        /\ child' \in Eval /\ ev[child'].pc = "unborn"
    BY <1>2, SpawnEffect DEF run
  <2>2. child' = child + 1
    BY <1>2, SpawnNext
  <2>3. Remembers(history, child, ev)
    BY <2>1, HistoryShape
  <2>4. Remembers(history, child, ev')
    BY <2>1, <2>3, HistoryTypes, RemembersStays
  <2>5. child' - 1 = child
    BY <2>2, LineTypes
  <2> QED
    BY <2>1, <2>4, <2>5
<1>3. CASE Decide
  <2>1. /\ pc = "decide" /\ UNCHANGED <<child, ev>>
        /\ \/ pc' = "open"
           \/ pc' \in {"red", "off"} /\ history' = Append(history, report.mean)
    BY <1>3 DEF Decide, Stop, GoOn, Off
  <2>2. child \in Eval /\ report.mean = Mean(ev[child].scores) /\ Remembers(history, child - 1, ev)
    BY <2>1, HistoryShape DEF LineInv, Tells, TellsOf
  <2>3. child \in Nat \ {0}
    BY <2>2, EvalNat
  <2>4. Remembers(Append(history, report.mean), child, ev)
    BY <2>2, <2>3, HistoryTypes, RemembersMore
  <2> QED
    BY <2>1, <2>4
<1>4. ASSUME NEW e \in Eval, EvalStep(e) PROVE NewShape
  <2>1. /\ pc = "wait" /\ child = e /\ \A d \in Eval : d # e => ev'[d] = ev[d]
        /\ UNCHANGED <<pc, history, child>>
    BY <1>4, EvalOfLoop DEF run
  <2>2. Remembers(history, child - 1, ev)
    BY <2>1, HistoryShape
  <2>3. child - 1 \in 0..MaxEvals /\ \A d \in Eval : d <= child - 1 => d # e
    <3>1. child \in 1..MaxEvals /\ MaxEvals \in Nat
      BY <2>1, HistoryTypes DEF Eval
    <3> QED
      BY <2>1, <3>1, EvalNat
  <2>4. Remembers(history, child - 1, ev')
    <3>1. \A d \in Eval : d <= child - 1 => ev[d].scores = ev'[d].scores
      BY <2>1, <2>3
    <3> QED
      BY <2>2, <2>3, <3>1, HistoryTypes, RemembersStays
  <2> QED
    BY <2>1, <2>4
<1>5. CASE Collect
  BY <1>5, CollectEffect, HistoryShape
<1>6. CASE \/ RedTeam \/ (\E t \in Edits : CommitRaises(t)) \/ NoAgents \/ StopOpen \/ StopWrite
           \/ \E t \in Edits : \E outcome : BlueTeam(t, outcome)
  <2>1. UNCHANGED <<ev, child, history>>
    BY <1>6 DEF RedTeam, CommitRaises, NoAgents, StopOpen, StopWrite, BlueTeam, run
  <2>2. pc' \in {"off", "write"} \/ (pc \in {"red", "blue"} /\ pc' \in {"blue", "eval"})
    BY <1>6 DEF RedTeam, CommitRaises, NoAgents, StopOpen, StopWrite, BlueTeam, Off
  <2> QED
    BY <2>1, <2>2, HistoryShape
<1>7. CASE LoopKilled
  BY <1>7 DEF LoopKilled, EvalInv
<1>8. CASE UNCHANGED vars
  BY <1>8, HistoryShape DEF vars, run
<1> HIDE DEF NewShape
<1> QED
  BY <1>1, <1>2, <1>3, <1>4, <1>5, <1>6, <1>7, <1>8 DEF Next, Loop
-----------------------------------------------------------------------------
(* A loop that says that it has converged.                                 *)

\* The last Window evals moved by less than the threshold.
Steady ==
  \A e \in (child - Window + 2)..child :
    /\ e - 1 \in Eval
    /\ Abs(Mean(ev[e].scores) - Mean(ev[e-1].scores)) < Threshold

SteadyInv ==
  /\ pc \in {"open", "write"} /\ report.stop = "convergence" => Steady
  /\ ConvergenceGenuine

LEMMA SteadyInit == Init => SteadyInv
BY DEF Init, SteadyInv, ConvergenceGenuine

\* What the stop criterion takes for a plateau of its history is one of evals.
LEMMA PlateauIsSteady ==
  ASSUME TypeInv, LineInv, HistoryInv, pc = "decide", Converged(Cfg, report.mean, history)
  PROVE  Steady
<1> DEFINE all == Append(history, report.mean)
           n   == Len(all)
<1>1. /\ child \in Eval /\ report.mean = Mean(ev[child].scores)
      /\ Remembers(history, child - 1, ev)
  BY HistoryShape DEF LineInv, Tells, TellsOf
<1>2. report.mean \in 0..100 /\ history \in Seq(0..100) /\ child \in Nat \ {0}
  BY <1>1, HistoryTypes, EvalNat DEF TypeInv, Report
<1>3. Remembers(all, child, ev)
  BY <1>1, <1>2, RemembersMore
<1>4. Window \in Nat \ {0} /\ Threshold \in 0..100
  BY SettingsAssumption
<1>5. Plateau(Cfg, all)
  <2>1. Cfg.window \in Nat /\ Cfg.threshold \in Int
    BY <1>4 DEF Cfg
  <2>2. history \in Seq(Int) /\ report.mean \in Int
    <3> HIDE DEF all, n
    <3>1. history \in Seq(Int)
      <4>1. 0..100 \subseteq Int
        OBVIOUS
      <4>2. history \in Seq(0..100)
        BY <1>2
      <4> QED
        BY <4>1, <4>2, SeqMonotonic
    <3>2. report.mean \in Int
      BY <1>2
    <3> QED
      BY <3>1, <3>2
  <2> QED
    BY <2>1, <2>2, ConvergedIsPlateau
<1>6. /\ Window \in 2..n
      /\ \A k \in 1..(Window - 1) : Abs(all[n - k + 1] - all[n - k]) < Threshold
  BY <1>5, <1>4 DEF Plateau, Cfg
<1>7. n \in Nat /\ n <= child /\ \A j \in 1..n : all[j] = Mean(ev[child - n + j].scores)
  <2>1. n \in Nat
    BY <1>2
  <2> QED
    BY <2>1, <1>3 DEF Remembers
<1> HIDE DEF all, n
<1>8. ASSUME NEW e \in (child - Window + 2)..child
      PROVE  /\ e - 1 \in Eval
             /\ Abs(Mean(ev[e].scores) - Mean(ev[e-1].scores)) < Threshold
  <2> DEFINE k == child - e + 1
  <2>1. k \in 1..(Window - 1) /\ e \in Int
    BY <1>2, <1>4
  <2>2. n - k + 1 \in 1..n /\ n - k \in 1..n
    BY <2>1, <1>6, <1>7
  <2>3. child - n + (n - k + 1) = e /\ child - n + (n - k) = e - 1
    BY <1>2, <1>7, <2>1
  <2>4. Abs(all[n - k + 1] - all[n - k]) < Threshold
    BY <1>6, <2>1
  <2>5. e - 1 \in Eval
    <3>1. child \in 1..MaxEvals /\ MaxEvals \in Nat
      BY <1>1, HistoryTypes DEF Eval
    <3>2. e - 1 >= 1
      BY <1>2, <1>6, <1>7, <2>1
    <3> QED
      BY <2>1, <3>1, <3>2 DEF Eval
  <2> HIDE DEF k
  <2>6. all[n - k + 1] = Mean(ev[e].scores) /\ all[n - k] = Mean(ev[e-1].scores)
    BY <1>7, <2>2, <2>3
  <2> QED
    BY <2>4, <2>5, <2>6
<1> QED
  BY <1>8 DEF Steady

\* Every step keeps it.
LEMMA SteadyNext ==
  ASSUME MaxKills = 0, EvalInv, TypeInv, LineInv, HistoryInv, SteadyInv, [Next]_vars
  PROVE  SteadyInv'
<1>1. CASE Decide
  <2>1. /\ pc = "decide" /\ UNCHANGED <<child, ev>>
        /\ \/ GoOn
           \/ Stop(Verdict(usd'))
    BY <1>1 DEF Decide
  <2>2. CASE GoOn
    BY <2>1, <2>2 DEF GoOn, Off, SteadyInv, ConvergenceGenuine
  <2>3. CASE Stop(Verdict(usd'))
    <3>1. /\ pc' = "open"
          /\ report' = [report EXCEPT !.stop = Verdict(usd')]
      BY <2>3 DEF Stop
    <3>2. report'.stop = Verdict(usd')
      BY <2>1, <3>1 DEF TypeInv, Report
    <3>3. report'.stop = "convergence" => Steady
      BY <2>1, <3>2, VerdictConverged, PlateauIsSteady
    <3>4. Steady' = Steady
      BY <2>1 DEF Steady
    <3> QED
      BY <3>1, <3>3, <3>4 DEF SteadyInv, ConvergenceGenuine
  <2> QED
    BY <2>1, <2>2, <2>3
<1>2. CASE StopOpen \/ StopWrite
  <2>1. /\ UNCHANGED <<child, ev, report>> /\ pc \in {"open", "write"}
        /\ pc' = "write" \/ latest' = report
    BY <1>2 DEF StopOpen, StopWrite, run
  <2>2. Steady' = Steady
    BY <2>1 DEF Steady
  <2>3. report.stop = "convergence" => Steady
    BY <2>1 DEF SteadyInv
  <2>4. pc' \in {"write", "off"}
    BY <1>2 DEF StopOpen, StopWrite, Off
  <2>5. ConvergenceGenuine'
    BY <2>1, <2>2, <2>3 DEF ConvergenceGenuine, Steady
  <2> QED
    BY <2>1, <2>2, <2>3, <2>5 DEF SteadyInv
<1>3. CASE \E e \in Eval : EvalStep(e)
  BY <1>3, EvalOfLoop DEF SteadyInv, ConvergenceGenuine
<1>4. CASE \/ RedTeam \/ (\E t \in Edits : CommitRaises(t)) \/ NoAgents \/ SpawnEval
           \/ \E t \in Edits : \E outcome : BlueTeam(t, outcome)
           \/ \E n \in IterationArgs : LoopStart(n)
  BY <1>4 DEF RedTeam, CommitRaises, NoAgents, SpawnEval, BlueTeam, LoopStart, Off, SteadyInv,
              ConvergenceGenuine
<1>5. CASE Collect
  BY <1>5, CollectEffect DEF SteadyInv, ConvergenceGenuine
<1>6. CASE LoopKilled
  BY <1>6 DEF LoopKilled, EvalInv
<1>7. CASE UNCHANGED vars
  BY <1>7 DEF vars, run, SteadyInv, Steady, ConvergenceGenuine, Readable
<1> QED
  BY <1>1, <1>2, <1>3, <1>4, <1>5, <1>6, <1>7 DEF Next, Loop
-----------------------------------------------------------------------------
(* The code that a report names.                                           *)

\* After a change that the loop has recorded as accepted, HEAD holds what is in
\* the files, until the eval of that change is judged.
CleanInv ==
  /\ Accepted /\ pc \in {"red", "blue", "eval", "wait", "decide"} => tree.code = tree.head
  /\ \A e \in Eval : ev[e].pc \in {"unborn", "start"} => ev[e].code = ev[e].head
  /\ pc \in {"wait", "decide"} =>
       /\ child \in Eval
       /\ Accepted => ev[child].code = ev[child].head
  /\ ReportsHermetic

LEMMA CleanInit == Init => CleanInv
BY DEF Init, CleanInv, ReportsHermetic, Readable, Accepted, Unborn

\* An edit and its commit: accepted means committed.
LEMMA CommitCleans ==
  ASSUME TypeInv, NEW t \in Edits, NEW outcome \in {"accept", "noop"}, BlueTeam(t, outcome)
  PROVE  Accepted' => tree'.code = tree'.head
<1>1. outcomes \in Seq({"accept", "noop"}) /\ t \in Tree
  BY TreeType DEF TypeInv, TypeOK
<1>2. outcomes' = Append(outcomes, outcome) /\ tree' = Committed(t, outcome)
      /\ (outcome = "accept" => t.unstaged)
  BY DEF BlueTeam
<1>3. outcomes' # <<>> /\ outcomes'[Len(outcomes')] = outcome
  BY <1>1, <1>2
<1>4. Accepted' => outcome = "accept"
  BY <1>3 DEF Accepted, Last
<1>5. outcome = "accept" => tree'.code = tree'.head
  BY <1>1, <1>2 DEF Committed, Tree
<1> QED
  BY <1>4, <1>5

LEMMA CleanNext ==
  ASSUME MaxKills = 0, EvalInv, EvalInv', TypeInv, CleanInv, [Next]_vars
  PROVE  CleanInv'
<1>0. Readable' => latest'.hash = ev'[latest'.by].head
  BY DEF EvalInv, Sound
<1> USE DEF CleanInv, ReportsHermetic
<1>1. ASSUME NEW n \in IterationArgs, LoopStart(n) PROVE CleanInv'
  BY <1>1, <1>0 DEF LoopStart, Accepted
<1>2. CASE RedTeam \/ NoAgents
  BY <1>2, <1>0 DEF RedTeam, NoAgents, Accepted, run
<1>3. ASSUME NEW t \in Edits, CommitRaises(t) PROVE CleanInv'
  BY <1>3, <1>0 DEF CommitRaises, Off, Accepted, run
<1>4. ASSUME NEW t \in Edits, NEW outcome \in {"accept", "noop"}, BlueTeam(t, outcome)
      PROVE  CleanInv'
  <2>1. pc' = "eval" /\ UNCHANGED <<ev, child>>
    BY <1>4 DEF BlueTeam
  <2> QED
    BY <1>0, <1>4, <2>1, CommitCleans
<1>5. CASE SpawnEval
  <2>1. PICK e \in Eval :
          /\ ev[e].pc = "unborn"
          /\ child' = e
          /\ ev' = [ev EXCEPT ![e].pc = "start", ![e].run = runs,
                              ![e].iteration = i]
    BY <1>5 DEF SpawnEval
  <2>2. /\ ev'[e].pc = "start" /\ ev'[e].code = ev[e].code /\ ev'[e].head = ev[e].head
        /\ \A d \in Eval : d # e => ev'[d] = ev[d]
    BY <2>1 DEF EvalInv, Shape, Fields
  <2>3. pc = "eval" /\ pc' = "wait" /\ UNCHANGED <<outcomes, tree>>
    BY <1>5 DEF SpawnEval, run
  <2> QED
    BY <1>0, <2>1, <2>2, <2>3 DEF Accepted
<1>6. CASE Collect
  <2>1. /\ UNCHANGED <<outcomes, child, ev, tree>> /\ pc = "wait"
        /\ pc' = "off" \/ (pc' = "decide" /\ report' = latest /\ Readable)
    <3>1. ASSUME Readable, i > 0, i # 0 PROVE pc' = "decide" /\ report' = latest
      BY <1>6, <3>1 DEF Collect
    <3>2. ASSUME ~Readable PROVE pc' = "off"
      BY <1>6, <3>2 DEF Collect, Off
    <3>3. ASSUME Readable, i = 0 PROVE pc' = "off"
      BY <1>6, <3>3 DEF Collect, Off
    <3>4. i = 0 \/ (i > 0 /\ i # 0)
      BY DEF EvalInv
    <3> QED
      BY <1>6, <3>1, <3>2, <3>3, <3>4 DEF Collect
  <2>2. ASSUME pc' = "decide", Accepted', report'.by = child'
        PROVE  report'.hash = ev'[child'].code
    BY <2>1, <2>2 DEF Accepted
  <2> QED
    BY <1>0, <2>1, <2>2 DEF Accepted
<1>7. CASE Decide
  <2>1. /\ UNCHANGED <<outcomes, child, ev, tree>> /\ pc = "decide"
        /\ pc' \in {"open", "off", "red"}
    BY <1>7 DEF Decide, Stop, GoOn, Off
  <2> QED
    BY <1>0, <2>1 DEF Accepted
<1>8. CASE StopOpen \/ StopWrite
  BY <1>0, <1>8 DEF StopOpen, StopWrite, Off, run
<1>9. ASSUME NEW e \in Eval, EvalStep(e) PROVE CleanInv'
  <2>1. /\ \A d \in Eval : d # e => ev'[d] = ev[d]
        /\ UNCHANGED <<pc, run, child, tree>>
    BY <1>9, EvalStepOne DEF EvalInv
  <2>2. Active(e) /\ pc = "wait" /\ child = e
    BY <1>9 DEF EvalInv, Active, EvalStep, EvalStart, EvalGrade, EvalBuild, EvalOpen,
                EvalWrite, EvalDies
  <2>3. ev[e] = [f \in Fields |-> ev[e][f]] /\ ev = [d \in Eval |-> ev[d]]
    BY DEF EvalInv, Shape
  <2>4. /\ ev'[e].pc \notin {"unborn", "start"}
        /\ \/ ev'[e].code = tree.code /\ ev'[e].head = tree.head
           \/ ev'[e].code = ev[e].code /\ ev'[e].head = ev[e].head
    <3> USE DEF Fields
    <3>1. CASE EvalStart(e)
      BY <2>3, <3>1 DEF EvalStart
    <3>2. ASSUME NEW s \in Scores, NEW c \in Costs, EvalGrade(e, s, c)
          PROVE  /\ ev'[e].pc \in {"grade", "build"}
                 /\ ev'[e].code = ev[e].code /\ ev'[e].head = ev[e].head
      BY <2>3, <3>2 DEF EvalGrade
    <3>3. CASE EvalBuild(e)
      BY <2>3, <3>3 DEF EvalBuild
    <3>4. CASE EvalOpen(e) \/ EvalWrite(e) \/ EvalDies(e)
      BY <2>3, <3>4 DEF EvalOpen, EvalWrite, EvalDies
    <3> QED
      BY <1>9, <3>1, <3>2, <3>3, <3>4 DEF EvalStep
  <2> QED
    BY <1>0, <2>1, <2>2, <2>4 DEF Accepted, run
<1>10. CASE LoopKilled
  BY <1>10 DEF LoopKilled, EvalInv
<1>11. CASE UNCHANGED vars
  BY <1>11 DEF vars, run, Accepted, Readable
<1> QED
  BY <1>1, <1>2, <1>3, <1>4, <1>5, <1>6, <1>7, <1>8, <1>9, <1>10, <1>11 DEF Next, Loop

\* As long as nobody kills the loop, the manifest hash of the report in
\* latest.json is what HEAD was when its eval started (scripts/loop.py:163 waits
\* for the eval, and nothing else commits); and after a change that the loop has
\* recorded as accepted it is the code that was graded (loop.py:166-187), however
\* many edits stay uncommitted, commits fail and evals die on the way.
THEOREM UnkilledIsHermetic ==
  ASSUME MaxKills = 0
  PROVE  Spec => []ReportsHermetic
<1>1. Init => EvalInv /\ TypeInv /\ CleanInv
  BY EvalInit, TypeInit, CleanInit
<1>2. EvalInv /\ TypeInv /\ CleanInv /\ [Next]_vars => (EvalInv /\ TypeInv /\ CleanInv)'
  BY EvalNext, TypeNext, CleanNext
<1>3. CleanInv => ReportsHermetic
  BY DEF CleanInv
<1> QED
  BY <1>1, <1>2, <1>3, PTL DEF Spec
-----------------------------------------------------------------------------
(* The theorems.                                                           *)

LineUp == EvalInv /\ EndInv /\ TypeInv /\ LineInv

LEMMA LineUpInit == MaxKills = 0 /\ Init => LineUp
BY EvalInit, EndInit, TypeInit, LineInit DEF LineUp

LEMMA LineUpNext ==
  ASSUME MaxKills = 0, ~MayFail, NullsAreNoReports, LineUp, [Next]_vars
  PROVE  LineUp'
<1>1. EvalInv' /\ EndInv' /\ TypeInv'
  BY EvalNext, EndNext, TypeNext DEF LineUp
<1> QED
  BY <1>1, LineNext DEF LineUp

\* The loop does not go on after a case fell from a pass to a fail by the anchor
\* threshold or more (pipeline/stop_criteria.py:60-64, pipeline/metrics.py:225-243):
\* the report of its eval lists the case, as what the eval has compared with is
\* the eval before it, which has graded every case that any eval before has.
\* With --budget-usd an eval may end before it has graded them all.
THEOREM NoRegressionIsMissed ==
  ASSUME MaxKills = 0, ~MayFail, NullsAreNoReports, BudgetFlag = NoLimit
  PROVE  Spec => []AnchorHalts
<1>1. Init => LineUp /\ AnchorInv
  BY LineUpInit, AnchorInit
<1>2. LineUp /\ [Next]_vars => LineUp'
  BY LineUpNext
<1>3. LineUp /\ AnchorInv /\ [Next]_vars => AnchorInv'
  BY AnchorNext DEF LineUp
<1>4. LineUp /\ AnchorInv => AnchorHalts
  BY AnchorGives DEF LineUp
<1> QED
  BY <1>1, <1>2, <1>3, <1>4, PTL DEF Spec

\* The loop does not start another iteration once its evals have spent usd_per_run
\* (scripts/loop.py:105-121): each eval's spend reaches its sum exactly once.
THEOREM BudgetEndsTheLoop ==
  ASSUME MaxKills = 0, ~MayFail, NullsAreNoReports
  PROVE  Spec => []BudgetHalts
<1>1. Init => LineUp /\ SpentInv
  BY LineUpInit, SpentInit
<1>2. LineUp /\ [Next]_vars => LineUp'
  BY LineUpNext
<1>3. LineUp /\ SpentInv /\ [Next]_vars => SpentInv'
  BY SpentNext DEF LineUp
<1>4. LineUp /\ SpentInv => BudgetHalts
  BY SpentGives DEF LineUp
<1> QED
  BY <1>1, <1>2, <1>3, <1>4, PTL DEF Spec

\* A loop that stops for convergence (pipeline/stop_criteria.py:81-93) has run
\* Window evals one after another, no two neighbours of which differ by the
\* threshold, though it takes the first mean of its history from a file.
THEOREM ConvergenceIsGenuine ==
  ASSUME MaxKills = 0, ~MayFail, NullsAreNoReports
  PROVE  Spec => []ConvergenceGenuine
<1>1. Init => LineUp /\ HistoryInv /\ SteadyInv
  BY LineUpInit, HistoryInit, SteadyInit
<1>2. LineUp /\ [Next]_vars => LineUp'
  BY LineUpNext
<1>3. LineUp /\ HistoryInv /\ [Next]_vars => HistoryInv'
  BY HistoryNext DEF LineUp
<1>4. LineUp /\ HistoryInv /\ SteadyInv /\ [Next]_vars => SteadyInv'
  BY SteadyNext DEF LineUp
<1>5. SteadyInv => ConvergenceGenuine
  BY DEF SteadyInv
<1> QED
  BY <1>1, <1>2, <1>3, <1>4, <1>5, PTL DEF Spec
=============================================================================
