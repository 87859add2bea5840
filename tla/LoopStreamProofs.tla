------------------------- MODULE LoopStreamProofs -------------------------
(***************************************************************************)
(* Theorems about LoopStream, for any number of evals, reloads and visits. *)
(***************************************************************************)
EXTENDS LoopStream, TLAPS

\* Every step is one of these.
LEMMA Steps ==
  ASSUME [Next]_vars
  PROVE  \/ \E n \in Evals : EvalOpens(n) \/ EvalWrites(n) \/ EvalDies(n)
         \/ \E r \in Reasons : LoopStops(r)
         \/ LoopStarts \/ LoopLoads \/ LoopGoesOn \/ LoopWrites \/ LoopEnds
         \/ FirstStat \/ FirstRead \/ FirstAsk
         \/ PollStat \/ PollRead \/ PollAsk
         \/ Connect \/ Disconnect \/ BackendReload
         \/ UNCHANGED vars
BY DEF Next, Loop, Stream

LEMMA ReportType ==
  /\ NoReport \in Report
  /\ \A n \in Evals, why \in {NoReason, Budget} :
       [id |-> n, reason |-> why] \in Report
  /\ \A r \in Report, why \in Reasons : [id |-> r.id, reason |-> why] \in Report
  /\ \A r \in Report : r.reason \in Reasons \cup {NoReason}
  /\ Missing \notin Report /\ Torn \notin Report /\ Missing # Torn
BY NullsAssumption, BudgetAssumption DEF Report, NoReport

\* A file that a writer has open exists.
Opened == /\ \A n \in Evals : eval[n] = "open" => mtime # 0
          /\ loop = "stop" => mtime # 0

TypeInv == TypeOK /\ Opened

LEMMA TypeInit == Init => TypeInv
<1> SUFFICES ASSUME Init PROVE TypeInv
  OBVIOUS
<1> USE DEF Init
<1>1. file \in Report \cup {Missing} /\ (file = Missing <=> mtime = 0)
      /\ mtime \in Nat
  <2>1. CASE file = Missing /\ mtime = 0
    BY <2>1
  <2>2. CASE file \in [id : {0}, reason : Reasons \cup {NoReason}] /\ mtime = 1
    <3>1. file \in Report
      BY <2>2 DEF Report
    <3> QED
      BY <2>2, <3>1, ReportType
  <2> QED
    BY <2>1, <2>2
<1>2. evals \in 0..MaxEvals /\ reloads \in 0..MaxReloads
      /\ visits \in 0..MaxVisits /\ lastMtime \in Nat /\ lastMtime <= mtime
  BY <1>1, StreamBoundsAssumption
<1>3. /\ eval \in [Evals -> {"none", "run", "open", "done"}]
      /\ \A n \in Evals : eval[n] # "open"
  OBVIOUS
<1> QED
  BY <1>1, <1>2, <1>3, ReportType DEF TypeInv, TypeOK, Opened

\* What a writer does to a file that it has open.
LEMMA FillType ==
  ASSUME TypeOK, NEW r \in Report, NEW alone, Fill(r, alone), mtime # 0
  PROVE  /\ file' \in Report \cup {Torn}
         /\ mtime' \in Nat \ {0} /\ mtime' >= mtime
         /\ file' # Missing
         /\ ClockTicks => mtime' = mtime + 1
BY ReportType DEF Fill, TypeOK

LEMMA TypeNext == TypeInv /\ [Next]_vars => TypeInv'
<1> SUFFICES ASSUME TypeInv, [Next]_vars PROVE TypeInv'
  OBVIOUS
<1> USE ReportType, StreamBoundsAssumption
    DEF TypeInv, TypeOK, Opened, writers, poller, dashboard
<1>1. ASSUME NEW n \in Evals, EvalOpens(n) PROVE TypeInv'
  BY <1>1 DEF EvalOpens, OpenFile
<1>2. ASSUME NEW n \in Evals, EvalWrites(n) PROVE TypeInv'
  <2>1. mtime # 0
    BY <1>2 DEF EvalWrites
  <2>2. /\ file' \in Report \cup {Torn} /\ file' # Missing
        /\ mtime' \in Nat \ {0} /\ mtime' >= mtime
    BY <1>2, <2>1, FillType DEF EvalWrites
  <2> QED
    BY <1>2, <2>2 DEF EvalWrites
<1>3. ASSUME NEW n \in Evals, EvalDies(n) PROVE TypeInv'
  BY <1>3 DEF EvalDies
<1>4. ASSUME NEW r \in Reasons, LoopStops(r) PROVE TypeInv'
  BY <1>4 DEF LoopStops, OpenFile
<1>5. CASE LoopStarts
  BY <1>5 DEF LoopStarts, NextEval, Evals
<1>6. CASE LoopLoads
  BY <1>6 DEF LoopLoads
<1>7. CASE LoopGoesOn
  BY <1>7 DEF LoopGoesOn, NextEval, Evals
<1>8. CASE LoopWrites
  <2>1. /\ file' \in Report \cup {Torn} /\ file' # Missing
        /\ mtime' \in Nat \ {0} /\ mtime' >= mtime
    BY <1>8, FillType DEF LoopWrites
  <2> QED
    BY <1>8, <2>1 DEF LoopWrites
<1>9. CASE LoopEnds
  BY <1>9 DEF LoopEnds
<1>10. CASE FirstStat \/ PollStat
  BY <1>10 DEF FirstStat, PollStat
<1>11. CASE FirstAsk \/ PollAsk
  <2>1. Running \in BOOLEAN
    BY DEF Running
  <2>2. wasRunning' \in BOOLEAN
    BY <1>11, <2>1 DEF FirstAsk, PollAsk
  <2>3. reason' \in Reasons \cup {Manual, NoReason}
    BY <1>11 DEF FirstAsk, PollAsk
  <2> QED
    BY <1>11, <2>2, <2>3 DEF FirstAsk, PollAsk
<1>12. CASE FirstRead \/ PollRead
  BY <1>12 DEF FirstRead, PollRead, Receive
<1>13. CASE Connect
  <2>1. visits' \in 0..MaxVisits
    BY <1>13 DEF Connect
  <2>2. wasRunning' \in BOOLEAN /\ shown' \subseteq Report
    BY <1>13 DEF Connect
  <2> QED
    BY <1>13, <2>1, <2>2 DEF Connect
<1>14. CASE Disconnect
  BY <1>14 DEF Disconnect
<1>15. CASE BackendReload
  <2>1. reloads' \in 0..MaxReloads
    BY <1>15 DEF BackendReload
  <2>2. handle' \in BOOLEAN
    BY <1>15 DEF BackendReload
  <2> QED
    BY <1>15, <2>1, <2>2 DEF BackendReload
<1>16. CASE UNCHANGED vars
  BY <1>16 DEF vars
<1> QED
  BY <1>1, <1>2, <1>3, <1>4, <1>5, <1>6, <1>7, <1>8, <1>9, <1>10, <1>11, <1>12,
     <1>13, <1>14, <1>15, <1>16, Steps

\* TypeOK, for every value of the constants.
THEOREM TypeCorrect == Spec => []TypeOK
<1>1. Init => TypeInv
  BY TypeInit
<1>2. TypeInv /\ [Next]_vars => TypeInv'
  BY TypeNext
<1>3. TypeInv => TypeOK
  BY DEF TypeInv
<1> QED
  BY <1>1, <1>2, <1>3, PTL DEF Spec
-----------------------------------------------------------------------------
\* A write gives the file an mtime that no stream has noted.
LEMMA WriteIsNews ==
  ASSUME TypeOK, mtime' = mtime + 1, UNCHANGED lastMtime
  PROVE  lastMtime' # mtime'
BY DEF TypeOK

LEMMA UpToDateNext ==
  ASSUME ClockTicks, TypeInv, UpToDate, [Next]_vars
  PROVE  UpToDate'
<1> USE DEF UpToDate, CaughtUp, writers, poller, dashboard
<1>1. ASSUME mtime' = mtime + 1, UNCHANGED lastMtime PROVE UpToDate'
  BY <1>1, WriteIsNews DEF TypeInv
<1>2. ASSUME NEW n \in Evals, EvalOpens(n) PROVE UpToDate'
  BY <1>1, <1>2 DEF EvalOpens, OpenFile
<1>3. ASSUME NEW n \in Evals, EvalWrites(n) PROVE UpToDate'
  BY <1>1, <1>3 DEF EvalWrites, Fill
<1>4. ASSUME NEW n \in Evals, EvalDies(n) PROVE UpToDate'
  BY <1>4 DEF EvalDies
<1>5. ASSUME NEW r \in Reasons, LoopStops(r) PROVE UpToDate'
  BY <1>1, <1>5 DEF LoopStops, OpenFile
<1>6. CASE LoopWrites
  BY <1>1, <1>6 DEF LoopWrites, Fill
<1>7. CASE LoopStarts \/ LoopLoads \/ LoopGoesOn \/ LoopEnds
  BY <1>7 DEF LoopStarts, LoopLoads, LoopGoesOn, LoopEnds
<1>8. CASE FirstRead \/ PollRead
  <2>1. file' = file
    BY <1>8 DEF FirstRead, PollRead
  <2>2. file \in Report => \E r \in shown' : r.id = file.id
    BY <1>8 DEF FirstRead, PollRead, Receive
  <2> QED
    BY <2>1, <2>2
\* A poll that finds nothing new: the file is missing, or was caught up with.
<1>9. CASE PollStat
  <2>1. mtime = 0 => file \notin Report
    BY ReportType DEF TypeInv, TypeOK
  <2> QED
    BY <1>9, <2>1 DEF PollStat
<1>10. CASE FirstStat \/ FirstAsk \/ PollAsk
  BY <1>10 DEF FirstStat, FirstAsk, PollAsk
<1>11. CASE Connect \/ Disconnect \/ BackendReload \/ UNCHANGED vars
  BY <1>11 DEF Connect, Disconnect, BackendReload, vars
<1> QED
  BY <1>2, <1>3, <1>4, <1>5, <1>6, <1>7, <1>8, <1>9, <1>10, <1>11, Steps

\* If each write has an mtime of its own, a stream that has nothing left to
\* notice has brought the file's report to the dashboard, whatever the
\* interleaving of loop, evals, stream, page and reloads.
THEOREM StreamUpToDate ==
  ASSUME ClockTicks
  PROVE  Spec => []UpToDate
<1>1. Init => UpToDate
  BY DEF Init, UpToDate, CaughtUp
<1>2. TypeInv /\ UpToDate /\ [Next]_vars => TypeInv' /\ UpToDate'
  BY TypeNext, UpToDateNext
<1> QED
  BY <1>1, <1>2, TypeInit, PTL DEF Spec
=============================================================================
