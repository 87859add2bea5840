---------------------------- MODULE LoopStream ----------------------------
(***************************************************************************)
(* How a report reaches the dashboard: the loop and its evals write        *)
(* reports/latest.json, loop_stream in ui/backend/app.py polls the mtime   *)
(* of the file and whether the loop runs, and useLoopStream in hooks.ts    *)
(* keeps what it is sent.  The writers are those of Orchestrator, reduced  *)
(* to what they do to the file; one backend and one page are modelled.     *)
(***************************************************************************)
EXTENDS Naturals, FiniteSets

CONSTANTS
  Reasons,         \* why stop_criteria may stop a loop
  Budget,          \* the one that an eval may give itself (--budget-usd)
  Manual,          \* what the dashboard says if it knows no reason
  NoReason,
  Missing, Torn,   \* latest.json: absent; opened for writing and still empty
  MayDie,          \* whether an eval may die
  ClockTicks,      \* whether each write of the file has an mtime of its own
  MaxEvals,        \* bound: how many evals are started
  MaxReloads,      \* bound: how often the backend process is replaced
  MaxVisits        \* bound: how often the page is opened

ASSUME StreamBoundsAssumption == {MaxEvals, MaxReloads, MaxVisits} \subseteq Nat
ASSUME BudgetAssumption == Budget \in Reasons
ASSUME FlagsAssumption == {MayDie, ClockTicks} \subseteq BOOLEAN

VARIABLES
  file,        \* latest.json
  mtime,       \* its modification time, 0 while it is missing
  loop,        \* what loop.py is doing
  rep,         \* the report it has loaded
  evals,       \* how many evals were started
  eval,        \* what each eval is doing
  handle,      \* whether the backend knows of the loop it started
  reloads,
  stream,      \* where loop_stream is
  lastMtime,   \* its last_mtime
  wasRunning,  \* its was_running
  visits,
  shown,       \* the reports that the dashboard lists
  reason       \* its lastStopReason

writers   == <<loop, rep, evals, eval, handle, reloads>>
poller    == <<stream, lastMtime, wasRunning, visits>>
dashboard == <<shown, reason>>
vars      == <<file, mtime, writers, poller, dashboard>>

\* Each eval has one iteration and one timestamp, which the dashboard takes as
\* the identity of a report; 0 is a report of earlier days.
Evals   == 1..MaxEvals
Report  == [id : Evals \cup {0}, reason : Reasons \cup {NoReason}]
NoReport == [id |-> 0, reason |-> NoReason]

ASSUME NullsAssumption ==
  /\ {Missing, Torn} \cap Report = {}
  /\ Missing # Torn
  /\ NoReason \notin Reasons \cup {Manual}

TypeOK ==
  /\ file \in Report \cup {Missing, Torn}
  /\ mtime \in Nat
  /\ file = Missing <=> mtime = 0
  /\ loop \in {"off", "eval", "decide", "stop"}
  /\ rep \in Report
  /\ evals \in 0..MaxEvals
  /\ eval \in [Evals -> {"none", "run", "open", "done"}]
  /\ handle \in BOOLEAN
  /\ reloads \in 0..MaxReloads
  /\ stream \in {"off", "connect", "first", "sent", "poll", "read", "ask"}
  /\ lastMtime \in Nat /\ lastMtime <= mtime
  /\ wasRunning \in BOOLEAN
  /\ visits \in 0..MaxVisits
  /\ shown \subseteq Report
  /\ reason \in Reasons \cup {Manual, NoReason}

Init ==
  /\ \/ file = Missing /\ mtime = 0
     \/ file \in [id : {0}, reason : Reasons \cup {NoReason}] /\ mtime = 1
  /\ loop = "off"
  /\ rep = NoReport
  /\ evals = 0
  /\ eval = [n \in Evals |-> "none"]
  /\ handle = FALSE
  /\ reloads = 0
  /\ stream = "off"
  /\ lastMtime = 0
  /\ wasRunning = FALSE
  /\ visits = 0
  /\ shown = {}
  /\ reason = NoReason
-----------------------------------------------------------------------------
(***************************************************************************)
(* The writers.  write_text opens the file, which empties it, and fills it *)
(* in a second step; the kernel's clock may not tick between the two.  Two *)
(* writers that have the file open may leave a mixture.                    *)
(***************************************************************************)
OpenFile == file' = Torn /\ mtime' = mtime + 1

Fill(report, alone) ==
  /\ file' \in IF alone THEN {report} ELSE {report, Torn}
  /\ mtime' \in IF ClockTicks THEN {mtime + 1} ELSE {mtime, mtime + 1}

OpenBy == {n \in Evals : eval[n] = "open"}

NextEval ==
  /\ evals < MaxEvals
  /\ evals' = evals + 1
  /\ eval' = [eval EXCEPT ![evals + 1] = "run"]
  /\ loop' = "eval"

\* The user starts a loop.
LoopStarts ==
  /\ loop = "off"
  /\ NextEval
  /\ handle' = TRUE
  /\ UNCHANGED <<file, mtime, rep, reloads, poller, dashboard>>

\* write_report, called by eval.py.
EvalOpens(n) ==
  /\ eval[n] = "run"
  /\ OpenFile
  /\ eval' = [eval EXCEPT ![n] = "open"]
  /\ UNCHANGED <<loop, rep, evals, handle, reloads, poller, dashboard>>

EvalWrites(n) ==
  /\ eval[n] = "open"
  /\ \E r \in {NoReason, Budget} :
       Fill([id |-> n, reason |-> r], OpenBy = {n} /\ loop # "stop")
  /\ eval' = [eval EXCEPT ![n] = "done"]
  /\ UNCHANGED <<loop, rep, evals, handle, reloads, poller, dashboard>>

EvalDies(n) ==
  /\ MayDie
  /\ eval[n] \in {"run", "open"}
  /\ eval' = [eval EXCEPT ![n] = "done"]
  /\ UNCHANGED <<file, mtime, loop, rep, evals, handle, reloads, poller,
                 dashboard>>

\* Mutation: no report is taken for one.
LoopLoadsUnchecked ==
  /\ loop = "eval"
  /\ eval[evals] = "done"
  /\ rep' = file
  /\ loop' = "decide"
  /\ UNCHANGED <<file, mtime, evals, eval, handle, reloads, poller, dashboard>>

\* _run_eval returns load_latest(); a loop that gets no report ends.
LoopLoads ==
  /\ loop = "eval"
  /\ eval[evals] = "done"
  /\ IF file \in Report
     THEN rep' = file /\ loop' = "decide"
     ELSE loop' = "off" /\ UNCHANGED rep
  /\ UNCHANGED <<file, mtime, evals, eval, handle, reloads, poller, dashboard>>

LoopGoesOn ==
  /\ loop = "decide"
  /\ NextEval
  /\ UNCHANGED <<file, mtime, rep, handle, reloads, poller, dashboard>>

\* A verdict: the report is written once more, with its stop_reason.
LoopStops(r) ==
  /\ loop = "decide"
  /\ rep' = [id |-> rep.id, reason |-> r]
  /\ OpenFile
  /\ loop' = "stop"
  /\ UNCHANGED <<evals, eval, handle, reloads, poller, dashboard>>

LoopWrites ==
  /\ loop = "stop"
  /\ Fill(rep, OpenBy = {})
  /\ loop' = "off"
  /\ UNCHANGED <<rep, evals, eval, handle, reloads, poller, dashboard>>

\* The iterations that were asked for are over, or the user stops the loop;
\* an eval that it waits for lives on.
LoopEnds ==
  /\ loop # "off"
  /\ loop' = "off"
  /\ UNCHANGED <<file, mtime, rep, evals, eval, handle, reloads, poller,
                 dashboard>>
-----------------------------------------------------------------------------
(***************************************************************************)
(* The stream and the page.  What is sent arrives in order or not at all;  *)
(* nothing else changes what the page lists, so receiving is a part of     *)
(* sending.                                                                *)
(***************************************************************************)
Running == handle /\ loop # "off"

\* onmessage for "iteration_complete": a report whose identity is listed, or
\* none at all, is dropped.
Receive(report) ==
  IF /\ report \in Report
     /\ \A r \in shown : r.id # report.id
  THEN /\ shown' = shown \cup {report}
       /\ reason' = IF report.reason = NoReason THEN reason ELSE report.reason
  ELSE UNCHANGED dashboard

\* The page is opened, with an empty list.
Connect ==
  /\ stream = "off"
  /\ visits < MaxVisits
  /\ visits' = visits + 1
  /\ stream' = "connect"
  /\ wasRunning' = FALSE
  /\ shown' = {}
  /\ reason' = NoReason
  /\ UNCHANGED <<file, mtime, writers, lastMtime>>

\* The mtime is read before the report, so that a report which is written in
\* between is sent again rather than not at all.
FirstStat ==
  /\ stream = "connect"
  /\ lastMtime' = mtime
  /\ stream' = "first"
  /\ UNCHANGED <<file, mtime, writers, wasRunning, visits, dashboard>>

FirstRead ==
  /\ stream = "first"
  /\ Receive(file)
  /\ stream' = "sent"
  /\ UNCHANGED <<file, mtime, writers, lastMtime, wasRunning, visits>>

\* Mutation: last_mtime is read after the first report.
FirstAskStats ==
  /\ stream = "sent"
  /\ lastMtime' = mtime
  /\ wasRunning' = Running
  /\ stream' = "poll"
  /\ UNCHANGED <<file, mtime, writers, visits, dashboard>>

FirstAsk ==
  /\ stream = "sent"
  /\ wasRunning' = Running
  /\ stream' = "poll"
  /\ UNCHANGED <<file, mtime, writers, lastMtime, visits, dashboard>>

PollStat ==
  /\ stream = "poll"
  /\ IF mtime \notin {0, lastMtime}
     THEN lastMtime' = mtime /\ stream' = "read"
     ELSE stream' = "ask" /\ UNCHANGED lastMtime
  /\ UNCHANGED <<file, mtime, writers, wasRunning, visits, dashboard>>

PollRead ==
  /\ stream = "read"
  /\ Receive(file)
  /\ stream' = "ask"
  /\ UNCHANGED <<file, mtime, writers, lastMtime, wasRunning, visits>>

\* Mutation: was_running is brought up to date before it is looked at.
PollAskForgets ==
  /\ stream = "ask"
  /\ wasRunning' = Running
  /\ reason' = IF wasRunning' /\ ~Running /\ reason = NoReason
               THEN Manual ELSE reason
  /\ stream' = "poll"
  /\ UNCHANGED <<file, mtime, writers, lastMtime, visits, shown>>

\* "loop_stopped": the page assumes that a loop without a reason was stopped
\* by hand.
PollAsk ==
  /\ stream = "ask"
  /\ reason' = IF wasRunning /\ ~Running /\ reason = NoReason
               THEN Manual ELSE reason
  /\ wasRunning' = Running
  /\ stream' = "poll"
  /\ UNCHANGED <<file, mtime, writers, lastMtime, visits, shown>>

\* The page is left or the connection breaks; the page does not reconnect.
Disconnect ==
  /\ stream # "off"
  /\ stream' = "off"
  /\ UNCHANGED <<file, mtime, writers, lastMtime, wasRunning, visits, dashboard>>

\* The stream ends with its process, and the handle is lost.
BackendReload ==
  /\ reloads < MaxReloads
  /\ reloads' = reloads + 1
  /\ handle' = FALSE
  /\ stream' = "off"
  /\ UNCHANGED <<file, mtime, loop, rep, evals, eval, lastMtime, wasRunning,
                 visits, dashboard>>
-----------------------------------------------------------------------------
Loop == \/ LoopStarts \/ LoopLoads \/ LoopGoesOn \/ LoopWrites \/ LoopEnds
        \/ \E r \in Reasons : LoopStops(r)
        \/ \E n \in Evals : EvalOpens(n) \/ EvalWrites(n) \/ EvalDies(n)

Stream == \/ FirstStat \/ FirstRead \/ FirstAsk
          \/ PollStat \/ PollRead \/ PollAsk

Next == Loop \/ Stream \/ Connect \/ Disconnect \/ BackendReload

Spec == Init /\ [][Next]_vars /\ WF_vars(Stream)
-----------------------------------------------------------------------------
\* The stream has polled, and the file has not changed since.
CaughtUp == stream \in {"sent", "poll", "ask"} /\ lastMtime = mtime

\* A dashboard whose stream has nothing left to notice lists the report that is
\* in the file, however the writers' steps fell between the stream's: a torn
\* read, or a report replaced between stat and read, is made good later.
UpToDate == CaughtUp /\ file \in Report => \E r \in shown : r.id = file.id

\* A loop that the stream saw running and that ended is seen to have stopped,
\* unless another is started before the next poll, or the page is left.
StopNoticed ==
  wasRunning /\ ~Running ~> reason # NoReason \/ Running \/ stream = "off"

\* "Keeps a running list of reports (most recent last) and the last stop_reason
\* seen" (hooks.ts:395-396).
StopReasonSeen ==
  CaughtUp /\ file \in Report /\ file.reason # NoReason => reason = file.reason
=============================================================================
