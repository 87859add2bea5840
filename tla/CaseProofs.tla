----------------------------- MODULE CaseProofs -----------------------------
(***************************************************************************)
(* Proofs about the cases: about SeedStore, where a human writes them, and *)
(* about Grading, where an eval answers and grades them.                   *)
(* For any number of clients, drafts and questions, and without its        *)
(* bounds: no question gets two lines of the file, no draft is lost, and   *)
(* no more cases are lost than writes stopped half way, as long as none    *)
(* stopped inside a character.  For any cases,                             *)
(* models, evals, options, times and faults: no eval hears of a reply that *)
(* is not the model's, none pays more than its budget and two calls, and   *)
(* drift_check counts no disagreement that is not one.                     *)
(***************************************************************************)
EXTENDS SeedStore, Grading, FiniteSetTheorems, TLAPS

(***************************************************************************)
(* The seed store.                                                         *)
(***************************************************************************)

\* Only the holder of the lock is inside save, and what it is about to append
\* is not in the file; the draft that it is about to delete is of a case that
\* is.
LockInv ==
  \A c \in Client :
    /\ pc[c] # "idle" => holder = c
    /\ pc[c] = "append" => req[c].question \notin CaseLines
    /\ pc[c] = "unlink" => req[c].draft \in saved \cup {NoDraft}

IInv == TypeOK /\ LockInv /\ OneRowPerQuestion /\ WorkKept

\* A line that is added is the last of the file, and it is Junk or what was
\* written; the others are what they were.
LEMMA AddedLines ==
  ASSUME TypeOK, NEW line \in Question \cup {Junk}
  PROVE  /\ Added(line) \in Seq(Question \cup {Junk})
         /\ Added(line) # <<>>
         /\ Len(Added(line)) \in {Len(rows), Len(rows) + 1}
         /\ Len(Added(line)) >= 1
         /\ \A i \in DOMAIN Added(line) :
              \/ i \in DOMAIN rows /\ Added(line)[i] = rows[i] /\ i # Len(Added(line))
              \/ i = Len(Added(line)) /\ Added(line)[i] \in {line, Junk}
<1>1. rows \in Seq(Question \cup {Junk}) /\ (open => rows # <<>>)
  BY DEF TypeOK
<1>2. CASE open
  <2>1. Len(rows) \in Nat /\ Len(rows) >= 1 /\ DOMAIN rows = 1..Len(rows)
    BY <1>1, <1>2
  <2>2. Added(line) = [rows EXCEPT ![Len(rows)] = Junk]
    BY <1>2 DEF Added
  <2>3. Added(line) \in Seq(Question \cup {Junk}) /\ Len(Added(line)) = Len(rows)
    BY <1>1, <2>1, <2>2
  <2> QED
    BY <1>1, <2>1, <2>2, <2>3
<1>3. CASE ~open
  <2>1. Added(line) = Append(rows, line)
    BY <1>3 DEF Added
  <2> QED
    BY <1>1, <2>1
<1> QED
  BY <1>2, <1>3

\* Adding a line that is Junk, or a question that the file does not have,
\* leaves one line per question.
LEMMA AddedKeepsOne ==
  ASSUME TypeOK, OneRowPerQuestion, NEW line \in Question \cup {Junk},
         line \notin CaseLines, rows' = Added(line)
  PROVE  OneRowPerQuestion'
<1> SUFFICES ASSUME NEW i \in DOMAIN rows', NEW j \in DOMAIN rows',
                    rows'[i] = rows'[j], rows'[i] # Junk
             PROVE  i = j
  BY DEF OneRowPerQuestion
<1>1. \A k \in DOMAIN rows : rows[k] = line => line = Junk
  BY DEF CaseLines
<1>2. \A k \in DOMAIN rows' :
        \/ k \in DOMAIN rows /\ rows'[k] = rows[k] /\ k # Len(rows')
        \/ k = Len(rows') /\ rows'[k] \in {line, Junk}
  BY AddedLines
<1> QED
  BY <1>1, <1>2 DEF OneRowPerQuestion

LEMMA JunkIsNoCase == Junk \notin CaseLines
  BY DEF CaseLines

LEMMA LineOfIsLine ==
  ASSUME NEW q \in Question, q \notin CaseLines
  PROVE  LineOf(q) \in Question \cup {Junk} /\ LineOf(q) \notin CaseLines
  BY JunkIsNoCase DEF LineOf

LEMMA TypeInvariantInit == Init => TypeOK
<1> SUFFICES ASSUME Init PROVE TypeOK
  OBVIOUS
<1>1. rows \in Seq(Question \cup {Junk})
  BY DEF Init
<1>2. req \in [Client -> Request]
  BY DEF Init, Request
<1> QED
  BY <1>1, <1>2 DEF Init, TypeOK

\* The state has its types.
THEOREM TypeInvariant == Spec => []TypeOK
<1>1. Init => TypeOK
  BY TypeInvariantInit
<1>2. TypeOK /\ [Next]_vars => TypeOK'
  <2> SUFFICES ASSUME TypeOK, [Next]_vars PROVE TypeOK'
    OBVIOUS
  <2> USE DEF TypeOK, file, calls, past
  <2>1. ASSUME NEW c \in Client, Check(c) PROVE TypeOK'
    BY <2>1 DEF Check, Admit, Asks, Goto
  <2>2. ASSUME NEW c \in Client, AppendCase(c) PROVE TypeOK'
    <3>1. req[c].question \in Question /\ req[c].draft \in Draft \cup {NoDraft}
      BY DEF Request
    <3>2. LineOf(req[c].question) \in Question \cup {Junk}
      BY <3>1 DEF LineOf
    <3>3. rows' \in Seq(Question \cup {Junk})
      BY <2>2, <3>2, AddedLines DEF AppendCase
    <3> QED
      BY <2>2, <3>1, <3>3 DEF AppendCase, Goto
  <2>3. ASSUME NEW c \in Client, AppendFails(c) PROVE TypeOK'
    BY <2>3 DEF AppendFails, Goto
  <2>4. ASSUME NEW c \in Client, AppendTears(c) PROVE TypeOK'
    <3>1. LineOf(req[c].question) \in Question \cup {Junk}
      BY DEF LineOf, Request
    <3>2. rows' \in Seq(Question \cup {Junk}) /\ rows' # <<>>
      BY <2>4, <3>1, AddedLines DEF AppendTears
    <3>3. garbled' \in BOOLEAN
      BY <2>4 DEF AppendTears
    <3> QED
      BY <2>4, <3>2, <3>3 DEF AppendTears, Goto
  <2>5. ASSUME NEW c \in Client, Unlink(c) PROVE TypeOK'
    <3>1. req[c].question \in Question
      BY DEF Request
    <3> QED
      BY <2>5, <3>1 DEF Unlink, Goto
  <2>6. ASSUME NEW d \in Draft, PutDraft(d) PROVE TypeOK'
    BY <2>6 DEF PutDraft
  <2>7. ASSUME NEW d \in Draft, DeleteDraft(d) PROVE TypeOK'
    BY <2>7 DEF DeleteDraft
  <2>8. CASE BackendReload
    BY <2>8 DEF BackendReload
  <2>9. CASE UNCHANGED vars
    BY <2>9 DEF vars
  <2> QED
    BY <2>1, <2>2, <2>3, <2>4, <2>5, <2>6, <2>7, <2>8, <2>9 DEF Next
<1> QED
  BY <1>1, <1>2, PTL DEF Spec

LEMMA InductiveInvariant == Spec => []IInv
<1>1. Init => IInv
  <2> SUFFICES ASSUME Init PROVE LockInv /\ OneRowPerQuestion /\ WorkKept /\ TypeOK
    BY DEF IInv
  <2> QED
    BY TypeInvariantInit DEF Init, LockInv, OneRowPerQuestion, WorkKept
<1>2. IInv /\ TypeOK' /\ [Next]_vars => IInv'
  <2> SUFFICES ASSUME IInv, TypeOK', [Next]_vars
               PROVE  LockInv' /\ OneRowPerQuestion' /\ WorkKept'
    BY DEF IInv
  <2> USE DEF IInv
  <2>1. ASSUME NEW c \in Client, Check(c)
        PROVE  LockInv' /\ OneRowPerQuestion' /\ WorkKept'
    <3>1. \A e \in Client : pc[e] = "idle"
      BY <2>1, NullsAssumption DEF Check, LockInv
    <3>2. /\ holder' = c
          /\ pc' = [pc EXCEPT ![c] = "append"]
          /\ req'[c].question \notin CaseLines
          /\ UNCHANGED <<rows, drafts, typed, discarded, saved>>
      BY <2>1 DEF Check, Admit, ReadAllCases, Goto, file, past
    <3>3. LockInv'
      BY <3>1, <3>2 DEF LockInv, TypeOK, CaseLines
    <3> QED
      BY <3>2, <3>3 DEF OneRowPerQuestion, WorkKept
  <2>2. ASSUME NEW c \in Client, AppendCase(c)
        PROVE  LockInv' /\ OneRowPerQuestion' /\ WorkKept'
    <3>1. \A e \in Client : e # c => pc[e] = "idle"
      BY <2>2 DEF AppendCase, LockInv
    <3>2. req[c].question \in Question /\ req[c].question \notin CaseLines
      BY <2>2 DEF AppendCase, LockInv, TypeOK, Request
    <3>3. OneRowPerQuestion'
      BY <2>2, <3>2, LineOfIsLine, AddedKeepsOne DEF AppendCase
    <3>4. /\ pc' = [pc EXCEPT ![c] = "unlink"]
          /\ saved' = saved \cup ({req[c].draft} \ {NoDraft})
          /\ UNCHANGED <<holder, req, drafts, typed, discarded>>
      BY <2>2 DEF AppendCase, Goto
    <3>5. pc[c] # "idle"
      BY <2>2 DEF AppendCase
    <3>6. LockInv'
      BY <3>1, <3>4, <3>5 DEF LockInv, TypeOK
    <3>7. WorkKept'
      BY <3>4 DEF WorkKept
    <3> QED
      BY <3>3, <3>6, <3>7
  <2>3. ASSUME NEW c \in Client, AppendFails(c)
        PROVE  LockInv' /\ OneRowPerQuestion' /\ WorkKept'
    <3>1. \A e \in Client : e # c => pc[e] = "idle"
      BY <2>3 DEF AppendFails, LockInv
    <3> QED
      BY <2>3, <3>1 DEF AppendFails, Goto, file, past, LockInv, OneRowPerQuestion,
                        WorkKept, TypeOK, CaseLines
  <2>4. ASSUME NEW c \in Client, AppendTears(c)
        PROVE  LockInv' /\ OneRowPerQuestion' /\ WorkKept'
    <3>1. \A e \in Client : e # c => pc[e] = "idle"
      BY <2>4 DEF AppendTears, LockInv
    <3>2. req[c].question \in Question /\ req[c].question \notin CaseLines
      BY <2>4 DEF AppendTears, LockInv, TypeOK, Request
    <3>3. OneRowPerQuestion'
      BY <2>4, <3>2, LineOfIsLine, AddedKeepsOne, JunkIsNoCase DEF AppendTears
    <3>4. /\ pc' = [pc EXCEPT ![c] = "idle"]
          /\ UNCHANGED <<req, drafts, typed, discarded, saved>>
      BY <2>4 DEF AppendTears, Goto, past
    <3>5. LockInv'
      BY <3>1, <3>4 DEF LockInv, TypeOK
    <3> QED
      BY <3>3, <3>4, <3>5 DEF WorkKept
  <2>5. ASSUME NEW c \in Client, Unlink(c)
        PROVE  LockInv' /\ OneRowPerQuestion' /\ WorkKept'
    <3>1. \A e \in Client : e # c => pc[e] = "idle"
      BY <2>5 DEF Unlink, LockInv
    <3>2. /\ pc' = [pc EXCEPT ![c] = "idle"]
          /\ drafts' \in {drafts, drafts \ {req[c].draft}}
          /\ UNCHANGED <<rows, req, typed, discarded, saved>>
      BY <2>5 DEF Unlink, Goto, file
    <3>3. LockInv'
      BY <3>1, <3>2 DEF LockInv, TypeOK
    <3>4. req[c].draft \in saved \cup {NoDraft}
      BY <2>5 DEF Unlink, LockInv
    <3>5. typed \subseteq Draft
      BY DEF TypeOK
    <3>6. WorkKept'
      BY <3>2, <3>4, <3>5, NullsAssumption DEF WorkKept
    <3> QED
      BY <3>2, <3>3, <3>6 DEF OneRowPerQuestion
  <2>6. ASSUME NEW d \in Draft, PutDraft(d)
        PROVE  LockInv' /\ OneRowPerQuestion' /\ WorkKept'
    BY <2>6 DEF PutDraft, file, calls, LockInv, OneRowPerQuestion, WorkKept, CaseLines
  <2>7. ASSUME NEW d \in Draft, DeleteDraft(d)
        PROVE  LockInv' /\ OneRowPerQuestion' /\ WorkKept'
    BY <2>7 DEF DeleteDraft, file, calls, LockInv, OneRowPerQuestion, WorkKept, CaseLines
  <2>8. ASSUME BackendReload
        PROVE  LockInv' /\ OneRowPerQuestion' /\ WorkKept'
    BY <2>8 DEF BackendReload, file, past, LockInv, OneRowPerQuestion, WorkKept
  <2>9. ASSUME UNCHANGED vars
        PROVE  LockInv' /\ OneRowPerQuestion' /\ WorkKept'
    BY <2>9 DEF vars, file, calls, past, LockInv, OneRowPerQuestion, WorkKept, CaseLines
  <2> QED
    BY <2>1, <2>2, <2>3, <2>4, <2>5, <2>6, <2>7, <2>8, <2>9 DEF Next
<1> QED
  BY <1>1, <1>2, TypeInvariant, PTL DEF Spec

\* However many saves run and fail, no question gets two lines of the file.
THEOREM OneRow == Spec => []OneRowPerQuestion
<1>1. IInv => OneRowPerQuestion
  BY DEF IInv
<1> QED
  BY <1>1, InductiveInvariant, PTL

\* A draft that was typed is on disk until it is discarded or its case is saved.
THEOREM NoWorkLost == Spec => []WorkKept
<1>1. IInv => WorkKept
  BY DEF IInv
<1> QED
  BY <1>1, InductiveInvariant, PTL
-----------------------------------------------------------------------------
(* What is lost.                                                           *)

\* The questions of the lines that no later write can spoil; the saves that
\* have been answered, or will be; and what of them cannot be counted on.
Closed    == {rows[i] : i \in {i \in DOMAIN rows : ~(open /\ i = Len(rows))}} \ {Junk}
Committed == acked \cup {req[c].question : c \in {c \in Client : pc[c] = "unlink"}}
AtRisk    == (Committed \ Splitting) \ Closed

\* A line that is open has cost a torn write, but no question yet: it is the
\* next line that pays for it.
LossInv ==
  /\ IsFiniteSet(AtRisk)
  /\ Cardinality(AtRisk) + (IF open THEN 1 ELSE 0) <= tears

\* A set with at most one element more than another has at most one more.
LEMMA OneMore ==
  ASSUME NEW S, NEW T, NEW x, IsFiniteSet(S), T \subseteq S \cup {x}
  PROVE  /\ IsFiniteSet(T)
         /\ Cardinality(T) \in Nat /\ Cardinality(S) \in Nat
         /\ Cardinality(T) <= Cardinality(S) + 1
<1>1. /\ IsFiniteSet(S \cup {x})
      /\ Cardinality(S \cup {x}) = IF x \in S THEN Cardinality(S) ELSE Cardinality(S) + 1
  BY FS_AddElement
<1>2. IsFiniteSet(T) /\ Cardinality(T) <= Cardinality(S \cup {x})
  BY <1>1, FS_Subset
<1> QED
  BY <1>1, <1>2, FS_CardinalityType

LEMMA NoMore ==
  ASSUME NEW S, NEW T, IsFiniteSet(S), T \subseteq S
  PROVE  /\ IsFiniteSet(T)
         /\ Cardinality(T) \in Nat /\ Cardinality(S) \in Nat
         /\ Cardinality(T) <= Cardinality(S)
  BY FS_Subset, FS_CardinalityType

\* A line that is added leaves the closed ones; and it closes itself, or is
\* what comes after a line that was open.
LEMMA AddedCloses ==
  ASSUME TypeOK, NEW line \in Question \cup {Junk}, rows' = Added(line)
  PROVE  /\ Closed \subseteq Closed'
         /\ ~open /\ ~open' /\ line # Junk => line \in Closed'
<1>1. rows \in Seq(Question \cup {Junk}) /\ (open => rows # <<>>)
  BY DEF TypeOK
<1>2. CASE open
  <2>1. Len(rows) \in Nat /\ Len(rows) >= 1 /\ DOMAIN rows = 1..Len(rows)
    BY <1>1, <1>2
  <2>2. rows' = [rows EXCEPT ![Len(rows)] = Junk]
    BY <1>2 DEF Added
  <2>3. DOMAIN rows' = DOMAIN rows /\ \A i \in DOMAIN rows : i # Len(rows) => rows'[i] = rows[i]
    BY <2>1, <2>2
  <2>4. Len(rows') = Len(rows)
    BY <2>1, <2>2, <2>3, <1>1
  <2> QED
    BY <1>2, <2>3, <2>4 DEF Closed
<1>3. CASE ~open
  <2>1. rows' = Append(rows, line)
    BY <1>3 DEF Added
  <2>2. /\ Len(rows) \in Nat /\ DOMAIN rows = 1..Len(rows)
        /\ Len(rows') = Len(rows) + 1 /\ DOMAIN rows' = 1..(Len(rows) + 1)
        /\ rows'[Len(rows) + 1] = line
        /\ \A i \in DOMAIN rows : rows'[i] = rows[i]
    BY <1>1, <2>1
  <2>3. \A i \in DOMAIN rows : i \in DOMAIN rows' /\ i # Len(rows')
    BY <2>2
  <2>4. Closed \subseteq Closed'
    BY <2>2, <2>3 DEF Closed
  <2>5. Len(rows) + 1 \in DOMAIN rows'
    BY <2>2
  <2>6. ~open' /\ line # Junk => line \in Closed'
    BY <2>2, <2>5 DEF Closed
  <2> QED
    BY <2>4, <2>6
<1> QED
  BY <1>2, <1>3

\* What the invariant allows to be lost.
LEMMA LostAreAtRisk ==
  ASSUME LossInv, tears \in Nat
  PROVE  LossPerTear
<1>1. (acked \ Splitting) \ CaseLines \subseteq AtRisk
  BY DEF AtRisk, Committed, Closed, CaseLines
<1>2. Cardinality((acked \ Splitting) \ CaseLines) \in Nat /\ Cardinality(AtRisk) \in Nat
      /\ Cardinality((acked \ Splitting) \ CaseLines) <= Cardinality(AtRisk)
  BY <1>1, NoMore DEF LossInv
<1> QED
  BY <1>2 DEF LossInv, LossPerTear, ReadAllCases

\* If nothing new is committed, no closed line is lost and none is opened,
\* the invariant stays.
LEMMA LossInvStays ==
  ASSUME TypeOK, LossInv, Committed' \subseteq Committed, Closed \subseteq Closed',
         open' => open, tears' = tears
  PROVE  LossInv'
<1>1. AtRisk' \subseteq AtRisk
  BY DEF AtRisk
<1>2. /\ IsFiniteSet(AtRisk') /\ Cardinality(AtRisk') <= Cardinality(AtRisk)
      /\ Cardinality(AtRisk') \in Nat /\ Cardinality(AtRisk) \in Nat
  BY <1>1, NoMore DEF LossInv
<1> QED
  BY <1>2 DEF LossInv, TypeOK

LEMMA LossInvInductive == Spec => []LossInv
<1>1. Init => LossInv
  <2> SUFFICES ASSUME Init PROVE LossInv
    OBVIOUS
  <2>1. AtRisk = {}
    BY DEF Init, AtRisk, Committed
  <2> QED
    BY <2>1, FS_EmptySet DEF Init, LossInv
<1>2. IInv /\ LossInv /\ [Next]_vars => LossInv'
  <2> SUFFICES ASSUME IInv, LossInv, [Next]_vars PROVE LossInv'
    OBVIOUS
  <2>0. TypeOK /\ LockInv /\ open \in BOOLEAN /\ tears \in Nat
    BY DEF IInv, TypeOK
  <2>1. ASSUME NEW c \in Client, Check(c) PROVE LossInv'
    <3>1. /\ pc' = [pc EXCEPT ![c] = "append"] /\ pc[c] = "idle"
          /\ \E r \in Request : req' = [req EXCEPT ![c] = r]
          /\ UNCHANGED <<rows, open, acked, tears>>
      BY <2>1 DEF Check, Admit, Asks, Goto, file, past
    <3>2. Committed' \subseteq Committed
      BY <2>0, <3>1 DEF Committed, TypeOK
    <3>3. Closed' = Closed
      BY <3>1 DEF Closed
    <3> QED
      BY <2>0, <3>1, <3>2, <3>3, LossInvStays
  <2>2. ASSUME NEW c \in Client, AppendCase(c) PROVE LossInv'
    <3> DEFINE q == req[c].question
    <3>1. q \in Question /\ LineOf(q) \in Question \cup {Junk}
      BY <2>0 DEF TypeOK, Request, LineOf
    <3>2. /\ rows' = Added(LineOf(q)) /\ ~open' /\ pc' = [pc EXCEPT ![c] = "unlink"]
          /\ UNCHANGED <<req, acked, tears>>
      BY <2>2 DEF AppendCase, Goto
    <3>3. Closed \subseteq Closed' /\ (~open /\ LineOf(q) # Junk => LineOf(q) \in Closed')
      BY <2>0, <3>1, <3>2, AddedCloses
    <3>4. Committed' \subseteq Committed \cup {q}
      BY <2>0, <3>2 DEF Committed, TypeOK
    <3> HIDE DEF q
    <3>5. AtRisk' \subseteq AtRisk \cup {q}
      BY <3>3, <3>4 DEF AtRisk
    <3>6. CASE open
      <4>1. /\ IsFiniteSet(AtRisk') /\ Cardinality(AtRisk') <= Cardinality(AtRisk) + 1
            /\ Cardinality(AtRisk') \in Nat /\ Cardinality(AtRisk) \in Nat
        BY <3>5, OneMore DEF LossInv
      <4>2. Cardinality(AtRisk) + 1 <= tears
        BY <3>6 DEF LossInv
      <4>3. Cardinality(AtRisk') <= tears'
        BY <2>0, <3>2, <4>1, <4>2
      <4> QED
        BY <2>0, <3>2, <4>1, <4>3 DEF LossInv
    <3>7. CASE ~open
      <4>1. q \notin Splitting => q \in Closed'
        BY <3>1, <3>3, <3>7, NullsAssumption DEF LineOf
      <4>2. AtRisk' \subseteq AtRisk
        BY <3>5, <4>1 DEF AtRisk
      <4> QED
        BY <2>0, <3>2, <3>7, <4>2, NoMore DEF LossInv
    <3> QED
      BY <3>6, <3>7
  <2>3. ASSUME NEW c \in Client, AppendFails(c) PROVE LossInv'
    <3>1. Committed' \subseteq Committed /\ Closed' = Closed /\ open' = open /\ tears' = tears
      BY <2>0, <2>3 DEF AppendFails, Goto, file, past, Committed, Closed, TypeOK
    <3> QED
      BY <2>0, <3>1, LossInvStays
  <2>4. ASSUME NEW c \in Client, AppendTears(c) PROVE LossInv'
    <3>1. /\ \E line \in Question \cup {Junk} : rows' = Added(line)
          /\ open' /\ tears' = tears + 1 /\ pc' = [pc EXCEPT ![c] = "idle"]
          /\ UNCHANGED <<req, acked>>
      BY <2>0, <2>4 DEF AppendTears, Goto, past, TypeOK, Request, LineOf
    <3>2. Closed \subseteq Closed'
      BY <2>0, <3>1, AddedCloses
    <3>3. Committed' \subseteq Committed
      BY <2>0, <3>1 DEF Committed, TypeOK
    <3>4. AtRisk' \subseteq AtRisk
      BY <3>2, <3>3 DEF AtRisk
    <3>5. /\ IsFiniteSet(AtRisk') /\ Cardinality(AtRisk') <= Cardinality(AtRisk)
          /\ Cardinality(AtRisk') \in Nat /\ Cardinality(AtRisk) \in Nat
      BY <3>4, NoMore DEF LossInv
    <3>6. Cardinality(AtRisk) <= tears
      <4>1. CASE open
        BY <2>0, <3>5, <4>1 DEF LossInv
      <4>2. CASE ~open
        BY <2>0, <3>5, <4>2 DEF LossInv
      <4> QED
        BY <4>1, <4>2
    <3>7. Cardinality(AtRisk') + 1 <= tears'
      BY <2>0, <3>1, <3>5, <3>6
    <3> QED
      BY <3>1, <3>5, <3>7 DEF LossInv
  <2>5. ASSUME NEW c \in Client, Unlink(c) PROVE LossInv'
    <3>1. Committed' \subseteq Committed /\ Closed' = Closed /\ open' = open /\ tears' = tears
      BY <2>0, <2>5 DEF Unlink, Goto, file, Committed, Closed, TypeOK
    <3> QED
      BY <2>0, <3>1, LossInvStays
  <2>6. ASSUME NEW d \in Draft, PutDraft(d) \/ DeleteDraft(d) PROVE LossInv'
    <3>1. Committed' \subseteq Committed /\ Closed' = Closed /\ open' = open /\ tears' = tears
      BY <2>6 DEF PutDraft, DeleteDraft, file, calls, Committed, Closed
    <3> QED
      BY <2>0, <3>1, LossInvStays
  <2>7. CASE BackendReload
    <3>1. Committed' \subseteq Committed /\ Closed' = Closed /\ open' = open /\ tears' = tears
      BY <2>7 DEF BackendReload, file, past, Committed, Closed
    <3> QED
      BY <2>0, <3>1, LossInvStays
  <2>8. CASE UNCHANGED vars
    <3>1. Committed' \subseteq Committed /\ Closed' = Closed /\ open' = open /\ tears' = tears
      BY <2>8 DEF vars, file, calls, past, Committed, Closed
    <3> QED
      BY <2>0, <3>1, LossInvStays
  <2> QED
    BY <2>1, <2>2, <2>3, <2>4, <2>5, <2>6, <2>7, <2>8 DEF Next
<1> QED
  BY <1>1, <1>2, InductiveInvariant, PTL DEF Spec

\* No more of the saves that were answered ok are lost than writes stopped
\* half way, whichever saves follow them, as long as the file decodes
\* (ui/backend/seed_store.py:273).
THEOREM LossBounded == Spec => []LossPerTear
<1>1. LossInv /\ TypeOK => LossPerTear
  BY LostAreAtRisk DEF TypeOK
<1> QED
  BY <1>1, LossInvInductive, TypeInvariant, PTL
-----------------------------------------------------------------------------
(***************************************************************************)
(* Grading: the invariant.                                                 *)
(***************************************************************************)

\* A row of a report; an eval process.
Row   == [case : Case, mode : Mode, view : View, composite : Int,
          full : BOOLEAN]
Stage == {"answer", "correctness", "faithfulness", "verdict"}
Job   == [at : {"idle", "drift", "report"} \cup Stage, miss : BOOLEAN,
          opt : Options, todo : Seq(Case), sample : SUBSET Row, case : Case,
          prior : SUBSET Row, view : View, text : Text \cup {NoText},
          correctness : Score \cup {NoScore}, faithfulness : Score \cup {NoScore},
          tokens : Nat, usd : Nat, rows : SUBSET Row,
          disagree : SUBSET [prior : Row, view : View], paid : Nat,
          asked : SUBSET [key : Key, reply : Text \cup Score \cup {Garbage, Bare},
                          time : Times]]

\* What the oracle is asked about a case; and what it has said to that, at
\* some time.
OracleKey(call, c, v, text) ==
  [model |-> "oracle", prompt |-> [call |-> call, case |-> c, view |-> v, text |-> text]]
Told(w, c, v, text) ==
  \E t \in Times : Says(w, t, OracleKey("answer", c, v, NoText)) = text
ToldScore(w, call, c, v, text, score) ==
  \E t \in Times : Parsed(Says(w, t, OracleKey(call, c, v, text))) = score

\* A verdict of the oracle that has both scores: they are what the oracle said
\* of an answer that the oracle gave.
Grounded(w, c, v, text, correctness, faithfulness) ==
  /\ Told(w, c, v, text)
  /\ ToldScore(w, "correctness", c, Unseen, text, correctness)
  /\ ToldScore(w, "faithfulness", c, v, text, faithfulness)

Trusted(w, r) ==
  r.mode = "oracle" /\ r.full =>
    \E text \in Text \cup {NoText}, correctness, faithfulness \in Score :
       /\ Grounded(w, r.case, r.view, text, correctness, faithfulness)
       /\ r.composite = Composite(r.case, r.view, correctness, faithfulness)

Honest(w, ttl, a) ==
  \E t \in Times : a.time - ttl <= t /\ t <= a.time /\ Says(w, t, a.key) = a.reply

\* A disagreement that is one, as DriftGenuine has it.
Shifts(w, c) ==
  \E t, u \in Times, k \in Key : k.prompt.case = c /\ Says(w, t, k) # Says(w, u, k)
Real(w, d) == \/ ~d.prior.full \/ d.view # d.prior.view
              \/ Shifts(w, d.prior.case)

\* What an eval has gathered, whatever it does next.
Gathered(w, j) ==
  /\ \A r \in j.rows \cup j.sample \cup j.prior : Trusted(w, r)
  /\ \A r \in j.sample \cup j.prior : r.mode = "oracle"
  /\ \A d \in j.disagree : Real(w, d)
  /\ \A a \in j.asked : Honest(w, j.opt.ttl, a)

\* What it has of the verdict it works on: nothing that it has not asked for
\* yet, and, from the oracle, only what the oracle said.
Progress(w, j) ==
  /\ j.miss => Calling(j)
  /\ \A r \in j.prior : r.case = j.case
  /\ j.at \in {"answer", "correctness"} => j.correctness = NoScore
  /\ j.at \in {"answer", "correctness", "faithfulness"} => j.faithfulness = NoScore
  /\ j.at \in Stage /\ JudgeMode(j) = "oracle" =>
       /\ j.at \in {"correctness", "faithfulness"} => Told(w, j.case, j.view, j.text)
       /\ j.correctness # NoScore =>
            /\ Told(w, j.case, j.view, j.text)
            /\ ToldScore(w, "correctness", j.case, Unseen, j.text, j.correctness)
       /\ j.faithfulness # NoScore =>
            ToldScore(w, "faithfulness", j.case, j.view, j.text, j.faithfulness)

\* How many calls a verdict has had at most.
Calls(at) == CASE at = "faithfulness" -> 1 [] at = "verdict" -> 2 [] OTHER -> 0

\* What it has paid is in usd, and in the tokens of the case it works on; a
\* case is taken only below the limit; and drift_check is not charged.
Capped(j) == j.opt.limit # NoLimit /\ j.opt.limit > 0
Spending(j) ==
  /\ j.at \in Stage => j.tokens <= Calls(j.at)
  /\ Capped(j) =>
       IF j.at \in Stage /\ ~Drifting(j)
       THEN j.usd < j.opt.limit /\ j.paid <= j.usd + Usd(j.opt.mode, j.tokens)
       ELSE j.paid < j.opt.limit + 2

JobInv(w, j) == Gathered(w, j) /\ Progress(w, j) /\ Spending(j)

CacheInv ==
  \A k \in DOMAIN cache :
    /\ cache[k].at \in Times /\ cache[k].at <= now
    /\ cache[k].reply = Says(world, cache[k].at, k)

GradingTypeOK ==
  /\ world \in World /\ now \in Times /\ version \in 0..MaxVersion
  /\ job \in [Eval -> Job]
  /\ history \in SUBSET Row

GradingInv ==
  /\ GradingTypeOK
  /\ CacheInv
  /\ \A r \in history : Trusted(world, r)
  /\ \A e \in Eval : JobInv(world, job[e])
-----------------------------------------------------------------------------
(* The steps of an eval keep the types.                                    *)

\* What Takes changes, and what it leaves.
LEMMA TakesFields ==
  ASSUME NEW j \in Job, NEW c \in Case, NEW prior \in SUBSET Row,
         version \in 0..MaxVersion
  PROVE  /\ Takes(j, c, prior) \in Job
         /\ Takes(j, c, prior).at \in {"answer", "correctness", "verdict"}
         /\ Takes(j, c, prior).at = "correctness" =>
              "oracle" \notin j.opt.reach /\ JudgeMode(Takes(j, c, prior)) \in j.opt.reach
         /\ Takes(j, c, prior).case = c /\ Takes(j, c, prior).prior = prior
         /\ Takes(j, c, prior).correctness = NoScore
         /\ Takes(j, c, prior).faithfulness = NoScore
         /\ Takes(j, c, prior).tokens = 0 /\ Takes(j, c, prior).asked = {}
         /\ \A f \in {"miss", "opt", "todo", "sample", "usd", "rows", "disagree", "paid"} :
              Takes(j, c, prior)[f] = j[f]
<1> DEFINE n    == IF prior = {} THEN j.opt.k ELSE DefaultK
           view == [version |-> version, k |-> n]
           k == [j EXCEPT !.case = c, !.prior = prior, !.view = view, !.text = NoText,
                          !.correctness = NoScore, !.faithfulness = NoScore,
                          !.tokens = 0, !.asked = {}]
           at == IF Reaches(k, "oracle") THEN "answer" ELSE AfterAnswer(k)
<1>0. view \in View
  <2>1. n \in TopK
    BY OptionsAssumption, TopKAssumption DEF Job
  <2> QED
    BY <2>1 DEF View
<1>1. k \in Job
  <2> HIDE DEF view
  <2> QED
    BY <1>0 DEF Job
<1>2. Takes(j, c, prior) = [k EXCEPT !.at = at]
  BY DEF Takes
<1>3. /\ k.case = c /\ k.prior = prior /\ k.correctness = NoScore
      /\ k.faithfulness = NoScore /\ k.tokens = 0 /\ k.asked = {}
      /\ \A f \in {"miss", "opt", "todo", "sample", "usd", "rows", "disagree", "paid"} : k[f] = j[f]
  BY DEF Job
<1> HIDE DEF k
<1>4. /\ at \in {"answer", "correctness", "verdict"}
      /\ at = "correctness" => "oracle" \notin k.opt.reach /\ JudgeMode(k) \in k.opt.reach
  BY DEF AfterAnswer, Reaches
<1> HIDE DEF at
<1>5. [k EXCEPT !.at = at] \in Job
  BY <1>1, <1>4 DEF Job, Stage
<1>6. /\ [k EXCEPT !.at = at].at = at
      /\ \A f \in {"case", "prior", "correctness", "faithfulness", "tokens", "asked", "miss", "opt",
                   "todo", "sample", "usd", "rows", "disagree", "paid"} :
           [k EXCEPT !.at = at][f] = k[f]
  BY <1>1 DEF Job
<1>7. JudgeMode([k EXCEPT !.at = at]) = JudgeMode(k)
  BY <1>6 DEF JudgeMode, Drifting
<1> QED
  BY <1>2, <1>3, <1>4, <1>5, <1>6, <1>7
\* What the case in hand may cost with n more calls.
Affords(j, n) ==
  Capped(j) =>
    IF ~Drifting(j) THEN j.usd < j.opt.limit /\ j.paid <= j.usd + Usd(j.opt.mode, j.tokens + n)
                    ELSE j.paid < j.opt.limit + 2

LEMMA OptionTypes ==
  ASSUME NEW o \in Options
  PROVE  /\ o.mode \in Mode /\ o.reach \in SUBSET Mode /\ o.drift \in BOOLEAN
         /\ o.limit \in Nat \cup {NoLimit} /\ o.ttl \in Nat /\ o.subset \in Nat
  BY OptionsAssumption

LEMMA UsdAdds ==
  ASSUME NEW mode, NEW m \in Nat, NEW n \in Nat
  PROVE  /\ Usd(mode, m) \in Nat /\ Usd(mode, m) <= m
         /\ Usd(mode, m) <= Usd(mode, m + n)
         /\ Usd(mode, m) + Usd(mode, n) = Usd(mode, m + n)
  BY DEF Usd

LEMMA UnseenType == Unseen \in View
BY VersionsAssumption, TopKAssumption DEF Unseen, View

LEMMA CaseExists == (CHOOSE c \in Case : TRUE) \in Case
<1>1. Case # {}
  BY CasesAssumption
<1> QED
  BY <1>1

LEMMA IdleInv ==
  ASSUME NEW w
  PROVE  Idle \in Job /\ JobInv(w, Idle)
<1>1. (CHOOSE o \in Options : TRUE) \in Options
  BY OptionsAssumption
<1>2. Idle \in Job
  BY <1>1, CaseExists, UnseenType DEF Idle, Job
<1>3. /\ Idle.at = "idle" /\ Idle.miss = FALSE /\ Idle.sample = {} /\ Idle.prior = {}
      /\ Idle.rows = {} /\ Idle.disagree = {} /\ Idle.asked = {} /\ Idle.paid = 0
  BY DEF Idle
<1>4. Idle.opt \in Options
  BY <1>1 DEF Idle
<1> HIDE DEF Idle
<1>5. Gathered(w, Idle) /\ Progress(w, Idle)
  BY <1>3 DEF Gathered, Progress, Calling, Stage
<1>6. Spending(Idle)
  BY <1>3, <1>4, OptionTypes DEF Spending, Stage, Capped, Drifting
<1> QED
  BY <1>2, <1>5, <1>6 DEF JobInv

\* A case is taken by an eval that is between two, and can afford it.
LEMMA TakesInv ==
  ASSUME NEW w, NEW j \in Job, NEW c \in Case, NEW prior \in SUBSET Row,
         version \in 0..MaxVersion, Gathered(w, j), ~j.miss,
         \A r \in prior : Trusted(w, r) /\ r.case = c /\ r.mode = "oracle",
         Capped(j) => IF prior = {} THEN j.usd < j.opt.limit /\ j.paid <= j.usd
                                    ELSE j.paid < j.opt.limit + 2
  PROVE  Takes(j, c, prior) \in Job /\ JobInv(w, Takes(j, c, prior))
<1> DEFINE k == Takes(j, c, prior)
<1>1. /\ k \in Job
      /\ k.at \in {"answer", "correctness", "verdict"}
      /\ k.at = "correctness" => "oracle" \notin j.opt.reach /\ JudgeMode(k) \in j.opt.reach
      /\ k.case = c /\ k.prior = prior
      /\ k.correctness = NoScore /\ k.faithfulness = NoScore /\ k.tokens = 0 /\ k.asked = {}
      /\ k.miss = j.miss /\ k.opt = j.opt /\ k.sample = j.sample /\ k.usd = j.usd
      /\ k.rows = j.rows /\ k.disagree = j.disagree /\ k.paid = j.paid
  BY TakesFields
<1> HIDE DEF k
<1>2. Gathered(w, k)
  BY <1>1 DEF Gathered
<1>3. Progress(w, k)
  BY <1>1 DEF Progress, Stage
<1>4. k.tokens <= Calls(k.at)
  BY <1>1 DEF Calls
<1>5. k.paid \in Nat /\ k.usd \in Nat /\ j.opt \in Options
  BY <1>1 DEF Job
<1>6. Capped(k) => IF prior = {} THEN k.usd < k.opt.limit /\ k.paid <= k.usd
                                   ELSE k.paid < k.opt.limit + 2
  BY <1>1 DEF Capped
<1>7. Usd(k.opt.mode, k.tokens) = 0
  BY <1>1 DEF Usd
<1>8. Spending(k)
  BY <1>1, <1>4, <1>5, <1>6, <1>7 DEF Spending, Stage, Drifting
<1> QED
  BY <1>1, <1>2, <1>3, <1>8 DEF JobInv, k

LEMMA NextCaseInv ==
  ASSUME NEW w, NEW j \in Job, version \in 0..MaxVersion, Gathered(w, j), ~j.miss,
         j.todo # <<>>, Capped(j) => j.usd < j.opt.limit /\ j.paid <= j.usd
  PROVE  NextCase(j) \in Job /\ JobInv(w, NextCase(j))
<1> DEFINE k == [j EXCEPT !.todo = Tail(@)]
<1>1. j.todo \in Seq(Case)
  BY DEF Job
<1>2. Head(j.todo) \in Case /\ Tail(j.todo) \in Seq(Case)
  BY <1>1
<1>3. k \in Job
  BY <1>2 DEF Job
<1>4. \A f \in {"opt", "sample", "prior", "rows", "disagree", "asked", "miss", "usd", "paid"} :
         k[f] = j[f]
  BY DEF Job
<1>5. NextCase(j) = Takes(k, Head(j.todo), {})
  BY DEF NextCase
<1> HIDE DEF k
<1>6. Gathered(w, k) /\ ~k.miss
  BY <1>4 DEF Gathered
<1>7. Capped(k) => k.usd < k.opt.limit /\ k.paid <= k.usd
  BY <1>4 DEF Capped
<1> QED
  BY <1>2, <1>3, <1>5, <1>6, <1>7, TakesInv

LEMMA NextPriorInv ==
  ASSUME NEW w, NEW j \in Job, version \in 0..MaxVersion, Gathered(w, j), ~j.miss,
         Capped(j) => j.paid < j.opt.limit + 2
  PROVE  NextPrior(j) \in Job /\ JobInv(w, NextPrior(j))
<1>1. CASE j.sample = {}
  <2> DEFINE k == [j EXCEPT !.at = "report", !.prior = {}]
  <2>1. k \in Job
    BY DEF Job
  <2>2. /\ k.at = "report" /\ k.prior = {}
        /\ \A f \in {"opt", "sample", "rows", "disagree", "asked", "miss", "usd", "paid"} :
             k[f] = j[f]
    BY DEF Job
  <2>3. NextPrior(j) = k
    BY <1>1 DEF NextPrior
  <2> HIDE DEF k
  <2>4. Gathered(w, k) /\ Progress(w, k) /\ Spending(k)
    BY <2>2 DEF Gathered, Progress, Spending, Stage, Capped
  <2> QED
    BY <2>1, <2>3, <2>4 DEF JobInv
<1>2. CASE j.sample # {}
  <2> DEFINE r == CHOOSE r \in j.sample : TRUE
             k == [j EXCEPT !.sample = @ \ {r}]
  <2>1. r \in j.sample
    BY <1>2
  <2>2. NextPrior(j) = Takes(k, r.case, {r})
    BY <1>2 DEF NextPrior
  <2> HIDE DEF r
  <2>3. r \in Row /\ r.case \in Case
    BY <2>1 DEF Job, Row
  <2>4. k \in Job
    BY DEF Job
  <2>5. /\ k.sample = j.sample \ {r}
        /\ \A f \in {"opt", "prior", "rows", "disagree", "asked", "miss", "usd", "paid"} :
             k[f] = j[f]
    BY DEF Job
  <2> HIDE DEF k
  <2>6. Gathered(w, k) /\ ~k.miss
    BY <2>5 DEF Gathered
  <2>7. Trusted(w, r) /\ r.mode = "oracle"
    BY <2>1 DEF Gathered
  <2>8. Capped(k) => k.paid < k.opt.limit + 2
    BY <2>5 DEF Capped
  <2> QED
    BY <2>2, <2>3, <2>4, <2>6, <2>7, <2>8, TakesInv
<1> QED
  BY <1>1, <1>2

LEMMA RaisesInv ==
  ASSUME NEW w, NEW j \in Job, version \in 0..MaxVersion, Gathered(w, j), ~j.miss,
         Drifting(j) /\ Capped(j) => j.paid < j.opt.limit + 2
  PROVE  Raises(j) \in Job /\ JobInv(w, Raises(j))
  BY IdleInv, NextPriorInv DEF Raises
LEMMA ParsedType ==
  ASSUME NEW reply
  PROVE  /\ Parsed(reply) \in Score \cup {NoScore}
         /\ reply \in {Garbage, Bare} => Parsed(reply) = NoScore
  BY RepliesAssumption DEF Parsed

\* A reply is graded: of the oracle it has to be what the oracle said, unless
\* it has no score.
LEMMA GradedInv ==
  ASSUME NEW w, NEW j \in Job, NEW reply, NEW n \in {0, 1}, version \in 0..MaxVersion,
         Gathered(w, j), Progress(w, j), ~j.miss,
         j.at \in {"correctness", "faithfulness"},
         j.tokens <= Calls(j.at), Affords(j, n),
         JudgeMode(j) = "oracle" /\ Parsed(reply) # NoScore =>
           ToldScore(w, j.at, j.case, IF j.at = "correctness" THEN Unseen ELSE j.view,
                     j.text, Parsed(reply))
  PROVE  Graded(j, reply, n) \in Job /\ JobInv(w, Graded(j, reply, n))
<1>1. CASE reply = Bare
  <2>1. Drifting(j) /\ Capped(j) => j.paid < j.opt.limit + 2
    BY DEF Affords
  <2> QED
    BY <1>1, <2>1, RaisesInv DEF Graded
<1>2. CASE reply # Bare
  <2> DEFINE m == [j EXCEPT !.tokens = @ + n]
             k == Scored(m, reply)
  <2>1. m \in Job /\ m.at = j.at
    <3>1. j.tokens + n \in Nat
      BY DEF Job
    <3> QED
      BY <3>1 DEF Job
  <2>2. Graded(j, reply, n) = k
    BY <1>2 DEF Graded
  <2>3. m.tokens = j.tokens + n
        /\ \A f \in {"opt", "sample", "prior", "rows", "disagree", "asked", "miss", "usd", "paid",
                     "case", "view", "text", "correctness", "faithfulness"} : m[f] = j[f]
    BY DEF Job
  <2> HIDE DEF m
  <2>4. k \in Job
    <3>1. Parsed(reply) \in Score \cup {NoScore}
      BY ParsedType
    <3>2. CASE j.at = "correctness"
      BY <2>1, <3>1, <3>2 DEF Scored, Job, Stage
    <3>3. CASE j.at = "faithfulness"
      BY <2>1, <3>1, <3>3 DEF Scored, Job, Stage
    <3> QED
      BY <3>2, <3>3
  <2>5. /\ k.tokens = j.tokens + n
        /\ \A f \in {"opt", "sample", "prior", "rows", "disagree", "asked", "miss", "usd", "paid",
                     "case", "view", "text"} : k[f] = j[f]
    <3>1. \A f \in {"opt", "sample", "prior", "rows", "disagree", "asked", "miss", "usd", "paid",
                     "case", "view", "text", "tokens"} : k[f] = m[f]
      BY <2>1 DEF Scored, Job
    <3> QED
      BY <2>3, <3>1
  <2>6. IF j.at = "correctness"
        THEN k.at = "faithfulness" /\ k.correctness = Parsed(reply)
             /\ k.faithfulness = j.faithfulness
        ELSE k.at = "verdict" /\ k.correctness = j.correctness
             /\ k.faithfulness = Parsed(reply)
    <3>1. CASE j.at = "correctness"
      BY <2>1, <2>3, <3>1 DEF Scored, Job
    <3>2. CASE j.at = "faithfulness"
      BY <2>1, <2>3, <3>2 DEF Scored, Job
    <3> QED
      BY <3>1, <3>2
  <2> HIDE DEF k
  <2>7. Gathered(w, k)
    BY <2>5 DEF Gathered
  <2>8. JudgeMode(k) = JudgeMode(j) /\ (Drifting(k) <=> Drifting(j)) /\ (Capped(k) <=> Capped(j))
    BY <2>5 DEF JudgeMode, Drifting, Capped
  <2>9. j.faithfulness = NoScore /\ (j.at = "correctness" => j.correctness = NoScore)
    BY DEF Progress
  <2>10. JudgeMode(j) = "oracle" =>
           /\ Told(w, j.case, j.view, j.text)
           /\ j.correctness # NoScore =>
                ToldScore(w, "correctness", j.case, Unseen, j.text, j.correctness)
    BY DEF Progress, Stage
  <2>11. Progress(w, k)
    <3>1. CASE j.at = "correctness"
      BY <2>5, <2>6, <2>8, <2>9, <2>10, <3>1 DEF Progress, Stage
    <3>2. CASE j.at = "faithfulness"
      BY <2>5, <2>6, <2>8, <2>9, <2>10, <3>2 DEF Progress, Stage
    <3> QED
      BY <3>1, <3>2
  <2>12. k.tokens <= Calls(k.at)
    <3>1. j.tokens \in Nat
      BY DEF Job
    <3>2. CASE j.at = "correctness"
      BY <2>5, <2>6, <3>1, <3>2 DEF Calls
    <3>3. CASE j.at = "faithfulness"
      BY <2>5, <2>6, <3>1, <3>3 DEF Calls
    <3> QED
      BY <3>2, <3>3
  <2>13. Spending(k)
    <3>1. k.at \in Stage
      BY <2>6 DEF Stage
    <3> QED
      BY <2>5, <2>8, <2>12, <3>1 DEF Spending, Affords
  <2> QED
    BY <2>2, <2>4, <2>7, <2>11, <2>13 DEF JobInv
<1> QED
  BY <1>1, <1>2

\* What a call is about.
LEMMA KeyOf ==
  ASSUME NEW j \in Job, Calling(j)
  PROVE  /\ HashKey(ModelOf(j), PromptOf(j)) \in Key
         /\ HashKey(ModelOf(j), PromptOf(j)).prompt.call = j.at
         /\ ModelOf(j) = "oracle" =>
              HashKey(ModelOf(j), PromptOf(j)) =
                IF j.at = "answer" THEN OracleKey("answer", j.case, j.view, NoText)
                ELSE OracleKey(j.at, j.case, IF j.at = "correctness" THEN Unseen ELSE j.view, j.text)
<1>1. ModelOf(j) \in Mode
  <2>1. j.opt.mode \in Mode
    BY OptionTypes DEF Job
  <2> QED
    BY <2>1 DEF ModelOf, JudgeMode, Mode
<1>2. /\ j.case \in Case /\ j.view \in View /\ Unseen \in View
      /\ j.text \in Text \cup {NoText}
  BY UnseenType DEF Job
<1>3. PromptOf(j) \in Prompt
  <2>1. CASE j.at = "answer"
    BY <1>2, <2>1 DEF PromptOf, Prompt
  <2>2. CASE j.at \in {"correctness", "faithfulness"}
    BY <1>2, <2>2 DEF PromptOf, Prompt
  <2> QED
    BY <2>1, <2>2 DEF Calling
<1>4. PromptOf(j).call = j.at
  BY DEF PromptOf
<1> QED
  BY <1>1, <1>3, <1>4 DEF HashKey, Key, OracleKey, PromptOf, Calling
\* A reply is heard that the model has said, within the TTL.
LEMMA HearsInv ==
  ASSUME NEW w \in World, NEW j \in Job, NEW reply, version \in 0..MaxVersion, now \in Times,
         Gathered(w, j), Progress(w, j), Calling(j), j.tokens <= Calls(j.at),
         Affords(j, IF j.at = "answer" THEN 0 ELSE 1),
         \E t \in Times : /\ now - j.opt.ttl <= t /\ t <= now
                          /\ Says(w, t, HashKey(ModelOf(j), PromptOf(j))) = reply
  PROVE  Hears(j, reply) \in Job /\ JobInv(w, Hears(j, reply))
<1> DEFINE key == HashKey(ModelOf(j), PromptOf(j))
           a == [key |-> key, reply |-> reply, time |-> now]
           k == [j EXCEPT !.miss = FALSE, !.asked = @ \cup {a}]
<1>1. PICK t \in Times : now - j.opt.ttl <= t /\ t <= now /\ Says(w, t, key) = reply
  OBVIOUS
<1>2. key \in Key /\ key.prompt.call = j.at
  BY KeyOf
<1>3. reply \in IF j.at = "answer" THEN Text ELSE Score \cup {Garbage, Bare}
  BY <1>1, <1>2, WorldAssumption
<1>4. ModelOf(j) = "oracle" =>
        key = IF j.at = "answer" THEN OracleKey("answer", j.case, j.view, NoText)
              ELSE OracleKey(j.at, j.case, IF j.at = "correctness" THEN Unseen ELSE j.view, j.text)
  BY KeyOf
<1>5. Hears(j, reply) = IF j.at = "answer" THEN [k EXCEPT !.text = reply, !.at = AfterAnswer(j)]
                        ELSE Graded(k, reply, 1)
  BY DEF Hears, HashKey
<1>6. a \in [key : Key, reply : Text \cup Score \cup {Garbage, Bare}, time : Times]
  BY <1>2, <1>3
<1>7. Honest(w, j.opt.ttl, a)
  BY <1>1 DEF Honest
<1> HIDE DEF key, a
<1>8. k \in Job
  BY <1>6 DEF Job
<1>9. /\ k.asked = j.asked \cup {a} /\ k.miss = FALSE
      /\ \A f \in {"opt", "sample", "prior", "rows", "disagree", "usd", "paid", "case", "view",
                   "text", "correctness", "faithfulness", "tokens", "at"} : k[f] = j[f]
  BY DEF Job
<1> HIDE DEF k
<1>10. Gathered(w, k)
  BY <1>7, <1>9 DEF Gathered
<1>11. JudgeMode(k) = JudgeMode(j) /\ (Drifting(k) <=> Drifting(j)) /\ (Capped(k) <=> Capped(j))
  BY <1>9 DEF JudgeMode, Drifting, Capped
<1>12. Progress(w, k)
  BY <1>9, <1>11 DEF Progress
<1>13. CASE j.at = "answer"
  <2> DEFINE m == [k EXCEPT !.text = reply, !.at = AfterAnswer(j)]
  <2>1. AfterAnswer(j) \in {"correctness", "verdict"}
    BY DEF AfterAnswer
  <2>2. m \in Job
    BY <1>3, <1>8, <1>13, <2>1 DEF Job, Stage
  <2>3. /\ m.text = reply /\ m.at \in {"correctness", "verdict"}
        /\ \A f \in {"opt", "sample", "prior", "rows", "disagree", "usd", "paid", "case", "view",
                     "correctness", "faithfulness", "tokens", "asked", "miss"} : m[f] = k[f]
    BY <1>8, <2>1 DEF Job
  <2> HIDE DEF m
  <2>4. Gathered(w, m)
    BY <1>10, <2>3 DEF Gathered
  <2>5. JudgeMode(m) = JudgeMode(j) /\ (Drifting(m) <=> Drifting(j)) /\ (Capped(m) <=> Capped(j))
    BY <1>9, <2>3 DEF JudgeMode, Drifting, Capped
  <2>6. Told(w, j.case, j.view, reply)
    BY <1>1, <1>4, <1>13 DEF Told, ModelOf
  <2>7. j.correctness = NoScore /\ j.faithfulness = NoScore
    BY <1>13 DEF Progress
  <2>8. Progress(w, m)
    BY <1>9, <2>3, <2>6, <2>7 DEF Progress, Stage
  <2>9. j.tokens = 0
    BY <1>13 DEF Calls, Job
  <2>10. m.tokens <= Calls(m.at)
    BY <1>9, <2>3, <2>9 DEF Calls
  <2>11. Spending(m)
    <3>1. Capped(j) => IF ~Drifting(j)
                       THEN j.usd < j.opt.limit /\ j.paid <= j.usd + Usd(j.opt.mode, j.tokens)
                       ELSE j.paid < j.opt.limit + 2
      BY <1>13, <2>9 DEF Affords
    <3>2. /\ m.usd = j.usd /\ m.opt = j.opt /\ m.paid = j.paid /\ m.tokens = j.tokens
          /\ m.at \in Stage
      BY <1>9, <2>3 DEF Stage
    <3> QED
      BY <2>5, <2>10, <3>1, <3>2 DEF Spending
  <2> QED
    BY <1>5, <1>13, <2>2, <2>4, <2>8, <2>11 DEF JobInv, m
<1>14. CASE j.at # "answer"
  <2>1. k.at \in {"correctness", "faithfulness"}
    BY <1>9, <1>14 DEF Calling
  <2>2. Affords(k, 1)
    BY <1>9, <1>11, <1>14 DEF Affords
  <2>3. JudgeMode(k) = "oracle" =>
          ToldScore(w, k.at, k.case, IF k.at = "correctness" THEN Unseen ELSE k.view, k.text,
                    Parsed(reply))
    <3>1. ModelOf(j) = JudgeMode(j)
      BY <1>14 DEF ModelOf
    <3> QED
      BY <1>1, <1>4, <1>9, <1>11, <1>14, <3>1 DEF ToldScore
  <2>4. Graded(k, reply, 1) \in Job /\ JobInv(w, Graded(k, reply, 1))
    BY <1>8, <1>9, <1>10, <1>12, <2>1, <2>2, <2>3, GradedInv
  <2> QED
    BY <1>5, <1>14, <2>4
<1> QED
  BY <1>13, <1>14

LEMMA RecallType ==
  ASSUME NEW c \in Case, NEW retrieved
  PROVE  Recall(c, retrieved) \in Int
<1> DEFINE found == {s \in Sources(c) :
                      \E i \in DOMAIN retrieved : i <= 5 /\ Overlaps(s, retrieved[i])}
<1>1. IsFiniteSet(Sources(c)) /\ found \in SUBSET Sources(c)
  BY CasesAssumption
<1>2. IsFiniteSet(found)
  BY <1>1, FS_Subset
<1>3. Cardinality(found) \in Nat /\ Cardinality(Sources(c)) \in Nat
  BY <1>1, <1>2, FS_CardinalityType
<1>4. Sources(c) # {} => Cardinality(Sources(c)) # 0
  BY <1>1, FS_EmptySet
<1> HIDE DEF found
<1>5. Sources(c) # {} => (2 * Cardinality(found)) \div Cardinality(Sources(c)) \in Int
  BY <1>3, <1>4
<1> QED
  BY <1>5 DEF Recall, found

LEMMA CompositeType ==
  ASSUME NEW c \in Case, NEW v, NEW x \in Score \cup {NoScore}, NEW y \in Score \cup {NoScore}
  PROVE  Composite(c, v, x, y) \in Int
<1>1. Recall(c, Retrieved(v, c)) \in Int
  BY RecallType
<1>2. OrZero(x) \in Int /\ OrZero(y) \in Int
  BY DEF OrZero, Score
<1>3. Weights.correctness \in Int /\ Weights.recall \in Int /\ Weights.faithfulness \in Int
  BY WeightsAssumption
<1> QED
  BY <1>1, <1>2, <1>3 DEF Composite

LEMMA OracleKeyType ==
  ASSUME NEW c \in Case, NEW v \in View, NEW text \in Text \cup {NoText},
         NEW call \in {"correctness", "faithfulness"}
  PROVE  /\ OracleKey("answer", c, v, NoText) \in Key
         /\ OracleKey("answer", c, v, NoText).prompt.case = c
         /\ OracleKey(call, c, v, text) \in Key
         /\ OracleKey(call, c, v, text).prompt.case = c
  BY DEF OracleKey, Key, Prompt, Mode

\* Of a case about which no model changes what it says, the oracle has but one
\* verdict per view.
LEMMA OneVerdict ==
  ASSUME NEW w, NEW c \in Case, NEW v \in View, ~Shifts(w, c)
  PROVE  \A text1, text2 \in Text \cup {NoText}, x1, x2, y1, y2 \in Score \cup {NoScore} :
           Grounded(w, c, v, text1, x1, y1) /\ Grounded(w, c, v, text2, x2, y2) =>
             x1 = x2 /\ y1 = y2
<1> TAKE text1, text2 \in Text \cup {NoText}, x1, x2, y1, y2 \in Score \cup {NoScore}
<1> HAVE Grounded(w, c, v, text1, x1, y1) /\ Grounded(w, c, v, text2, x2, y2)
<1>1. \A k \in Key : k.prompt.case = c => \A t, u \in Times : Says(w, t, k) = Says(w, u, k)
  BY DEF Shifts
<1>2. Unseen \in View
  BY UnseenType
<1>3. text1 = text2
  BY <1>1, OracleKeyType DEF Grounded, Told
<1>4. x1 = x2
  BY <1>1, <1>2, <1>3, OracleKeyType DEF Grounded, ToldScore
<1>5. y1 = y2
  BY <1>1, <1>3, OracleKeyType DEF Grounded, ToldScore
<1> QED
  BY <1>4, <1>5
\* A verdict of the oracle that has both scores is grounded.
LEMMA VerdictGrounded ==
  ASSUME NEW w, NEW j \in Job, Progress(w, j), j.at = "verdict", JudgeMode(j) = "oracle",
         NoScore \notin {j.correctness, j.faithfulness}
  PROVE  Grounded(w, j.case, j.view, j.text, j.correctness, j.faithfulness)
  BY DEF Progress, Stage, Grounded

\* The verdict of a case.
LEMMA CountedInv ==
  ASSUME NEW w, NEW j \in Job, version \in 0..MaxVersion, JobInv(w, j),
         j.at = "verdict", ~Drifting(j)
  PROVE  Counted(j) \in Job /\ JobInv(w, Counted(j))
<1> DEFINE row == [case |-> j.case, mode |-> j.opt.mode, view |-> j.view,
                   composite |-> CompositeOf(j),
                   full |-> NoScore \notin {j.correctness, j.faithfulness}]
           k == [j EXCEPT !.rows = @ \cup {row}, !.usd = @ + Usd(j.opt.mode, j.tokens)]
           at == IF j.opt.drift THEN "drift" ELSE "report"
           m == [k EXCEPT !.at = at]
<1>1. /\ j.case \in Case /\ j.opt \in Options /\ j.view \in View
      /\ j.correctness \in Score \cup {NoScore} /\ j.faithfulness \in Score \cup {NoScore}
      /\ j.usd \in Nat /\ j.tokens \in Nat /\ j.paid \in Nat /\ j.text \in Text \cup {NoText}
  BY DEF Job
<1>2. CompositeOf(j) \in Int
  BY <1>1, CompositeType DEF CompositeOf
<1>3. row \in Row
  BY <1>1, <1>2, OptionTypes DEF Row
<1>4. Trusted(w, row)
  <2> SUFFICES ASSUME row.mode = "oracle", row.full
               PROVE  Trusted(w, row)
    BY DEF Trusted
  <2>1. JudgeMode(j) = "oracle" /\ NoScore \notin {j.correctness, j.faithfulness}
    BY DEF JudgeMode
  <2>2. Grounded(w, j.case, j.view, j.text, j.correctness, j.faithfulness)
    BY <2>1, VerdictGrounded DEF JobInv
  <2>3. j.correctness \in Score /\ j.faithfulness \in Score
    BY <1>1, <2>1
  <2>4. row.composite = Composite(j.case, j.view, j.correctness, j.faithfulness)
    BY DEF CompositeOf
  <2>5. row.case = j.case /\ row.view = j.view
    OBVIOUS
  <2> HIDE DEF row
  <2> QED
    BY <1>1, <2>2, <2>3, <2>4, <2>5 DEF Trusted
<1> HIDE DEF row
<1>5. Usd(j.opt.mode, j.tokens) \in Nat /\ Usd(j.opt.mode, j.tokens) <= 2
  <2>1. j.tokens <= 2
    BY DEF JobInv, Spending, Stage, Calls
  <2> QED
    BY <1>1, <2>1 DEF Usd
<1>6. k \in Job
  <2>1. j.usd + Usd(j.opt.mode, j.tokens) \in Nat
    BY <1>1, <1>5
  <2> QED
    BY <1>3, <2>1 DEF Job
<1>7. /\ k.rows = j.rows \cup {row} /\ k.usd = j.usd + Usd(j.opt.mode, j.tokens)
      /\ \A f \in {"opt", "sample", "prior", "disagree", "asked", "miss", "paid", "todo"} :
           k[f] = j[f]
  BY DEF Job
<1>8. Counted(j) = IF j.todo # <<>> /\ ~Hit(k) THEN NextCase(k) ELSE m
  BY DEF Counted, row
<1> HIDE DEF k
<1>9. Gathered(w, k)
  BY <1>4, <1>7 DEF Gathered, JobInv
<1>10. ~k.miss
  BY <1>7 DEF JobInv, Progress, Calling
<1>11. Capped(j) => j.usd < j.opt.limit /\ j.paid <= k.usd
  BY <1>7 DEF JobInv, Spending, Stage
<1>12. CASE j.todo # <<>> /\ ~Hit(k)
  <2>1. Capped(k) => k.usd < k.opt.limit /\ k.paid <= k.usd
    <3>1. k.usd \in Nat /\ k.opt.limit \in Nat \cup {NoLimit}
      BY <1>6, OptionTypes DEF Job
    <3> QED
      BY <1>7, <1>11, <1>12, <3>1 DEF Capped, Hit
  <2> QED
    BY <1>6, <1>7, <1>8, <1>9, <1>10, <1>12, <2>1, NextCaseInv
<1>13. CASE ~(j.todo # <<>> /\ ~Hit(k))
  <2>0. at \in {"drift", "report"}
    OBVIOUS
  <2> HIDE DEF at
  <2>1. m \in Job
    BY <1>6, <2>0 DEF Job
  <2>2. /\ m.at \in {"drift", "report"}
        /\ \A f \in {"opt", "sample", "prior", "disagree", "asked", "miss", "paid", "rows"} :
             m[f] = k[f]
    BY <1>6, <2>0 DEF Job
  <2> HIDE DEF m
  <2>3. Gathered(w, m)
    BY <1>9, <2>2 DEF Gathered
  <2>4. Progress(w, m)
    BY <1>7, <1>10, <2>2 DEF Progress, Stage, Drifting
  <2>5. Capped(m) => m.paid < m.opt.limit + 2
    <3>1. Capped(j) => j.opt.limit \in Nat
      BY <1>1, OptionTypes DEF Capped
    <3>2. Capped(j) => j.paid < j.opt.limit + 2
      BY <1>1, <1>5, <1>7, <1>11, <3>1
    <3> QED
      BY <1>7, <2>2, <3>2 DEF Capped
  <2>6. Spending(m)
    BY <2>2, <2>5 DEF Spending, Stage
  <2> QED
    BY <1>8, <1>13, <2>1, <2>3, <2>4, <2>6 DEF JobInv, m, at
<1> QED
  BY <1>12, <1>13

\* The verdict of a row of the history.
LEMMA ComparedInv ==
  ASSUME NEW w, NEW j \in Job, version \in 0..MaxVersion, JobInv(w, j),
         j.at = "verdict", Drifting(j)
  PROVE  Compared(j) \in Job /\ JobInv(w, Compared(j))
<1> DEFINE again == {[prior |-> r, view |-> j.view] : r \in {r \in j.prior : Disagrees(j, r)}}
           k == [j EXCEPT !.disagree = @ \cup again]
<1>1. /\ j.case \in Case /\ j.view \in View /\ j.prior \in SUBSET Row
      /\ j.correctness \in Score \cup {NoScore} /\ j.faithfulness \in Score \cup {NoScore}
      /\ j.text \in Text \cup {NoText}
  BY DEF Job
<1>2. again \subseteq [prior : Row, view : View]
  BY <1>1
<1>3. ASSUME NEW r \in j.prior, Disagrees(j, r), r.full, j.view = r.view
      PROVE  Shifts(w, r.case)
  <2> SUFFICES ASSUME ~Shifts(w, r.case) PROVE FALSE
    OBVIOUS
  <2>1. r.case = j.case /\ Trusted(w, r) /\ r.mode = "oracle"
    BY DEF JobInv, Progress, Gathered
  <2>2. PICK text \in Text \cup {NoText}, x \in Score, y \in Score :
          /\ Grounded(w, r.case, r.view, text, x, y)
          /\ r.composite = Composite(r.case, r.view, x, y)
    BY <1>3, <2>1 DEF Trusted
  <2>3. NoScore \notin {j.correctness, j.faithfulness}
    BY <1>3 DEF Disagrees
  <2>4. Grounded(w, j.case, j.view, j.text, j.correctness, j.faithfulness)
    <3>1. JudgeMode(j) = "oracle"
      BY DEF JudgeMode
    <3>2. Progress(w, j)
      BY DEF JobInv
    <3> QED
      BY <2>3, <3>1, <3>2, VerdictGrounded
  <2>5. x = j.correctness /\ y = j.faithfulness
    <3>1. Grounded(w, j.case, j.view, text, x, y) /\ ~Shifts(w, j.case)
      BY <1>3, <2>1, <2>2
    <3> QED
      BY <1>1, <2>4, <3>1, OneVerdict
  <2>6. CompositeOf(j) = r.composite
    BY <1>3, <2>1, <2>2, <2>5 DEF CompositeOf
  <2>7. CompositeOf(j) \in Int
    BY <1>1, CompositeType DEF CompositeOf
  <2>8. ~Differs(CompositeOf(j), r.composite)
    BY <2>6, <2>7 DEF Differs
  <2> QED
    BY <1>3, <2>8 DEF Disagrees
<1>4. \A d \in again : Real(w, d)
  BY <1>3 DEF Real
<1>5. Compared(j) = NextPrior(k)
  BY DEF Compared
<1> HIDE DEF again
<1>6. k \in Job
  BY <1>2 DEF Job
<1>7. /\ k.disagree = j.disagree \cup again
      /\ \A f \in {"opt", "sample", "prior", "rows", "asked", "miss", "paid"} : k[f] = j[f]
  BY DEF Job
<1> HIDE DEF k
<1>8. Gathered(w, k)
  BY <1>4, <1>7 DEF Gathered, JobInv
<1>9. ~k.miss
  BY <1>7 DEF JobInv, Progress, Calling
<1>10. Capped(k) => k.paid < k.opt.limit + 2
  BY <1>7 DEF JobInv, Spending, Capped
<1> QED
  BY <1>5, <1>6, <1>8, <1>9, <1>10, NextPriorInv
-----------------------------------------------------------------------------
(* The steps of the system.                                                *)

\* A step of one eval that leaves it right, and the rest alone.
LEMMA JobStep ==
  ASSUME GradingInv, NEW e \in Eval, NEW j \in Job, JobInv(world, j), Becomes(e, j),
         world' = world, now' = now, version' = version, CacheInv',
         \A r \in history' : r \in Row /\ Trusted(world, r)
  PROVE  GradingInv'
<1>1. job' = [job EXCEPT ![e] = j] /\ job \in [Eval -> Job]
  BY DEF Becomes, GradingInv, GradingTypeOK
<1>2. job' \in [Eval -> Job]
  BY <1>1
<1>3. \A f \in Eval : JobInv(world', job'[f])
  BY <1>1 DEF GradingInv
<1> QED
  BY <1>2, <1>3 DEF GradingInv, GradingTypeOK

\* A call that is not paid for, as the cache has its reply, is affordable.
LEMMA CallAffordable ==
  ASSUME NEW w, NEW j \in Job, JobInv(w, j), Calling(j)
  PROVE  j.tokens <= Calls(j.at) /\ Affords(j, IF j.at = "answer" THEN 0 ELSE 1)
<1>1. j.at \in Stage /\ j.tokens \in Nat /\ j.usd \in Nat /\ j.paid \in Nat
  BY DEF Calling, Stage, Job
<1>2. j.tokens <= Calls(j.at)
  BY <1>1 DEF JobInv, Spending
<1>3. Capped(j) => IF ~Drifting(j)
                   THEN j.usd < j.opt.limit /\ j.paid <= j.usd + Usd(j.opt.mode, j.tokens)
                   ELSE j.paid < j.opt.limit + 2
  BY <1>1 DEF JobInv, Spending
<1>4. /\ Usd(j.opt.mode, j.tokens) \in Nat
      /\ Usd(j.opt.mode, j.tokens) <= Usd(j.opt.mode, j.tokens + 1)
      /\ Usd(j.opt.mode, j.tokens + 1) \in Nat
  BY <1>1 DEF Usd
<1>5. Affords(j, 0) /\ Affords(j, 1)
  BY <1>1, <1>3, <1>4 DEF Affords
<1> QED
  BY <1>2, <1>5

\* The orders of the cases are sequences of them.
LEMMA SelectedTypes ==
  ASSUME NEW n \in Nat, n # 0, NEW todo \in Selected(n)
  PROVE  todo \in Seq(Case) /\ todo # <<>>
<1>1. PICK s \in Orders(Case) : todo = SubSeq(s, 1, IF n < Len(s) THEN n ELSE Len(s))
  BY DEF Selected
<1>2. Cardinality(Case) \in Nat /\ Cardinality(Case) # 0
  BY CaseExists, CasesAssumption, FS_CardinalityType, FS_EmptySet
<1>3. s \in [1..Cardinality(Case) -> Case]
  BY <1>1 DEF Orders
<1>4. s \in Seq(Case) /\ Len(s) = Cardinality(Case)
  BY <1>2, <1>3
<1> DEFINE m == IF n < Len(s) THEN n ELSE Len(s)
<1>5. m \in 1..Len(s)
  BY <1>2, <1>4
<1>6. todo = SubSeq(s, 1, m)
  BY <1>1
<1> HIDE DEF m
<1>7. SubSeq(s, 1, m) \in Seq(Case) /\ Len(SubSeq(s, 1, m)) = m
  BY <1>4, <1>5
<1> QED
  BY <1>2, <1>4, <1>5, <1>6, <1>7

LEMMA StartStep ==
  ASSUME GradingInv, NEW e \in Eval, Start(e)
  PROVE  GradingInv'
<1>1. PICK o \in Options : \E todo \in IF o.subset = 0 THEN {Order} ELSE Selected(o.subset) :
         Becomes(e, NextCase([Idle EXCEPT !.opt = o, !.todo = todo]))
  BY DEF Start
<1>2. PICK todo \in IF o.subset = 0 THEN {Order} ELSE Selected(o.subset) :
         Becomes(e, NextCase([Idle EXCEPT !.opt = o, !.todo = todo]))
  BY <1>1
<1>3. todo \in Seq(Case) /\ todo # <<>>
  BY CasesAssumption, OptionTypes, SelectedTypes
<1> DEFINE k == [Idle EXCEPT !.opt = o, !.todo = todo]
<1>4. k \in Job
  BY <1>3, IdleInv DEF Job
<1>5. /\ k.opt = o /\ k.todo = todo /\ k.miss = FALSE /\ k.sample = {} /\ k.prior = {}
      /\ k.rows = {} /\ k.disagree = {} /\ k.asked = {} /\ k.paid = 0 /\ k.usd = 0
  BY DEF Idle
<1> HIDE DEF k
<1>6. Gathered(world, k) /\ ~k.miss
  BY <1>5 DEF Gathered
<1>7. Capped(k) => k.usd < k.opt.limit /\ k.paid <= k.usd
  BY <1>5, OptionTypes DEF Capped
<1>8. version \in 0..MaxVersion
  BY DEF GradingInv, GradingTypeOK
<1>9. NextCase(k) \in Job /\ JobInv(world, NextCase(k))
  BY <1>3, <1>4, <1>5, <1>6, <1>7, <1>8, NextCaseInv
<1>10. Becomes(e, NextCase(k))
  BY <1>2 DEF k
<1>11. UNCHANGED <<world, now, version, cache, history>>
  BY DEF Start
<1> QED
  BY <1>9, <1>10, <1>11, JobStep DEF GradingInv, GradingTypeOK, CacheInv

LEMMA CacheHitStep ==
  ASSUME GradingInv, NEW e \in Eval, CacheHit(e)
  PROVE  GradingInv'
<1> DEFINE j == job[e]
           key == HashKey(ModelOf(j), PromptOf(j))
<1>1. /\ j \in Job /\ JobInv(world, j) /\ Calling(j)
      /\ world \in World /\ now \in Times /\ version \in 0..MaxVersion
  BY DEF GradingInv, GradingTypeOK, CacheHit
<1>2. PICK entry \in Entry(key, j.opt.ttl) : Becomes(e, Hears(j, entry.reply))
  BY DEF CacheHit
<1>3. key \in DOMAIN cache /\ now - cache[key].at <= j.opt.ttl /\ entry = cache[key]
  BY <1>2 DEF Entry
<1>4. /\ cache[key].at \in Times /\ cache[key].at <= now
      /\ Says(world, cache[key].at, key) = entry.reply
  BY <1>3 DEF GradingInv, CacheInv
<1>5. cache[key].at \in Nat /\ now \in Nat /\ j.opt.ttl \in Nat
  BY <1>1, <1>4, TimesAssumption, OptionTypes DEF Job
<1>6. UNCHANGED <<world, now, version, cache, history>>
  BY DEF CacheHit
<1> HIDE DEF j
<1>7. \E t \in Times : /\ now - j.opt.ttl <= t /\ t <= now
                       /\ Says(world, t, HashKey(ModelOf(j), PromptOf(j))) = entry.reply
  BY <1>3, <1>4, <1>5
<1>8. j.tokens <= Calls(j.at) /\ Affords(j, IF j.at = "answer" THEN 0 ELSE 1)
  BY <1>1, CallAffordable
<1>9. Hears(j, entry.reply) \in Job /\ JobInv(world, Hears(j, entry.reply))
  BY <1>1, <1>7, <1>8, HearsInv DEF JobInv
<1> QED
  BY <1>2, <1>6, <1>9, JobStep DEF GradingInv, GradingTypeOK, CacheInv
LEMMA CacheMissStep ==
  ASSUME GradingInv, NEW e \in Eval, CacheMiss(e)
  PROVE  GradingInv'
<1> DEFINE j == job[e]
           k == [j EXCEPT !.miss = TRUE]
<1>1. j \in Job /\ JobInv(world, j) /\ Calling(j)
  BY DEF GradingInv, GradingTypeOK, CacheMiss
<1>2. Becomes(e, k) /\ UNCHANGED <<world, now, version, cache, history>>
  BY DEF CacheMiss
<1> HIDE DEF j
<1>3. k \in Job
  BY <1>1 DEF Job
<1>4. \A f \in {"opt", "sample", "prior", "rows", "disagree", "asked", "usd", "paid", "case",
                "view", "text", "correctness", "faithfulness", "tokens", "at"} : k[f] = j[f]
  BY <1>1 DEF Job
<1> HIDE DEF k
<1>5. Gathered(world, k)
  BY <1>1, <1>4 DEF JobInv, Gathered
<1>6. Progress(world, k)
  BY <1>1, <1>4 DEF JobInv, Progress, Calling, JudgeMode, Drifting
<1>7. Spending(k)
  BY <1>1, <1>4 DEF JobInv, Spending, Capped, Drifting
<1> QED
  BY <1>2, <1>3, <1>5, <1>6, <1>7, JobStep DEF JobInv, GradingInv, GradingTypeOK, CacheInv

\* A call is charged as the verdict will charge its tokens.
LEMMA CallReplyInv ==
  ASSUME NEW w \in World, NEW j \in Job, version \in 0..MaxVersion, now \in Times,
         JobInv(w, j), j.miss,
         NEW charge, charge = IF j.at = "answer" \/ Drifting(j) THEN 0 ELSE Usd(ModelOf(j), 1),
         NEW reply, reply = Says(w, now, HashKey(ModelOf(j), PromptOf(j)))
  PROVE  /\ Hears([j EXCEPT !.paid = @ + charge], reply) \in Job
         /\ JobInv(w, Hears([j EXCEPT !.paid = @ + charge], reply))
<1> DEFINE k == [j EXCEPT !.paid = @ + charge]
<1>1. Calling(j) /\ Gathered(w, j) /\ Progress(w, j) /\ Spending(j) /\ j.at \in Stage
  BY DEF JobInv, Progress, Calling, Stage
<1>2. /\ j.paid \in Nat /\ j.tokens \in Nat /\ j.usd \in Nat /\ j.opt \in Options
      /\ now \in Nat /\ j.opt.ttl \in Nat
  BY TimesAssumption, OptionTypes DEF Job
<1>3. charge \in Nat
  BY DEF Usd
<1>4. k \in Job
  <2>1. j.paid + charge \in Nat
    BY <1>2, <1>3
  <2> QED
    BY <2>1 DEF Job
<1>5. k.paid = j.paid + charge
      /\ \A f \in {"opt", "sample", "prior", "rows", "disagree", "asked", "usd", "miss", "case",
                   "view", "text", "correctness", "faithfulness", "tokens", "at"} : k[f] = j[f]
  BY DEF Job
<1> HIDE DEF k
<1>6. JudgeMode(k) = JudgeMode(j) /\ (Drifting(k) <=> Drifting(j)) /\ (Capped(k) <=> Capped(j))
  BY <1>5 DEF JudgeMode, Drifting, Capped
<1>7. /\ ModelOf(k) = ModelOf(j) /\ PromptOf(k) = PromptOf(j)
      /\ Calling(k) /\ Gathered(w, k) /\ Progress(w, k) /\ k.tokens <= Calls(k.at)
  <2>1. ModelOf(k) = ModelOf(j)
    BY <1>5, <1>6 DEF ModelOf
  <2>2. PromptOf(k) = PromptOf(j)
    BY <1>5 DEF PromptOf
  <2>3. Calling(k) /\ Gathered(w, k)
    BY <1>1, <1>5 DEF Calling, Gathered
  <2>4. Progress(w, k)
    BY <1>1, <1>5, <1>6, <2>3 DEF Progress
  <2>5. k.tokens <= Calls(k.at)
    BY <1>1, <1>5 DEF Spending
  <2> QED
    BY <2>1, <2>2, <2>3, <2>4, <2>5
<1>8. Affords(k, IF k.at = "answer" THEN 0 ELSE 1)
  <2>1. Capped(j) => IF ~Drifting(j)
                     THEN j.usd < j.opt.limit /\ j.paid <= j.usd + Usd(j.opt.mode, j.tokens)
                     ELSE j.paid < j.opt.limit + 2
    BY <1>1 DEF Spending
  <2>2. CASE Drifting(j)
    BY <1>2, <1>5, <1>6, <2>1, <2>2 DEF Affords
  <2>3. CASE ~Drifting(j) /\ j.at = "answer"
    BY <1>2, <1>5, <1>6, <2>1, <2>3 DEF Affords
  <2>4. CASE ~Drifting(j) /\ j.at # "answer"
    <3>1. charge = Usd(j.opt.mode, 1)
      BY <2>4 DEF ModelOf, JudgeMode
    <3>2. /\ Usd(j.opt.mode, j.tokens) \in Nat
          /\ Usd(j.opt.mode, j.tokens) + charge = Usd(j.opt.mode, j.tokens + 1)
      BY <1>2, <3>1 DEF Usd
    <3>3. Capped(j) => j.usd < j.opt.limit
                       /\ k.paid <= j.usd + Usd(j.opt.mode, j.tokens + 1)
      BY <1>2, <1>3, <1>5, <2>1, <2>4, <3>2
    <3> QED
      BY <1>5, <1>6, <2>4, <3>3 DEF Affords
  <2> QED
    BY <2>2, <2>3, <2>4
<1>9. \E t \in Times : /\ now - k.opt.ttl <= t /\ t <= now
                       /\ Says(w, t, HashKey(ModelOf(k), PromptOf(k))) = reply
  BY <1>2, <1>5, <1>7
<1>10. Hears(k, reply) \in Job /\ JobInv(w, Hears(k, reply))
  BY <1>4, <1>7, <1>8, <1>9, HearsInv
<1> QED
  BY <1>10 DEF k

LEMMA CallRepliesStep ==
  ASSUME GradingInv, NEW e \in Eval, CallReplies(e)
  PROVE  GradingInv'
<1> DEFINE j == job[e]
           key == HashKey(ModelOf(j), PromptOf(j))
           reply == Says(world, now, [model |-> ModelOf(j), prompt |-> PromptOf(j)])
           charge == IF j.at = "answer" \/ Drifting(j) THEN 0 ELSE Usd(ModelOf(j), 1)
           k == Hears([j EXCEPT !.paid = @ + charge], reply)
<1>1. /\ j \in Job /\ JobInv(world, j) /\ j.miss
      /\ world \in World /\ now \in Times /\ version \in 0..MaxVersion
  BY DEF GradingInv, GradingTypeOK, CallReplies
<1>2. Becomes(e, k) /\ UNCHANGED <<world, now, version, history>>
  BY DEF CallReplies
<1>3. \/ cache' = cache
      \/ cache' = [l \in DOMAIN cache \cup {key} |->
                     IF l = key THEN [reply |-> reply, at |-> now] ELSE cache[l]]
  BY DEF CallReplies
<1>4. reply = Says(world, now, key)
  BY DEF HashKey
<1>5. now \in Nat
  BY <1>1, TimesAssumption
<1> HIDE DEF key, reply
<1>6. CacheInv'
  BY <1>1, <1>2, <1>3, <1>4, <1>5 DEF GradingInv, CacheInv
<1>7. k \in Job /\ JobInv(world, k)
  BY <1>1, <1>4, CallReplyInv DEF key
<1> QED
  BY <1>2, <1>6, <1>7, JobStep DEF GradingInv, GradingTypeOK

LEMMA CallFailsStep ==
  ASSUME GradingInv, NEW e \in Eval, CallFails(e)
  PROVE  GradingInv'
<1> DEFINE j == job[e]
           k == [j EXCEPT !.miss = FALSE]
           m == IF j.at = "answer" THEN Raises(k) ELSE Graded(k, Garbage, 0)
<1>1. j \in Job /\ JobInv(world, j) /\ j.miss /\ version \in 0..MaxVersion
  BY DEF GradingInv, GradingTypeOK, CallFails
<1>2. Becomes(e, m) /\ UNCHANGED <<world, now, version, cache, history>>
  BY DEF CallFails
<1> HIDE DEF j
<1>3. k \in Job
  BY <1>1 DEF Job
<1>4. k.miss = FALSE
      /\ \A f \in {"opt", "sample", "prior", "rows", "disagree", "asked", "usd", "paid", "case",
                   "view", "text", "correctness", "faithfulness", "tokens", "at"} : k[f] = j[f]
  BY <1>1 DEF Job
<1> HIDE DEF k
<1>5. Calling(k) /\ k.at \in Stage
  BY <1>1, <1>4 DEF JobInv, Progress, Calling, Stage
<1>6. Gathered(world, k)
  BY <1>1, <1>4 DEF JobInv, Gathered
<1>7. Progress(world, k)
  BY <1>1, <1>4 DEF JobInv, Progress, Calling, JudgeMode, Drifting
<1>8. Spending(k)
  BY <1>1, <1>4 DEF JobInv, Spending, Capped, Drifting
<1>9. CASE j.at = "answer"
  <2>1. Drifting(k) /\ Capped(k) => k.paid < k.opt.limit + 2
    BY <1>5, <1>8 DEF Spending
  <2>2. Raises(k) \in Job /\ JobInv(world, Raises(k))
    BY <1>1, <1>3, <1>4, <1>6, <2>1, RaisesInv
  <2> QED
    BY <1>2, <1>9, <2>2, JobStep DEF GradingInv, GradingTypeOK, CacheInv
<1>10. CASE j.at # "answer"
  <2>1. k.at \in {"correctness", "faithfulness"}
    BY <1>4, <1>5, <1>10 DEF Calling
  <2>2. k.tokens \in Nat
    BY <1>3 DEF Job
  <2>3. k.tokens <= Calls(k.at) /\ Affords(k, 0)
    BY <1>5, <1>8, <2>2 DEF Spending, Affords
  <2>4. Parsed(Garbage) = NoScore
    BY ParsedType
  <2>5. Graded(k, Garbage, 0) \in Job /\ JobInv(world, Graded(k, Garbage, 0))
    BY <1>1, <1>3, <1>4, <1>6, <1>7, <2>1, <2>3, <2>4, GradedInv
  <2> QED
    BY <1>2, <1>10, <2>5, JobStep DEF GradingInv, GradingTypeOK, CacheInv
<1> QED
  BY <1>9, <1>10

LEMMA VerdictStep ==
  ASSUME GradingInv, NEW e \in Eval, Verdict(e)
  PROVE  GradingInv'
<1> DEFINE j == job[e]
           m == IF Drifting(j) THEN Compared(j) ELSE Counted(j)
<1>1. j \in Job /\ JobInv(world, j) /\ j.at = "verdict" /\ version \in 0..MaxVersion
  BY DEF GradingInv, GradingTypeOK, Verdict
<1>2. Becomes(e, m) /\ UNCHANGED <<world, now, version, cache, history>>
  BY DEF Verdict
<1> HIDE DEF j
<1>3. m \in Job /\ JobInv(world, m)
  BY <1>1, CountedInv, ComparedInv
<1> QED
  BY <1>2, <1>3, JobStep DEF GradingInv, GradingTypeOK, CacheInv

LEMMA SampleStep ==
  ASSUME GradingInv, NEW e \in Eval, Sample(e)
  PROVE  GradingInv'
<1> DEFINE j == job[e]
<1>1. PICK sample \in SUBSET {r \in history : r.mode = "oracle"} :
        Becomes(e, NextPrior([j EXCEPT !.sample = {r \in sample : r.case \in Seeds}]))
  BY DEF Sample
<1> DEFINE some == {r \in sample : r.case \in Seeds}
           k == [j EXCEPT !.sample = some]
<1>2. /\ j \in Job /\ JobInv(world, j) /\ j.at = "drift" /\ version \in 0..MaxVersion
      /\ history \in SUBSET Row
  BY DEF GradingInv, GradingTypeOK, Sample
<1>3. UNCHANGED <<world, now, version, cache, history>>
  BY DEF Sample
<1>4. some \in SUBSET Row /\ \A r \in some : Trusted(world, r) /\ r.mode = "oracle"
  BY <1>2 DEF GradingInv
<1>5. Becomes(e, NextPrior(k))
  BY <1>1
<1> HIDE DEF j, some
<1>6. k \in Job
  BY <1>2, <1>4 DEF Job
<1>7. k.sample = some
      /\ \A f \in {"opt", "prior", "rows", "disagree", "asked", "miss", "paid"} : k[f] = j[f]
  BY <1>2 DEF Job
<1> HIDE DEF k
<1>8. Gathered(world, k)
  BY <1>2, <1>4, <1>7 DEF JobInv, Gathered
<1>9. ~k.miss
  BY <1>2, <1>7 DEF JobInv, Progress, Calling
<1>10. Capped(k) => k.paid < k.opt.limit + 2
  BY <1>2, <1>7 DEF JobInv, Spending, Capped, Stage
<1>11. NextPrior(k) \in Job /\ JobInv(world, NextPrior(k))
  BY <1>2, <1>6, <1>8, <1>9, <1>10, NextPriorInv
<1> QED
  BY <1>3, <1>5, <1>11, JobStep DEF GradingInv, GradingTypeOK, CacheInv

LEMMA ReportStep ==
  ASSUME GradingInv, NEW e \in Eval, Report(e)
  PROVE  GradingInv'
<1> DEFINE j == job[e]
           k == [j EXCEPT !.at = "idle"]
<1>1. j \in Job /\ JobInv(world, j) /\ j.at = "report" /\ history \in SUBSET Row
  BY DEF GradingInv, GradingTypeOK, Report
<1>2. /\ Becomes(e, k) /\ history' = history \cup j.rows
      /\ UNCHANGED <<world, now, version, cache>>
  BY DEF Report
<1> HIDE DEF j
<1>3. \A r \in history' : r \in Row /\ Trusted(world, r)
  BY <1>1, <1>2 DEF GradingInv, JobInv, Gathered, Job
<1>4. k \in Job
  BY <1>1 DEF Job
<1>5. k.at = "idle"
      /\ \A f \in {"opt", "sample", "prior", "rows", "disagree", "asked", "miss", "paid", "case"} :
           k[f] = j[f]
  BY <1>1 DEF Job
<1> HIDE DEF k
<1>6. Gathered(world, k)
  BY <1>1, <1>5 DEF JobInv, Gathered
<1>7. Progress(world, k)
  BY <1>1, <1>5 DEF JobInv, Progress, Calling, Stage
<1>8. Spending(k)
  BY <1>1, <1>5 DEF JobInv, Spending, Capped, Stage
<1> QED
  BY <1>2, <1>3, <1>4, <1>6, <1>7, <1>8, JobStep DEF JobInv, GradingInv, CacheInv

\* What the cache has and what the evals know of the world stays true when
\* time passes or the pipeline changes.
LEMMA GradingInductive == GradingSpec => []GradingInv
<1>1. GradingInit => GradingInv
  <2> SUFFICES ASSUME GradingInit PROVE GradingInv
    OBVIOUS
  <2>1. world \in World /\ now \in Times /\ version \in 0..MaxVersion /\ history = {}
    BY TimesAssumption, VersionsAssumption DEF GradingInit
  <2>2. \A e \in Eval : job[e] \in Job /\ JobInv(world, job[e])
    BY IdleInv DEF GradingInit
  <2>3. job \in [Eval -> Job]
    BY IdleInv DEF GradingInit
  <2>4. CacheInv
    BY DEF GradingInit, CacheInv
  <2> QED
    BY <2>1, <2>2, <2>3, <2>4 DEF GradingInv, GradingTypeOK
<1>2. GradingInv /\ [GradingNext]_gradingVars => GradingInv'
  <2> SUFFICES ASSUME GradingInv, [GradingNext]_gradingVars PROVE GradingInv'
    OBVIOUS
  <2>1. CASE Tick
    <3>1. now \in Nat /\ now' \in Times /\ now' \in Nat /\ now' > now
      BY <2>1, TimesAssumption DEF Tick, GradingInv, GradingTypeOK
    <3>2. \A k \in DOMAIN cache : cache[k].at \in Nat
      BY TimesAssumption DEF GradingInv, CacheInv
    <3> QED
      BY <2>1, <3>1, <3>2 DEF Tick, GradingInv, GradingTypeOK, CacheInv
  <2>2. CASE Change
    <3>1. version' \in 0..MaxVersion
      BY <2>2, VersionsAssumption DEF Change, GradingInv, GradingTypeOK
    <3> QED
      BY <2>2, <3>1 DEF Change, GradingInv, GradingTypeOK, CacheInv
  <2>3. CASE UNCHANGED gradingVars
    BY <2>3 DEF gradingVars, GradingInv, GradingTypeOK, CacheInv
  <2> QED
    BY <2>1, <2>2, <2>3, StartStep, CacheHitStep, CacheMissStep, CallRepliesStep, CallFailsStep,
       VerdictStep, SampleStep, ReportStep DEF GradingNext
<1> QED
  BY <1>1, <1>2, PTL DEF GradingSpec

\* No eval hears of an entry of the cache that another model, another prompt
\* or a time before its TTL has left there.
THEOREM VerdictsAreGenuine == GradingSpec => []VerdictsGenuine
<1>1. GradingInv => VerdictsGenuine
  BY DEF GradingInv, JobInv, Gathered, Honest, VerdictsGenuine
<1> QED
  BY <1>1, GradingInductive, PTL

\* An eval pays for its verdicts less than its budget and two calls more.
THEOREM BudgetIsHeld == GradingSpec => []BudgetHolds
<1>1. GradingInv => BudgetHolds
  <2> SUFFICES ASSUME GradingInv, NEW e \in Eval, Capped(job[e])
               PROVE  job[e].paid < job[e].opt.limit + 2
    BY DEF BudgetHolds, Capped
  <2> DEFINE j == job[e]
  <2>1. j \in Job /\ Spending(j)
    BY DEF GradingInv, GradingTypeOK, JobInv
  <2>2. /\ j.paid \in Nat /\ j.usd \in Nat /\ j.tokens \in Nat
        /\ j.opt.limit \in Nat
    BY <2>1, OptionTypes DEF Job, Capped
  <2> HIDE DEF j
  <2>3. CASE j.at \in Stage /\ ~Drifting(j)
    <3>1. j.tokens <= 2 /\ Usd(j.opt.mode, j.tokens) \in Nat /\ Usd(j.opt.mode, j.tokens) <= 2
      BY <2>1, <2>2, <2>3 DEF Spending, Stage, Calls, Usd
    <3> QED
      BY <2>1, <2>2, <2>3, <3>1 DEF Spending, j
  <2>4. CASE ~(j.at \in Stage /\ ~Drifting(j))
    BY <2>1, <2>4 DEF Spending, j
  <2> QED
    BY <2>3, <2>4
<1> QED
  BY <1>1, GradingInductive, PTL

\* drift_check (judge.py:190-216) counts no disagreement that a missing score,
\* other passages (of another pipeline or another --k) or a change of what the
\* models say does not explain.
THEOREM DriftIsGenuine == GradingSpec => []DriftGenuine
<1>1. GradingInv => DriftGenuine
  BY DEF GradingInv, JobInv, Gathered, Real, Shifts, DriftGenuine
<1> QED
  BY <1>1, GradingInductive, PTL
=============================================================================
