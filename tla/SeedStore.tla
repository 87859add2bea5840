----------------------------- MODULE SeedStore -----------------------------
(***************************************************************************)
(* ui/backend/seed_store.py: the cases that a human writes.  A finished    *)
(* case is a line at the end of test_cases/seed.jsonl, written in place    *)
(* under _WRITE_LOCK; an unfinished one is a draft, a file of its own that *)
(* the page saves every 2 s, and that the save of its case deletes.        *)
(* A write may fail after part of a line (a full disk, a killed process),  *)
(* and the next line then continues that one.  A write that stops inside a *)
(* character is worse: the file is not UTF-8 any more, read_text raises,   *)
(* and no case of it can be read, nor any other saved.                     *)
(***************************************************************************)
EXTENDS Naturals, FiniteSets, Sequences

CONSTANTS
  Question,    \* questions, up to the case and the spaces that _normalize drops
  Splitting,   \* those of them whose line splitlines() cuts in two: U+2028 and
               \* the like are written as they are
  Wide,        \* those whose line has a character of more than one byte
  Draft,       \* draft ids
  NoDraft,     \* a save that names no draft
  Client,      \* threads that serve POST /api/seed/save
  Nobody,
  Junk,        \* a line that json.loads or SeedCase does not accept
  MaxRows,     \* bound: the lines of the file
  MaxTears,    \* bound: how many writes stop half way
  MaxReloads   \* bound: how often the backend is replaced

ASSUME NullsAssumption ==
  Junk \notin Question /\ NoDraft \notin Draft /\ Nobody \notin Client
ASSUME BoundsAssumption ==
  /\ Splitting \subseteq Wide /\ Wide \subseteq Question
  /\ {MaxRows, MaxTears, MaxReloads} \subseteq Nat

VARIABLES
  rows,        \* the lines of seed.jsonl, each the question of its case
  open,        \* the last line has no newline
  garbled,     \* the file has half a character in it
  drafts,      \* the drafts on disk
  holder,      \* who holds _WRITE_LOCK
  pc, req,     \* where each save is, and its request
  acked,       \* history: the questions whose save was answered ok
  typed,       \* history: the drafts that were ever saved
  discarded,   \* history: those of them that the user has deleted since
  saved,       \* history: the drafts whose case was appended
  tears, reloads

file  == <<rows, open, garbled>>
calls == <<holder, pc, req>>
past  == <<acked, typed, discarded, saved>>
vars  == <<file, drafts, calls, past, tears, reloads>>

Request == [question : Question, draft : Draft \cup {NoDraft}]

\* The questions of the lines: one that does not parse is skipped, and one of
\* an older shape is accepted.
CaseLines == {rows[i] : i \in DOMAIN rows} \ {Junk}

\* What _read_all_cases has of them: nothing, once the file does not decode.
Decodes == ~garbled

ReadAllCases == IF Decodes THEN CaseLines ELSE {}

\* What the line of a case reads as.
LineOf(q) == IF q \in Splitting THEN Junk ELSE q

\* The file opened with "a": a line goes to the end, or into a line that was
\* left open there.
Added(line) == IF open THEN [rows EXCEPT ![Len(rows)] = Junk] ELSE Append(rows, line)

TypeOK ==
  /\ rows \in Seq(Question \cup {Junk})
  /\ open \in BOOLEAN
  /\ open => rows # <<>>
  /\ garbled \in BOOLEAN
  /\ drafts \in SUBSET Draft
  /\ holder \in Client \cup {Nobody}
  /\ pc \in [Client -> {"idle", "append", "unlink"}]
  /\ req \in [Client -> Request]
  /\ acked \in SUBSET Question
  /\ {typed, discarded, saved} \subseteq SUBSET Draft
  /\ tears \in Nat /\ reloads \in Nat

Init ==
  /\ rows = <<>>
  /\ open = FALSE
  /\ garbled = FALSE
  /\ drafts = {}
  /\ holder = Nobody
  /\ pc = [c \in Client |-> "idle"]
  /\ req \in [Client -> [question : Question, draft : {NoDraft}]]
  /\ acked = {}
  /\ typed = {}
  /\ discarded = {}
  /\ saved = {}
  /\ tears = 0
  /\ reloads = 0
-----------------------------------------------------------------------------
Goto(c, where) == pc' = [pc EXCEPT ![c] = where]

Asks(c) == \E r \in Request : /\ r.draft \in typed \cup {NoDraft}
                              /\ req' = [req EXCEPT ![c] = r]

\* A question that the file does not have goes on to be appended.
Admit(c) ==
  /\ pc[c] = "idle"
  /\ Len(rows) < MaxRows
  /\ Asks(c)
  /\ Decodes
  /\ req'[c].question \notin ReadAllCases
  /\ holder' = c
  /\ Goto(c, "append")
  /\ UNCHANGED <<file, past, tears, reloads>>

\* Mutation: save does not take the lock.
CheckUnlocked(c) == Admit(c) /\ UNCHANGED drafts

\* Mutation: the draft goes first.
CheckUnlinks(c) ==
  holder = Nobody /\ Admit(c) /\ drafts' = drafts \ {req'[c].draft}

\* save takes the lock and reads the file.  If that raises UnicodeDecodeError,
\* or there is a case of that question, which is a DuplicateQuestionError,
\* nothing has changed.
Check(c) == holder = Nobody /\ Admit(c) /\ UNCHANGED drafts

\* _append_case
AppendCase(c) ==
  /\ pc[c] = "append"
  /\ rows' = Added(LineOf(req[c].question))
  /\ open' = FALSE
  /\ saved' = saved \cup ({req[c].draft} \ {NoDraft})
  /\ Goto(c, "unlink")
  /\ UNCHANGED <<garbled, drafts, holder, req, acked, typed, discarded, tears,
                 reloads>>

\* Mutation: the exception is logged, as that of the draft's deletion is.
AppendSwallows(c) ==
  /\ pc[c] = "append"
  /\ Goto(c, "unlink")
  /\ UNCHANGED <<file, drafts, holder, req, past, tears, reloads>>

\* It raises and has written nothing ...
AppendFails(c) ==
  /\ pc[c] = "append"
  /\ holder' = Nobody
  /\ Goto(c, "idle")
  /\ UNCHANGED <<file, drafts, req, past, tears, reloads>>

\* ... or part of the line, perhaps to the middle of a character, or all but its
\* newline.
AppendTears(c) ==
  /\ pc[c] = "append"
  /\ tears < MaxTears
  /\ tears' = tears + 1
  /\ \/ rows' = Added(Junk) /\ garbled' \in {garbled, garbled \/ req[c].question \in Wide}
     \/ rows' = Added(LineOf(req[c].question)) /\ UNCHANGED garbled
  /\ open' = TRUE
  /\ holder' = Nobody
  /\ Goto(c, "idle")
  /\ UNCHANGED <<drafts, req, past, reloads>>

\* _delete_draft_file, whose failure is only logged; then save has succeeded.
Unlink(c) ==
  /\ pc[c] = "unlink"
  /\ drafts' \in {drafts, drafts \ {req[c].draft}}
  /\ holder' = Nobody
  /\ Goto(c, "idle")
  /\ acked' = acked \cup {req[c].question}
  /\ UNCHANGED <<file, req, typed, discarded, saved, tears, reloads>>

\* save_draft: os.replace of a file that is complete, under no lock.
PutDraft(d) ==
  /\ drafts' = drafts \cup {d}
  /\ typed' = typed \cup {d}
  /\ discarded' = discarded \ {d}
  /\ UNCHANGED <<file, calls, acked, saved, tears, reloads>>

DeleteDraft(d) ==
  /\ d \in drafts
  /\ drafts' = drafts \ {d}
  /\ discarded' = discarded \cup {d}
  /\ UNCHANGED <<file, calls, acked, typed, saved, tears, reloads>>

\* The backend is replaced, and every call in it ends where it is.
BackendReload ==
  /\ reloads < MaxReloads
  /\ reloads' = reloads + 1
  /\ holder' = Nobody
  /\ pc' = [c \in Client |-> "idle"]
  /\ UNCHANGED <<file, drafts, req, past, tears>>

Next ==
  \/ \E c \in Client : \/ Check(c) \/ AppendCase(c) \/ AppendFails(c)
                       \/ AppendTears(c) \/ Unlink(c)
  \/ \E d \in Draft : PutDraft(d) \/ DeleteDraft(d)
  \/ BackendReload

Spec == Init /\ [][Next]_vars
-----------------------------------------------------------------------------
(* Properties.                                                             *)

\* However many saves run, and whatever became of earlier ones, no two lines
\* of the file are cases of one question: "Raised when a question already
\* exists in `seed.jsonl`" (seed_store.py:44).
OneRowPerQuestion ==
  \A i, j \in DOMAIN rows : rows[i] = rows[j] /\ rows[i] # Junk => i = j

\* A case whose save was answered ok can be read, but for one per write that
\* stopped half way, and for those whose line splitlines() cuts.  That is so
\* until a write stops inside a character: then none can.
LossPerTear ==
  LET lost == (acked \ Splitting) \ ReadAllCases
  IN  Decodes => Cardinality(lost) <= tears

\* What the author has typed is in its draft until the author deletes the
\* draft or its case is in the file, whichever writes fail on the way.
WorkKept == typed \subseteq drafts \cup discarded \cup saved
=============================================================================
