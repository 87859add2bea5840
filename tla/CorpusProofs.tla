---------------------------- MODULE CorpusProofs ----------------------------
(***************************************************************************)
(* Proofs about the corpus, as it is stored and as it is ingested.         *)
(*                                                                         *)
(* Of VectorStore: what an upsert has stored stays, and a read answers     *)
(* what was there during it, for any number of writers, readers, calls and *)
(* stores.  Of Ingest: one worker writes at a time, the status file only   *)
(* moves forward and ends with the run, and a success means that every     *)
(* file is in the store, for any number of clients, runs and files.        *)
(***************************************************************************)
EXTENDS VectorStore, Ingest, SequenceTheorems, TLAPS

(***************************************************************************)
(* VectorStore.                                                            *)
(***************************************************************************)
(* The invariant.                                                          *)

\* Of a reader: what it answers was in the store while it asked.  A client
\* of Chroma may be of a store that is gone, but which it saw; one of a
\* server may have seen no collection, and then there was none.
ReaderOk(r) ==
  /\ pc[r] = "idle" => client[r] = 0
  /\ pc[r] # "idle" => Current \in seen[r] /\ answer[r] = None
  /\ adapter = "chroma" /\ pc[r] = "op" =>
       client[r] \in 1..Store /\ data[client[r]] \in seen[r]
  /\ adapter \notin {"chroma", "pinecone"} /\ pc[r] = "op" /\ r \notin misled =>
       client[r] = Store \/ {} \in seen[r]
  /\ r \notin misled /\ answer[r] # None => answer[r] \in seen[r]

ReaderInv == \A r \in Reader : ReaderOk(r)

\* Of Chroma, while nobody has reset, damaged or met it unfinished: whoever
\* has a client has it of the store that is there, and one process makes it.
ClientOk(p) ==
  /\ client[p] # 0 => /\ client[p] = Store
                      /\ tables = "ready" \/ pc[p] = "create"
  /\ pc[p] = "op" => client[p] # 0
  /\ pc[p] = "create" => /\ tables = "making" /\ client[p] = Store
                         /\ \A q \in Proc : pc[q] = "create" => q = p

CalmInv ==
  calm => /\ tables # "torn"
          /\ \A p \in Proc : pc[p] # "wipe"
          /\ adapter = "chroma" => \A p \in Proc : ClientOk(p)
          /\ \A w \in Writer : items[w] \ todo[w] \subseteq Current
          /\ acked \subseteq Current
-----------------------------------------------------------------------------
(* Types.                                                                  *)

LEMMA InitType == Init => TypeOK
<1> SUFFICES ASSUME Init PROVE TypeOK
  OBVIOUS
<1>1. StoreType
  BY DEF Init, StoreType
<1>2. ProcType
  <2>1. Store = 0
    BY DEF Init, Store
  <2>2. QED
    BY <2>1 DEF Init, ProcType
<1>3. HistoryType
  BY DEF Init, HistoryType
<1>4. QED
  BY <1>1, <1>2, <1>3 DEF TypeOK, Init

LEMMA StoreNat == StoreType => Store \in Nat
  BY DEF StoreType, Store

\* A call that ends.
LEMMA ReturnType ==
  ASSUME StoreType, ProcType, NEW p \in Proc, Return(p)
  PROVE  /\ pc' \in [Proc -> {"idle", "open", "create", "op", "wipe"}]
         /\ client' \in [Proc -> Nat]
         /\ \A q \in Proc : client'[q] <= Store
<1>1. pc' \in [Proc -> {"idle", "open", "create", "op", "wipe"}]
  BY DEF ProcType, Return, Goto
<1>2. client' \in [Proc -> Nat]
  BY DEF ProcType, Return
<1>3. ASSUME NEW q \in Proc PROVE client'[q] <= Store
  BY StoreNat DEF ProcType, Return
<1>4. QED
  BY <1>1, <1>2, <1>3

LEMMA FailsType ==
  ASSUME ProcType, HistoryType, NEW p \in Proc, Fails(p)
  PROVE  /\ answer' \in [Reader -> (SUBSET Chunk) \cup {None}]
         /\ misled' \in SUBSET Reader
  BY DEF ProcType, HistoryType, Fails, Answer

LEMMA MarkedType ==
  ASSUME StoreType, ProcType, HistoryType, NEW p \in Proc, Marked(p)
  PROVE  /\ pc' \in [Proc -> {"idle", "open", "create", "op", "wipe"}]
         /\ client' \in [Proc -> Nat]
         /\ \A q \in Proc : client'[q] <= Store
         /\ tried' \in [Proc -> {"no", "open", "op", "count"}]
         /\ answer' \in [Reader -> (SUBSET Chunk) \cup {None}]
         /\ misled' \in SUBSET Reader
<1>1. CASE Fails(p) /\ UNCHANGED tried
  BY <1>1, ReturnType, FailsType DEF ProcType, Fails
<1>2. CASE /\ tried' = [tried EXCEPT ![p] = IF pc[p] = "op" THEN "op" ELSE "open"]
           /\ Goto(p, "wipe")
           /\ UNCHANGED <<client, answer, misled>>
  BY <1>2 DEF ProcType, HistoryType, Goto
<1>3. CASE /\ tried' = [tried EXCEPT ![p] = "count"]
           /\ Goto(p, "wipe")
           /\ UNCHANGED <<client, answer, misled>>
  BY <1>3 DEF ProcType, HistoryType, Goto
<1>4. QED
  BY <1>1, <1>2, <1>3 DEF Marked

LEMMA StepStoreType == StoreType /\ ProcType /\ Step => StoreType'
<1> SUFFICES ASSUME StoreType, ProcType, Step PROVE StoreType'
  OBVIOUS
<1> USE DEF StoreType
<1>1. ASSUME NEW w \in Writer, Write(w) \/ WriteDrops(w) PROVE StoreType'
  <2>1. PICK s \in SUBSET todo[w] : data' = [data EXCEPT ![Store] = @ \cup s]
    BY <1>1 DEF Write, WriteDrops, Requests
  <2>2. Store \in 1..Len(data)
    BY <1>1, StoreNat DEF Write, WriteDrops, Healthy, Store
  <2>3. data[Store] \cup s \in SUBSET Chunk
    BY <2>1, <2>2 DEF ProcType
  <2>4. data' \in Seq(SUBSET Chunk) /\ Len(data') = Len(data)
    BY <2>1, <2>2, <2>3, ExceptSeq
  <2>5. data' # <<>>
    BY <2>2, <2>4
  <2>6. UNCHANGED <<adapter, tables>>
    BY <1>1 DEF Write, WriteDrops
  <2>7. QED
    BY <2>4, <2>5, <2>6
<1>2. ASSUME NEW w \in Writer, CallUpsert(w) \/ Ensure(w) \/ Acknowledge(w) PROVE StoreType'
  BY <1>2 DEF CallUpsert, Ensure, Acknowledge
<1>3. ASSUME NEW w \in Writer, CreateCollection(w) PROVE StoreType'
  <2>1. <<{}>> \in Seq(SUBSET Chunk) /\ <<{}>> # <<>>
    OBVIOUS
  <2>2. QED
    BY <1>3, <2>1 DEF CreateCollection
<1>4. ASSUME NEW r \in Reader, CallRead(r) \/ Read(r) PROVE StoreType'
  BY <1>4 DEF CallRead, Read
<1>5. ASSUME NEW p \in Proc, Open(p) PROVE StoreType'
  <2>1. Append(data, {}) \in Seq(SUBSET Chunk) /\ Append(data, {}) # <<>>
    BY AppendProperties
  <2>2. QED
    BY <1>5, <2>1 DEF Open, Marked
<1>6. ASSUME NEW p \in Proc, Create(p) PROVE StoreType'
  BY <1>6 DEF Create, Marked
<1>7. ASSUME NEW p \in Proc,
             \/ OpOnGone(p) \/ HealthyMarked(p) \/ Wipe(p)
             \/ Connect(p) \/ ProbeFails(p) \/ Raises(p)
      PROVE  StoreType'
  BY <1>7 DEF OpOnGone, HealthyMarked, Marked, Wipe, Connect, ProbeFails, Raises
<1>8. CASE ResetBegins \/ ResetEnds
  BY <1>8 DEF ResetBegins, ResetEnds
<1>9. QED
  BY <1>1, <1>2, <1>3, <1>4, <1>5, <1>6, <1>7, <1>8 DEF Step

LEMMA StepHistoryType == StoreType /\ ProcType /\ HistoryType /\ Step => HistoryType'
<1> SUFFICES ASSUME StoreType, ProcType, HistoryType, Step PROVE HistoryType'
  OBVIOUS
<1> USE DEF HistoryType
<1>1. ASSUME NEW w \in Writer, Acknowledge(w) PROVE HistoryType'
  BY <1>1 DEF Acknowledge, ProcType
<1>2. ASSUME NEW w \in Writer, CallUpsert(w) \/ Ensure(w) \/ CreateCollection(w) \/ Write(w) \/ WriteDrops(w)
      PROVE  HistoryType'
  BY <1>2 DEF CallUpsert, Ensure, CreateCollection, Write, WriteDrops
<1>3. ASSUME NEW r \in Reader, CallRead(r) \/ Read(r) PROVE HistoryType'
  BY <1>3 DEF CallRead, Read
<1>4. ASSUME NEW p \in Proc, Open(p) PROVE HistoryType'
  BY <1>4, MarkedType DEF Open
<1>5. ASSUME NEW p \in Proc, Create(p) PROVE HistoryType'
  BY <1>5, MarkedType DEF Create
<1>6. ASSUME NEW p \in Proc, OpOnGone(p) \/ HealthyMarked(p) PROVE HistoryType'
  BY <1>6, MarkedType DEF OpOnGone, HealthyMarked
<1>7. ASSUME NEW p \in Proc, Wipe(p) \/ Connect(p) \/ ProbeFails(p) PROVE HistoryType'
  BY <1>7 DEF Wipe, Connect, ProbeFails
<1>8. ASSUME NEW p \in Proc, Raises(p) PROVE HistoryType'
  BY <1>8, FailsType DEF Raises
<1>9. CASE ResetBegins \/ ResetEnds
  BY <1>9 DEF ResetBegins, ResetEnds
<1>10. QED
  BY <1>1, <1>2, <1>3, <1>4, <1>5, <1>6, <1>7, <1>8, <1>9 DEF Step

\* A new store has a new number, and no step takes one away.
LEMMA StoreGrows ==
  ASSUME StoreType, ProcType, Step
  PROVE  Store <= Store'
<1>1. Store \in Nat
  BY StoreNat
<1>2. ASSUME NEW w \in Writer, Write(w) \/ WriteDrops(w) PROVE Store' = Store
  <2>1. PICK s \in SUBSET todo[w] : data' = [data EXCEPT ![Store] = @ \cup s]
    BY <1>2 DEF Write, WriteDrops, Requests
  <2>2. Store \in 1..Len(data) /\ data[Store] \cup s \in SUBSET Chunk
    BY <1>2, <2>1, StoreNat DEF Write, WriteDrops, Healthy, Store, ProcType, StoreType
  <2>3. QED
    BY <2>1, <2>2, ExceptSeq DEF Store, StoreType
<1>3. ASSUME NEW w \in Writer, CreateCollection(w) PROVE Store <= Store'
  <2>1. data' = data \/ Store = 0
    BY <1>3 DEF CreateCollection
  <2>2. Store' \in Nat
    BY <1>3, StepStoreType DEF Step, Store, StoreType
  <2>3. QED
    BY <1>1, <2>1, <2>2 DEF Store
<1>4. ASSUME NEW p \in Proc, Open(p) PROVE Store <= Store'
  <2>1. data' = data \/ data' = Append(data, {})
    BY <1>4 DEF Open, Marked
  <2>2. QED
    BY <1>1, <2>1, AppendProperties DEF Store, StoreType
<1>5. ASSUME NEW p \in Proc,
             \/ Create(p) \/ OpOnGone(p) \/ HealthyMarked(p) \/ Wipe(p)
             \/ Connect(p) \/ ProbeFails(p) \/ Raises(p)
      PROVE  data' = data
  BY <1>5 DEF Create, Marked, OpOnGone, HealthyMarked, Wipe, Connect, ProbeFails, Raises
<1>6. ASSUME NEW w \in Writer, CallUpsert(w) \/ Ensure(w) \/ Acknowledge(w) PROVE data' = data
  BY <1>6 DEF CallUpsert, Ensure, Acknowledge
<1>7. ASSUME NEW r \in Reader, CallRead(r) \/ Read(r) PROVE data' = data
  BY <1>7 DEF CallRead, Read
<1>8. CASE ResetBegins \/ ResetEnds
  <2>1. data' = data
    BY <1>8 DEF ResetBegins, ResetEnds
  <2>2. QED
    BY <1>1, <2>1 DEF Store
<1>9. data' = data => Store <= Store'
  BY <1>1 DEF Store
<1>10. QED
  BY <1>1, <1>2, <1>3, <1>4, <1>5, <1>6, <1>7, <1>8, <1>9 DEF Step

LEMMA StepProcType == TypeOK /\ ReaderInv /\ Step => ProcType'
<1> SUFFICES ASSUME StoreType, ProcType, HistoryType, ReaderInv, Step PROVE ProcType'
  BY DEF TypeOK
<1>0. Store \in Nat /\ Store' \in Nat /\ Store <= Store'
  BY StoreNat, StoreGrows, StepStoreType DEF StoreType, Store
<1>1. ASSUME NEW w \in Writer, CallUpsert(w) PROVE ProcType'
  <2>1. PICK s \in SUBSET Chunk : items' = [items EXCEPT ![w] = s] /\ todo' = [items EXCEPT ![w] = s]
    BY <1>1 DEF CallUpsert
  <2>2. items' \in [Writer -> SUBSET Chunk] /\ todo' \in [Writer -> SUBSET Chunk]
    BY <2>1 DEF ProcType
  <2>3. tried' \in [Proc -> {"no", "open", "op", "count"}]
    BY <1>1 DEF CallUpsert, ProcType
  <2>4. pc' \in [Proc -> {"idle", "open", "create", "op", "wipe"}]
    BY <1>1 DEF CallUpsert, ProcType, Goto
  <2>5. UNCHANGED <<client, answer, data>>
    BY <1>1 DEF CallUpsert
  <2>6. QED
    BY <2>2, <2>3, <2>4, <2>5 DEF ProcType, Store
<1>2. ASSUME NEW w \in Writer, Ensure(w) PROVE ProcType'
  BY <1>0, <1>2 DEF Ensure, ProcType, Goto, Store
<1>3. ASSUME NEW w \in Writer, CreateCollection(w) PROVE ProcType'
  <2>1. /\ pc' \in [Proc -> {"idle", "open", "create", "op", "wipe"}]
        /\ UNCHANGED <<todo, items, tried, answer>>
    BY <1>3, ReturnType DEF CreateCollection, ProcType, Goto, Proc
  <2>2. client' \in [Proc -> Nat]
    BY <1>3 DEF CreateCollection, ProcType, Return
  <2>3. ASSUME NEW q \in Proc PROVE client'[q] <= Store'
    <3>1. Store' = 1
      BY <1>3 DEF CreateCollection, Store
    <3>2. client[q] \in Nat /\ client[q] <= 1
      BY <1>0, <3>1 DEF ProcType
    <3>3. client'[q] \in {client[q], 0, 1}
      BY <1>3 DEF CreateCollection, ProcType, Return
    <3>4. QED
      BY <3>1, <3>2, <3>3
  <2>4. QED
    BY <2>1, <2>2, <2>3 DEF ProcType
<1>4. ASSUME NEW w \in Writer, Write(w) \/ WriteDrops(w) PROVE ProcType'
  <2>1. todo' \in [Writer -> SUBSET Chunk]
    BY <1>4 DEF Write, WriteDrops, ProcType
  <2>2. UNCHANGED <<client, pc, items, tried, answer>>
    BY <1>4 DEF Write, WriteDrops
  <2>3. \A q \in Proc : client'[q] <= Store'
    BY <1>0, <2>2 DEF ProcType
  <2>4. QED
    BY <2>1, <2>2, <2>3 DEF ProcType
<1>5. ASSUME NEW w \in Writer, Acknowledge(w) PROVE ProcType'
  BY <1>5, ReturnType DEF Acknowledge, ProcType, Proc, Store
<1>6. ASSUME NEW r \in Reader, CallRead(r) PROVE ProcType'
  BY <1>6 DEF CallRead, ProcType, Goto, Answer, Store
<1>7. ASSUME NEW r \in Reader, Read(r) PROVE ProcType'
  <2>1. Current \in SUBSET Chunk
    BY StoreNat DEF Current, StoreType, Store
  <2>2. answer' \in [Reader -> (SUBSET Chunk) \cup {None}]
    BY <1>7, <2>1 DEF Read, Answers, Answer, ProcType
  <2>3. QED
    BY <1>7, <2>2, ReturnType DEF Read, ProcType, Proc, Store
<1>8. ASSUME NEW p \in Proc, Open(p) PROVE ProcType'
  <2>1. CASE Marked(p) /\ UNCHANGED <<todo, items>>
    BY <2>1, MarkedType DEF Marked, ProcType, Store
  <2>2. CASE /\ client' = [client EXCEPT ![p] = Store] /\ Goto(p, "op")
             /\ UNCHANGED <<data, tried, answer, todo, items>>
    BY <1>0, <2>2 DEF ProcType, Goto, Store
  <2>3. CASE /\ client' = [client EXCEPT ![p] = Store + 1] /\ Goto(p, "create")
             /\ data' = Append(data, {}) /\ UNCHANGED <<tried, answer, todo, items>>
    <3>1. Store' = Store + 1
      BY <2>3, AppendProperties DEF Store, StoreType
    <3>2. \A q \in Proc : client'[q] <= Store'
      BY <1>0, <2>3, <3>1 DEF ProcType
    <3>3. client' \in [Proc -> Nat]
      BY <1>0, <2>3 DEF ProcType
    <3>4. QED
      BY <2>3, <3>2, <3>3 DEF ProcType, Goto
  <2>4. QED
    BY <1>8, <2>1, <2>2, <2>3 DEF Open
<1>9. ASSUME NEW p \in Proc, Create(p) PROVE ProcType'
  <2>1. CASE Marked(p) /\ UNCHANGED <<todo, items>>
    BY <2>1, MarkedType DEF Marked, ProcType, Store
  <2>2. CASE Goto(p, "op") /\ UNCHANGED <<data, client, tried, answer, todo, items>>
    BY <2>2 DEF ProcType, Goto, Store
  <2>3. QED
    BY <1>9, <2>1, <2>2 DEF Create
<1>10. ASSUME NEW p \in Proc, OpOnGone(p) PROVE ProcType'
  <2>1. CASE Marked(p) /\ UNCHANGED <<todo, items>>
    BY <2>1, MarkedType DEF Marked, ProcType, Store
  <2>2. CASE /\ p \in Reader /\ Answers(p, data[client[p]]) /\ Return(p)
             /\ UNCHANGED <<data, tried, todo, items>>
    <3>1. data[client[p]] \in SUBSET Chunk
      BY <1>10, <2>2 DEF OpOnGone, ReaderInv, ReaderOk, StoreType, Store
    <3>2. answer' \in [Reader -> (SUBSET Chunk) \cup {None}]
      BY <2>2, <3>1 DEF Answers, Answer, ProcType
    <3>3. QED
      BY <2>2, <3>2, ReturnType DEF ProcType, Store
  <2>3. QED
    BY <1>10, <2>1, <2>2 DEF OpOnGone
<1>11. ASSUME NEW p \in Proc, Wipe(p) PROVE ProcType'
  BY <1>0, <1>11 DEF Wipe, ProcType, Goto, Store
<1>12. ASSUME NEW p \in Proc, Connect(p) PROVE ProcType'
  BY <1>0, <1>12 DEF Connect, ProcType, Goto, Store
<1>13. ASSUME NEW p \in Proc, ProbeFails(p) PROVE ProcType'
  BY <1>13, ReturnType DEF ProbeFails, ProcType, Goto, Answer, Store
<1>14. ASSUME NEW p \in Proc, Raises(p) PROVE ProcType'
  <2>1. Return(p) /\ UNCHANGED <<data, tried, todo, items>>
    BY <1>14 DEF Raises, Fails
  <2>2. answer' \in [Reader -> (SUBSET Chunk) \cup {None}]
    BY <1>14, FailsType DEF Raises, Answer, ProcType
  <2>3. QED
    BY <2>1, <2>2, ReturnType DEF ProcType, Store
<1>15. CASE ResetBegins \/ ResetEnds
  BY <1>15 DEF ResetBegins, ResetEnds, proc, ProcType, Store
<1>16. ASSUME NEW p \in Proc, HealthyMarked(p) PROVE ProcType'
  <2>1. Marked(p) /\ UNCHANGED <<todo, items>>
    BY <1>16 DEF HealthyMarked
  <2>2. QED
    BY <2>1, MarkedType DEF Marked, ProcType, Store
<1>17. QED
  BY <1>1, <1>2, <1>3, <1>4, <1>5, <1>6, <1>7, <1>8, <1>9, <1>10, <1>11, <1>12, <1>13, <1>14, <1>15,
     <1>16 DEF Step
-----------------------------------------------------------------------------
(* Readers.                                                                *)

\* What a reader can do.
Own(r) == \/ CallRead(r) \/ Read(r) \/ Open(r) \/ Create(r) \/ OpOnGone(r)
          \/ HealthyMarked(r) \/ Wipe(r) \/ Connect(r) \/ ProbeFails(r) \/ Raises(r)

\* The steps of others do not touch a reader.
LEMMA Others ==
  ASSUME TypeOK, Step, NEW r \in Reader, ~Own(r)
  PROVE  /\ pc'[r] = pc[r] /\ client'[r] = client[r] /\ answer'[r] = answer[r]
         /\ r \in misled' <=> r \in misled
<1> USE DEF TypeOK, ProcType, Goto, Return, Answers, Answer, Proc
<1>1. ASSUME NEW w \in Writer, CallUpsert(w) \/ Ensure(w) \/ CreateCollection(w)
                                 \/ Write(w) \/ WriteDrops(w) \/ Acknowledge(w)
      PROVE  /\ pc'[r] = pc[r] /\ client'[r] = client[r] /\ answer' = answer
             /\ misled' = misled
  <2>1. w # r
    BY ProcAssumption
  <2>2. QED
    BY <1>1, <2>1 DEF CallUpsert, Ensure, CreateCollection, Write, WriteDrops, Acknowledge
<1>2. ASSUME NEW q \in Reader, CallRead(q) \/ Read(q)
      PROVE  /\ pc'[r] = pc[r] /\ client'[r] = client[r] /\ answer'[r] = answer[r]
             /\ r \in misled' <=> r \in misled
  <2>1. q # r
    BY <1>2 DEF Own
  <2>2. QED
    BY <1>2, <2>1 DEF CallRead, Read
<1>3. ASSUME NEW p \in Proc, Open(p) \/ Create(p) \/ OpOnGone(p) \/ HealthyMarked(p)
      PROVE  /\ pc'[r] = pc[r] /\ client'[r] = client[r] /\ answer'[r] = answer[r]
             /\ r \in misled' <=> r \in misled
  <2>1. p # r
    BY <1>3 DEF Own
  <2>2. QED
    BY <1>3, <2>1 DEF Open, Create, OpOnGone, HealthyMarked, Marked, Fails
<1>4. ASSUME NEW p \in Proc, Wipe(p) \/ Connect(p) \/ ProbeFails(p) \/ Raises(p)
      PROVE  /\ pc'[r] = pc[r] /\ client'[r] = client[r] /\ answer'[r] = answer[r]
             /\ r \in misled' <=> r \in misled
  <2>1. p # r
    BY <1>4 DEF Own
  <2>2. QED
    BY <1>4, <2>1 DEF Wipe, Connect, ProbeFails, Raises, Fails
<1>5. CASE ResetBegins \/ ResetEnds
  BY <1>5 DEF ResetBegins, ResetEnds, proc
<1>6. QED
  BY <1>1, <1>2, <1>3, <1>4, <1>5 DEF Step

\* A store that was is as it was, or is the one on disk.
LEMMA DataStep ==
  ASSUME TypeOK, Step
  PROVE  /\ adapter' = adapter
         /\ \A i \in 1..Store : data'[i] \in {data[i], Current'}
         /\ adapter # "chroma" => Store' = Store \/ Current' = {}
<1> USE DEF TypeOK
<1>1. ASSUME NEW w \in Writer, Write(w) \/ WriteDrops(w)
      PROVE  /\ adapter' = adapter /\ Store' = Store
             /\ \A i \in 1..Store : data'[i] \in {data[i], Current'}
  <2>1. PICK s \in SUBSET todo[w] : data' = [data EXCEPT ![Store] = @ \cup s]
    BY <1>1 DEF Write, WriteDrops, Requests
  <2>2. Store \in 1..Len(data) /\ data[Store] \cup s \in SUBSET Chunk
    BY <1>1, <2>1, StoreNat DEF Write, WriteDrops, Healthy, Store, ProcType, StoreType
  <2>3. /\ Len(data') = Len(data)
        /\ \A i \in 1..Len(data) : data'[i] = IF i = Store THEN data[Store] \cup s ELSE data[i]
    BY <2>1, <2>2, ExceptSeq DEF StoreType
  <2>4. tables' = "ready" /\ adapter' = adapter
    BY <1>1 DEF Write, WriteDrops, Healthy
  <2>5. Store' = Store /\ Current' = data'[Store]
    BY <2>3, <2>4 DEF Store, Current
  <2>6. QED
    BY <2>3, <2>4, <2>5 DEF Store
<1>2. ASSUME NEW w \in Writer, CreateCollection(w)
      PROVE  /\ adapter' = adapter
             /\ \A i \in 1..Store : data'[i] \in {data[i], Current'}
             /\ Store' = Store \/ Current' = {}
  BY <1>2 DEF CreateCollection, Store, Current
<1>3. ASSUME NEW p \in Proc, Open(p)
      PROVE  /\ adapter' = adapter /\ adapter = "chroma"
             /\ \A i \in 1..Store : data'[i] \in {data[i], Current'}
  <2>1. data' = data \/ data' = Append(data, {})
    BY <1>3 DEF Open, Marked
  <2>2. QED
    BY <1>3, <2>1, AppendProperties DEF Open, Store, StoreType
<1>4. CASE UNCHANGED <<adapter, data>>
  BY <1>4 DEF Store
<1>5. ASSUME NEW p \in Proc,
             \/ Create(p) \/ OpOnGone(p) \/ HealthyMarked(p) \/ Wipe(p)
             \/ Connect(p) \/ ProbeFails(p) \/ Raises(p)
      PROVE  UNCHANGED <<adapter, data>>
  BY <1>5 DEF Create, Marked, OpOnGone, HealthyMarked, Wipe, Connect, ProbeFails, Raises
<1>6. ASSUME NEW w \in Writer, CallUpsert(w) \/ Ensure(w) \/ Acknowledge(w)
      PROVE  UNCHANGED <<adapter, data>>
  BY <1>6 DEF CallUpsert, Ensure, Acknowledge
<1>7. ASSUME NEW r \in Reader, CallRead(r) \/ Read(r) PROVE UNCHANGED <<adapter, data>>
  BY <1>7 DEF CallRead, Read
<1>8. CASE ResetBegins \/ ResetEnds
  <2>1. UNCHANGED <<adapter, data>>
    BY <1>8 DEF ResetBegins, ResetEnds
  <2>2. QED
    BY <2>1, <1>4
<1>9. QED
  BY <1>1, <1>2, <1>3, <1>4, <1>5, <1>6, <1>7, <1>8 DEF Step

\* A call sees the store after each step of it.
LEMMA Watching ==
  ASSUME TypeOK, Watch, Current' \in SUBSET Chunk
  PROVE  /\ seen' \in [Reader -> SUBSET SUBSET Chunk]
         /\ \A r \in Reader :
              /\ pc[r] # "idle" \/ pc'[r] # "idle" => Current' \in seen'[r]
              /\ pc[r] # "idle" => seen[r] \subseteq seen'[r]
              /\ pc[r] = "idle" /\ pc'[r] = "idle" => seen'[r] = seen[r]
  BY DEF TypeOK, Watch

LEMMA CurrentType == StoreType => Current \in SUBSET Chunk
  BY StoreNat DEF Current, StoreType, Store

LEMMA NextReaderInv ==
  ASSUME TypeOK, ReaderInv, Next
  PROVE  ReaderInv'
<1> SUFFICES ASSUME NEW r \in Reader PROVE ReaderOk(r)'
  BY DEF ReaderInv
<1>1. Step /\ Watch
  BY DEF Next
<1>2. StoreType' /\ Current' \in SUBSET Chunk
  BY <1>1, StepStoreType, CurrentType DEF TypeOK, StoreType, Current, Store
<1>3. /\ pc[r] # "idle" \/ pc'[r] # "idle" => Current' \in seen'[r]
      /\ pc[r] # "idle" => seen[r] \subseteq seen'[r]
      /\ pc[r] = "idle" /\ pc'[r] = "idle" => seen'[r] = seen[r]
  BY <1>1, <1>2, Watching
<1>4. ReaderOk(r)
  BY DEF ReaderInv
<1>5. /\ Store \in Nat /\ Store' \in Nat /\ Store <= Store'
      /\ adapter' = adapter
      /\ \A i \in 1..Store : data'[i] \in {data[i], Current'}
      /\ adapter # "chroma" => Store' = Store \/ Current' = {}
  BY <1>1, <1>2, StoreNat, StoreGrows, DataStep DEF TypeOK, StoreType, Store
<1> USE DEF Goto, Return, Answer, Answers
<1>6. CASE ~Own(r)
  <2>1. /\ pc'[r] = pc[r] /\ client'[r] = client[r] /\ answer'[r] = answer[r]
        /\ r \in misled' <=> r \in misled
    BY <1>1, <1>6, Others
  <2>2. CASE pc[r] = "idle"
    BY <1>3, <1>4, <2>1, <2>2 DEF ReaderOk
  <2>3. CASE pc[r] # "idle"
    <3>1. answer'[r] = None /\ pc'[r] # "idle" /\ Current' \in seen'[r] /\ seen[r] \subseteq seen'[r]
      BY <1>3, <1>4, <2>1, <2>3 DEF ReaderOk
    <3>2. adapter = "chroma" /\ pc[r] = "op" => client'[r] \in 1..Store' /\ data'[client'[r]] \in seen'[r]
      <4>1. SUFFICES ASSUME adapter = "chroma", pc[r] = "op"
                     PROVE  client'[r] \in 1..Store' /\ data'[client'[r]] \in seen'[r]
        OBVIOUS
      <4>2. client'[r] \in 1..Store /\ data[client'[r]] \in seen'[r]
        BY <1>4, <2>1, <3>1, <4>1 DEF ReaderOk
      <4>3. QED
        BY <1>5, <3>1, <4>2
    <3>3. /\ adapter \notin {"chroma", "pinecone"} /\ pc[r] = "op" /\ r \notin misled
          => client'[r] = Store' \/ {} \in seen'[r]
      BY <1>4, <1>5, <2>1, <3>1 DEF ReaderOk
    <3>4. QED
      BY <1>5, <2>1, <3>1, <3>2, <3>3 DEF ReaderOk
  <2>4. QED
    BY <2>2, <2>3
<1> USE DEF TypeOK, ProcType
<1>7. CASE CallRead(r)
  <2>1. client[r] = 0
    BY <1>4, <1>7 DEF CallRead, ReaderOk
  <2>2. pc'[r] = "open" /\ answer'[r] = None
    BY <1>7, <2>1 DEF CallRead, Proc
  <2>3. QED
    BY <1>3, <2>2 DEF ReaderOk
<1> USE DEF Proc
\* A call of r that goes on, but not to its operation, or that ends with
\* no answer, with a misleading one, or with one that was there.
<1>8. ASSUME pc[r] # "idle", pc'[r] \in {"open", "create", "wipe"}, answer'[r] = answer[r]
      PROVE  ReaderOk(r)'
  BY <1>3, <1>4, <1>8 DEF ReaderOk
<1>9. ASSUME pc[r] # "idle", Return(r),
             answer'[r] = answer[r] \/ r \in misled' \/ answer'[r] \in seen[r] \cup {Current', None}
      PROVE  ReaderOk(r)'
  <2>1. pc'[r] = "idle" /\ client'[r] = 0
    BY <1>9
  <2>2. answer[r] = None
    BY <1>4, <1>9 DEF ReaderOk
  <2>3. r \in misled' \/ answer'[r] = None \/ answer'[r] \in seen'[r]
    BY <1>3, <1>9, <2>2
  <2>4. QED
    BY <2>1, <2>3 DEF ReaderOk
<1>10. CASE Marked(r) /\ pc[r] # "idle"
  <2>1. CASE Goto(r, "wipe") /\ UNCHANGED answer
    BY <1>8, <1>10, <2>1
  <2>2. CASE Fails(r)
    BY <1>9, <1>10, <2>2 DEF Fails
  <2>3. QED
    BY <1>10, <2>1, <2>2 DEF Marked
\* A client of what is on disk.
<1>11. ASSUME pc[r] # "idle", pc'[r] = "op", answer'[r] = answer[r], adapter = "chroma",
              client'[r] = Store', tables' = "ready"
       PROVE  ReaderOk(r)'
  <2>1. Store' \in 1..Store' /\ Current' = data'[Store']
    BY <1>2, <1>5, <1>11 DEF StoreType, Store, Current
  <2>2. QED
    BY <1>3, <1>4, <1>5, <1>11, <2>1 DEF ReaderOk
<1>12. CASE Open(r)
  <2>1. CASE Marked(r)
    BY <1>10, <1>12, <2>1 DEF Open
  <2>2. CASE tables' = "ready" /\ client' = [client EXCEPT ![r] = Store] /\ Goto(r, "op") /\ UNCHANGED <<data, answer>>
    BY <1>11, <1>12, <2>2 DEF Open, Store
  <2>3. CASE Goto(r, "create") /\ UNCHANGED answer
    BY <1>8, <1>12, <2>3 DEF Open
  <2>4. QED
    BY <1>12, <2>1, <2>2, <2>3 DEF Open
<1>13. CASE Create(r)
  <2>1. CASE Marked(r)
    BY <1>10, <1>13, <2>1 DEF Create
  <2>2. CASE /\ client[r] = Store /\ tables' = "ready" /\ Goto(r, "op")
             /\ UNCHANGED <<data, client, answer>>
    BY <1>11, <1>13, <2>2 DEF Create, Store
  <2>3. QED
    BY <1>13, <2>1, <2>2 DEF Create
<1>14. CASE OpOnGone(r)
  <2>1. CASE Marked(r)
    BY <1>10, <1>14, <2>1 DEF OpOnGone
  <2>2. CASE Answers(r, data[client[r]]) /\ Return(r)
    <3>1. data[client[r]] \in seen[r]
      BY <1>4, <1>14 DEF OpOnGone, ReaderOk
    <3>2. QED
      BY <1>9, <1>14, <2>2, <3>1 DEF OpOnGone
  <2>3. QED
    BY <1>14, <2>1, <2>2 DEF OpOnGone
<1>15. CASE Wipe(r)
  BY <1>8, <1>15 DEF Wipe
<1>16. CASE Read(r)
  <2>1. Current = Current'
    BY <1>16 DEF Read, Current, Store
  <2>2. CASE client[r] = Store \/ adapter = "pinecone"
    BY <1>9, <1>16, <2>1, <2>2 DEF Read
  <2>3. CASE ~(client[r] = Store \/ adapter = "pinecone")
    <3>1. adapter \notin {"chroma", "pinecone"}
      BY <1>16, <2>3 DEF Read, Healthy, Servers
    <3>2. r \in misled' \/ {} \in seen[r]
      BY <1>4, <1>16, <2>3, <3>1 DEF Read, ReaderOk
    <3>3. QED
      BY <1>9, <1>16, <2>3, <3>2 DEF Read
  <2>4. QED
    BY <2>2, <2>3
<1>17. CASE Connect(r)
  <2>1. /\ pc[r] # "idle" /\ pc'[r] = "op" /\ answer' = answer /\ adapter # "chroma"
        /\ adapter # "pinecone" => client'[r] = Store'
    BY <1>17 DEF Connect, Servers, Store
  <2>2. QED
    BY <1>3, <1>4, <1>5, <2>1 DEF ReaderOk
<1>18. CASE ProbeFails(r)
  <2>1. r \in misled' /\ pc[r] # "idle"
    BY <1>18 DEF ProbeFails
  <2>2. CASE Return(r)
    BY <1>9, <2>1, <2>2
  <2>3. CASE Goto(r, "op") /\ UNCHANGED answer /\ adapter = "pgvector"
    BY <1>3, <1>4, <1>5, <2>1, <2>3 DEF ReaderOk
  <2>4. QED
    BY <1>18, <2>2, <2>3 DEF ProbeFails
<1>19. CASE Raises(r)
  <2>1. pc[r] # "idle" /\ Return(r) /\ Current' = Current
    BY <1>19 DEF Raises, Fails, Current, Store
  <2>2. answer'[r] = answer[r] \/ r \in misled' \/ answer'[r] = Current
    BY <1>19 DEF Raises, Fails
  <2>3. QED
    BY <1>9, <2>1, <2>2
<1>20. CASE HealthyMarked(r)
  BY <1>10, <1>20 DEF HealthyMarked
<1>21. QED
  BY <1>6, <1>7, <1>12, <1>13, <1>14, <1>15, <1>16, <1>17, <1>18, <1>19, <1>20 DEF Own
-----------------------------------------------------------------------------
(* Writers.                                                                *)

\* Nothing makes a store calm again, and in a calm one Chroma's recovery
\* never starts, nobody is wiping, and nothing is removed.
LEMMA CalmStep ==
  ASSUME TypeOK, CalmInv, Step, calm'
  PROVE  /\ calm
         /\ \/ \E w \in Writer : \/ CallUpsert(w) \/ Ensure(w) \/ CreateCollection(w)
                                 \/ Write(w) \/ Acknowledge(w)
            \/ \E r \in Reader : CallRead(r) \/ Read(r)
            \/ \E p \in Proc : \/ Open(p) /\ ~Marked(p)
                               \/ Create(p) /\ ~Marked(p)
                               \/ Connect(p) \/ ProbeFails(p) \/ Raises(p)
<1>1. calm
  <2>1. ASSUME NEW w \in Writer, CallUpsert(w) \/ Ensure(w) \/ CreateCollection(w)
                                   \/ Write(w) \/ WriteDrops(w) \/ Acknowledge(w)
        PROVE  calm
    BY <2>1 DEF CallUpsert, Ensure, CreateCollection, Write, WriteDrops, Acknowledge
  <2>2. ASSUME NEW r \in Reader, CallRead(r) \/ Read(r) PROVE calm
    BY <2>2 DEF CallRead, Read
  <2>3. ASSUME NEW p \in Proc, Open(p) \/ Create(p) \/ OpOnGone(p) \/ HealthyMarked(p)
                                 \/ Wipe(p) \/ Connect(p) \/ ProbeFails(p) \/ Raises(p)
        PROVE  calm
    BY <2>3 DEF Open, Create, OpOnGone, HealthyMarked, Wipe, Connect, ProbeFails, Raises
  <2>4. CASE ResetBegins \/ ResetEnds
    BY <2>4 DEF ResetBegins, ResetEnds
  <2>5. QED
    BY <2>1, <2>2, <2>3, <2>4 DEF Step
<1>2. ASSUME NEW p \in Proc PROVE ~OpOnGone(p) /\ ~HealthyMarked(p) /\ ~Wipe(p)
  BY <1>1 DEF CalmInv, ClientOk, OpOnGone, HealthyMarked, Wipe, Healthy
<1>3. ~ResetBegins /\ ~ResetEnds
  BY <1>1 DEF CalmInv, ResetBegins, ResetEnds
<1>4. ASSUME NEW w \in Writer PROVE ~WriteDrops(w)
  BY DEF WriteDrops
<1>5. ASSUME NEW p \in Proc, Open(p) PROVE ~Marked(p)
  <2>1. tables \in {"none", "ready"}
    BY <1>5 DEF Open, TypeOK, StoreType
  <2>2. QED
    BY <1>5, <2>1 DEF Open, Marked, Fails, Return, Goto, TypeOK, ProcType
<1>6. ASSUME NEW p \in Proc, Create(p) PROVE ~Marked(p)
  BY <1>1, <1>6 DEF Create, CalmInv, ClientOk, Marked, Fails, Return, Goto, TypeOK, ProcType
<1>7. QED
  BY <1>1, <1>2, <1>3, <1>4, <1>5, <1>6 DEF Step

\* What is in a calm store stays in it.
LEMMA CurrentGrows ==
  ASSUME TypeOK, CalmInv, Step, calm'
  PROVE  Current \subseteq Current'
<1>1. ASSUME NEW w \in Writer, Write(w) PROVE Current \subseteq Current'
  <2>1. PICK s \in SUBSET todo[w] : data' = [data EXCEPT ![Store] = @ \cup s]
    BY <1>1 DEF Write, Requests
  <2>2. Store \in 1..Len(data) /\ data[Store] \cup s \in SUBSET Chunk
    BY <1>1, <2>1, StoreNat DEF Write, Healthy, Store, TypeOK, ProcType, StoreType
  <2>3. Len(data') = Len(data) /\ data'[Store] = data[Store] \cup s
    BY <2>1, <2>2, ExceptSeq DEF TypeOK, StoreType
  <2>4. QED
    BY <1>1, <2>3 DEF Write, Healthy, Store, Current
<1>2. ASSUME NEW w \in Writer, CreateCollection(w) PROVE Current \subseteq Current'
  BY <1>2 DEF CreateCollection, Current, Store, TypeOK, StoreType
<1>3. ASSUME NEW p \in Proc, Open(p), ~Marked(p) PROVE Current \subseteq Current'
  BY <1>3 DEF Open, Current, Store
<1>4. ASSUME NEW p \in Proc, Create(p), ~Marked(p) PROVE Current \subseteq Current'
  BY <1>4 DEF Create, Current, Store
<1>5. ASSUME NEW p \in Proc, Connect(p) \/ ProbeFails(p) \/ Raises(p)
      PROVE  UNCHANGED <<tables, data>>
  BY <1>5 DEF Connect, ProbeFails, Raises
<1>6. ASSUME NEW w \in Writer, CallUpsert(w) \/ Ensure(w) \/ Acknowledge(w)
      PROVE  UNCHANGED <<tables, data>>
  BY <1>6 DEF CallUpsert, Ensure, Acknowledge
<1>7. ASSUME NEW r \in Reader, CallRead(r) \/ Read(r) PROVE UNCHANGED <<tables, data>>
  BY <1>7 DEF CallRead, Read
<1>8. CASE UNCHANGED <<tables, data>>
  BY <1>8 DEF Current, Store
<1>9. QED
  BY CalmStep, <1>1, <1>2, <1>3, <1>4, <1>5, <1>6, <1>7, <1>8

\* So what an upsert has written is there when it is acknowledged.
LEMMA NextWritten ==
  ASSUME TypeOK, CalmInv, Step, calm'
  PROVE  /\ \A w \in Writer : items'[w] \ todo'[w] \subseteq Current'
         /\ acked' \subseteq Current'
<1> USE DEF TypeOK, ProcType
<1>1. /\ \A w \in Writer : items[w] \ todo[w] \subseteq Current
      /\ acked \subseteq Current /\ Current \subseteq Current'
  BY CalmStep, CurrentGrows DEF CalmInv
<1>2. ASSUME NEW w \in Writer, CallUpsert(w)
      PROVE  /\ \A v \in Writer : items'[v] \ todo'[v] \subseteq Current'
             /\ acked' = acked
  BY <1>1, <1>2 DEF CallUpsert
<1>3. ASSUME NEW w \in Writer, Write(w)
      PROVE  /\ \A v \in Writer : items'[v] \ todo'[v] \subseteq Current'
             /\ acked' = acked
  <2>1. PICK s \in SUBSET todo[w] : /\ data' = [data EXCEPT ![Store] = @ \cup s]
                                    /\ todo' = [todo EXCEPT ![w] = @ \ s]
    BY <1>3 DEF Write, Requests
  <2>2. Store \in 1..Len(data) /\ data[Store] \cup s \in SUBSET Chunk
    BY <1>3, <2>1, StoreNat DEF Write, Healthy, Store, StoreType
  <2>3. Len(data') = Len(data) /\ data'[Store] = data[Store] \cup s
    BY <2>1, <2>2, ExceptSeq DEF StoreType
  <2>4. s \subseteq Current'
    BY <1>3, <2>3 DEF Write, Healthy, Store, Current
  <2>5. items' = items /\ acked' = acked
    BY <1>3 DEF Write
  <2>6. QED
    BY <1>1, <2>1, <2>4, <2>5
<1>4. ASSUME NEW w \in Writer, Acknowledge(w)
      PROVE  items' = items /\ todo' = todo /\ acked' \subseteq Current'
  BY <1>1, <1>4 DEF Acknowledge
<1>5. ASSUME NEW w \in Writer, Ensure(w) \/ CreateCollection(w)
      PROVE  UNCHANGED <<items, todo, acked>>
  BY <1>5 DEF Ensure, CreateCollection
<1>6. ASSUME NEW r \in Reader, CallRead(r) \/ Read(r) PROVE UNCHANGED <<items, todo, acked>>
  BY <1>6 DEF CallRead, Read
<1>7. ASSUME NEW p \in Proc, Open(p) \/ Create(p) \/ Connect(p) \/ ProbeFails(p) \/ Raises(p)
      PROVE  UNCHANGED <<items, todo, acked>>
  BY <1>7 DEF Open, Create, Connect, ProbeFails, Raises
<1>8. QED
  BY CalmStep, <1>1, <1>2, <1>3, <1>4, <1>5, <1>6, <1>7

LEMMA NextClients ==
  ASSUME TypeOK, ReaderInv, CalmInv, Step, calm', adapter = "chroma"
  PROVE  /\ tables' # "torn"
         /\ \A p \in Proc : pc'[p] # "wipe" /\ ClientOk(p)'
<1> USE DEF TypeOK, ProcType, Goto, Proc
<1>1. /\ tables # "torn"
      /\ \A p \in Proc : pc[p] # "wipe" /\ ClientOk(p)
  BY CalmStep DEF CalmInv
<1>2. ASSUME NEW w \in Writer, CallUpsert(w)
      PROVE  tables' # "torn" /\ \A p \in Proc : pc'[p] # "wipe" /\ ClientOk(p)'
  BY <1>1, <1>2 DEF CallUpsert, ClientOk, Store
<1>3. ASSUME NEW w \in Writer, Write(w)
      PROVE  tables' # "torn" /\ \A p \in Proc : pc'[p] # "wipe" /\ ClientOk(p)'
  <2>1. PICK s \in SUBSET todo[w] : data' = [data EXCEPT ![Store] = @ \cup s]
    BY <1>3 DEF Write, Requests
  <2>2. Store \in 1..Len(data) /\ data[Store] \cup s \in SUBSET Chunk
    BY <1>3, <2>1, StoreNat DEF Write, Healthy, Store, StoreType
  <2>3. Store' = Store
    BY <2>1, <2>2, ExceptSeq DEF Store, StoreType
  <2>4. UNCHANGED <<tables, pc, client>>
    BY <1>3 DEF Write
  <2>5. QED
    BY <1>1, <2>3, <2>4 DEF ClientOk
<1>4. ASSUME NEW w \in Writer, Acknowledge(w)
      PROVE  tables' # "torn" /\ \A p \in Proc : pc'[p] # "wipe" /\ ClientOk(p)'
  BY <1>1, <1>4 DEF Acknowledge, Return, ClientOk, Store
<1>5. ASSUME NEW w \in Writer PROVE ~Ensure(w) /\ ~CreateCollection(w)
  BY DEF Ensure, CreateCollection, Servers
<1>6. ASSUME NEW r \in Reader, CallRead(r) \/ Read(r)
      PROVE  tables' # "torn" /\ \A p \in Proc : pc'[p] # "wipe" /\ ClientOk(p)'
  BY <1>1, <1>6 DEF CallRead, Read, Return, ClientOk, Store
<1>7. ASSUME NEW q \in Proc, Open(q), ~Marked(q)
      PROVE  tables' # "torn" /\ \A p \in Proc : pc'[p] # "wipe" /\ ClientOk(p)'
  <2>1. CASE /\ tables = "ready" /\ client' = [client EXCEPT ![q] = Store]
             /\ Goto(q, "op") /\ UNCHANGED <<tables, data>>
    <3>1. Store # 0
      BY <2>1, StoreNat DEF StoreType, Store
    <3>2. QED
      BY <1>1, <1>7, <2>1, <3>1 DEF Open, ClientOk, Store
  <2>2. CASE /\ tables = "none" /\ tables' = "making" /\ data' = Append(data, {})
             /\ client' = [client EXCEPT ![q] = Store + 1] /\ Goto(q, "create")
    <3>1. Store' = Store + 1 /\ Store \in Nat
      BY <2>2, AppendProperties, StoreNat DEF Store, StoreType
    <3>2. \A p \in Proc : client[p] = 0 /\ pc[p] \notin {"create", "op"}
      BY <1>1, <2>2 DEF ClientOk
    <3>3. QED
      BY <1>1, <2>2, <3>1, <3>2 DEF ClientOk
  <2>3. QED
    BY <1>7, <2>1, <2>2 DEF Open
<1>8. ASSUME NEW q \in Proc, Create(q), ~Marked(q)
      PROVE  tables' # "torn" /\ \A p \in Proc : pc'[p] # "wipe" /\ ClientOk(p)'
  <2>1. /\ tables' = "ready" /\ Goto(q, "op") /\ UNCHANGED <<data, client>>
        /\ pc[q] = "create" /\ tables = "making" /\ client[q] = Store
    BY <1>8 DEF Create
  <2>2. Store # 0 /\ Store' = Store
    BY <2>1, StoreNat DEF StoreType, Store
  <2>3. \A p \in Proc : pc[p] = "create" => p = q
    BY <1>1, <2>1 DEF ClientOk
  <2>4. QED
    BY <1>1, <2>1, <2>2, <2>3 DEF ClientOk
<1>9. ASSUME NEW q \in Proc PROVE ~Connect(q) /\ ~ProbeFails(q)
  BY DEF Connect, ProbeFails, Servers
<1>10. ASSUME NEW q \in Proc, Raises(q)
       PROVE  tables' # "torn" /\ \A p \in Proc : pc'[p] # "wipe" /\ ClientOk(p)'
  <2>1. UNCHANGED <<tables, data>> /\ Return(q) /\ pc[q] # "create"
    BY <1>10 DEF Raises, Fails
  <2>2. QED
    BY <1>1, <2>1 DEF Return, ClientOk, Store
<1>11. QED
  BY CalmStep, <1>2, <1>3, <1>4, <1>5, <1>6, <1>7, <1>8, <1>9, <1>10

\* The servers are never torn, and nobody wipes them.
LEMMA NextServers ==
  ASSUME TypeOK, CalmInv, Step, calm', adapter # "chroma"
  PROVE  tables' # "torn" /\ \A p \in Proc : pc'[p] # "wipe"
<1> USE DEF TypeOK, ProcType, Goto, Return, Proc
<1>1. tables # "torn" /\ \A p \in Proc : pc[p] # "wipe"
  BY CalmStep DEF CalmInv
<1>2. ASSUME NEW w \in Writer,
             CallUpsert(w) \/ Ensure(w) \/ CreateCollection(w) \/ Write(w) \/ Acknowledge(w)
      PROVE  tables' # "torn" /\ \A p \in Proc : pc'[p] # "wipe"
  BY <1>1, <1>2 DEF CallUpsert, Ensure, CreateCollection, Write, Acknowledge
<1>3. ASSUME NEW r \in Reader, CallRead(r) \/ Read(r)
      PROVE  tables' # "torn" /\ \A p \in Proc : pc'[p] # "wipe"
  BY <1>1, <1>3 DEF CallRead, Read
<1>4. ASSUME NEW p \in Proc, Connect(p) \/ ProbeFails(p) \/ Raises(p)
      PROVE  tables' # "torn" /\ \A q \in Proc : pc'[q] # "wipe"
  BY <1>1, <1>4 DEF Connect, ProbeFails, Raises, Fails
<1>5. ASSUME NEW p \in Proc PROVE ~Open(p) /\ ~Create(p)
  BY DEF Open, Create
<1>6. QED
  BY CalmStep, <1>2, <1>3, <1>4, <1>5
-----------------------------------------------------------------------------
StoreInv == TypeOK /\ ReaderInv /\ CalmInv

LEMMA InitInv == Init => StoreInv
<1> SUFFICES ASSUME Init PROVE StoreInv
  OBVIOUS
<1>1. TypeOK
  BY InitType
<1>2. ReaderInv
  BY DEF Init, ReaderInv, ReaderOk, Proc
<1>3. CalmInv
  BY DEF Init, CalmInv, ClientOk
<1>4. QED
  BY <1>1, <1>2, <1>3 DEF StoreInv

LEMMA NextInv == StoreInv /\ [Next]_vars => StoreInv'
<1> SUFFICES ASSUME StoreInv, [Next]_vars PROVE StoreInv'
  OBVIOUS
<1> USE DEF StoreInv
<1>1. CASE Next
  <2>1. Step /\ Watch
    BY <1>1 DEF Next
  <2>2. StoreType' /\ ProcType' /\ HistoryType'
    BY <2>1, StepStoreType, StepProcType, StepHistoryType DEF TypeOK
  <2>3. Current' \in SUBSET Chunk
    BY <2>1, StepStoreType, CurrentType, <2>2 DEF StoreType, Current, Store
  <2>4. TypeOK'
    BY <2>1, <2>2, <2>3, Watching DEF TypeOK
  <2>5. ReaderInv'
    BY <1>1, NextReaderInv
  <2>6. adapter' = adapter
    BY <2>1, DataStep
  <2>7. CalmInv'
    BY <2>1, <2>6, NextWritten, NextClients, NextServers DEF CalmInv
  <2>8. QED
    BY <2>4, <2>5, <2>7
<1>2. CASE UNCHANGED vars
  <2> USE <1>2 DEF vars, proc
  <2>1. TypeOK'
    BY DEF TypeOK, StoreType, ProcType, HistoryType, Store
  <2>2. ReaderInv'
    BY DEF ReaderInv, ReaderOk, Current, Store
  <2>3. CalmInv'
    BY DEF CalmInv, ClientOk, Current, Store
  <2>4. QED
    BY <2>1, <2>2, <2>3
<1>3. QED
  BY <1>1, <1>2

LEMMA Invariant == Spec => []StoreInv
  BY InitInv, NextInv, PTL DEF Spec

\* Every variable keeps its type.
THEOREM TypeCorrect == Spec => []TypeOK
<1>1. StoreInv => TypeOK
  BY DEF StoreInv
<1>2. QED
  BY Invariant, <1>1, PTL

\* A read answers what the store held while it lasted, unless it failed.
THEOREM ReadsAreFresh == Spec => []FreshRead
<1>1. StoreInv => FreshRead
  BY DEF StoreInv, ReaderInv, ReaderOk, FreshRead
<1>2. QED
  BY Invariant, <1>1, PTL

\* What was acknowledged stays, whatever calls of others do, in a calm store.
THEOREM UpsertsAreKept == Spec => []UpsertedKept
<1>1. StoreInv => UpsertedKept
  BY DEF StoreInv, CalmInv, UpsertedKept
<1>2. QED
  BY Invariant, <1>1, PTL
-----------------------------------------------------------------------------
(***************************************************************************)
(* Ingest.  One inductive invariant of every instance, IngestInv, and on   *)
(* it one for each of its properties, of the instances that the property   *)
(* is about.                                                               *)
(***************************************************************************)

\* Of a client in its handler: it holds the lock, and there is a run whose
\* status file it reads; what it has read is a state.
LockOk == \A c \in Client : phase[c] # "idle" => holder = c
HandlerOk ==
  \A c \in Client :
    /\ phase[c] \in {"look", "decide", "read", "judge"} => handle # NoTask
    /\ phase[c] \in {"decide", "judge"} => raw[c] \in State

\* Of a run: it has a status file, and until its main thread takes files no
\* temporary one, no reporter and no count; no file has more than one chunk;
\* and its verdict is there when it is written.
TaskOk ==
  /\ handle # NoTask => worker[handle] # "unborn"
  /\ \A t \in Task :
       /\ worker[t] = "unborn" <=> file[t] = NoFile
       /\ worker[t] \in {"unborn", "nospawn", "seed", "load"} =>
            tmp[t] = NoFile /\ rep[t] = "none" /\ done[t] = 0 /\ chunks[t] = 0
       /\ chunks[t] <= done[t]
       /\ worker[t] \in {"join", "write"} => verdict[t] # "none"

IngestInv == IngestTypeOK /\ LockOk /\ HandlerOk /\ TaskOk

\* A worker that may write to the store is that of the handle, its status file
\* does not say that it has ended, and no client starts another.
WriterInv ==
  /\ Writing \subseteq {handle}
  /\ \A t \in Writing : /\ file[t].state = "running"
                        /\ tmp[t] # NoFile => tmp[t].state = "running"
  /\ \A c \in Client :
       phase[c] = "seed" \/ (phase[c] = "decide" /\ raw[c] # "running") => handle \notin Writing

\* If the reporter is waited for: it runs only while its main thread takes
\* files or waits for it; and what either of them is about to put into the
\* place of the status file continues what is there.
Running == {"seed", "load", "ingest", "join", "write", "replace"}
Continues(old, new) == old.done <= new.done /\ old.chunks <= new.chunks
ReporterInv ==
  \A t \in Task :
    /\ rep[t] \in {"wait", "tick", "replace"} => worker[t] \in {"ingest", "join"}
    /\ worker[t] \in Running =>
         /\ file[t].state = "running"
         /\ file[t].done <= done[t] /\ file[t].chunks <= chunks[t]
    /\ rep[t] = "replace" =>
         /\ tmp[t] # NoFile /\ tmp[t].state = "running" /\ Continues(file[t], tmp[t])
         /\ tmp[t].done <= done[t] /\ tmp[t].chunks <= chunks[t]
    /\ worker[t] = "replace" => tmp[t] # NoFile /\ tmp[t].state # "running"

\* If the last write of the status file does not fail, either.
ExitInv == \A t \in Task : worker[t] \in {"exit", "gone"} => file[t].state # "running"

\* If nothing wipes the store: what was taken is there, and who says that it
\* succeeded took everything.
Stored(t) == Files \ bare[t] \subseteq store
StoredInv ==
  \A t \in Task :
    /\ (1..done[t]) \ bare[t] \subseteq store
    /\ verdict[t] = "succeeded" => done[t] = NFiles
    /\ tmp[t] # NoFile /\ tmp[t].state = "succeeded" => Stored(t)
    /\ file[t] # NoFile /\ file[t].state = "succeeded" => Stored(t)

(* Every step keeps the types.                                             *)
LEMMA IngestTypeStep ==
  ASSUME IngestInv, [IngestNext]_ingestVars
  PROVE  IngestTypeOK'
<1> USE SizesAssumption, NullsAssumption DEF IngestInv, IngestTypeOK, HandlerOk, TaskOk, Enter,
      ReadStatus, Reply, ClientGoto, WorkerSame, ParentSame, WorkerGoto, RepGoto, WorkerEnds, File,
      Next1, Replace, parent, main, Judged, Initial, Failed, Status, State, NoAnswer, Final
<1>1. ASSUME NEW c \in Client, StartEnter(c) PROVE IngestTypeOK'
  BY <1>1 DEF StartEnter
<1>2. ASSUME NEW c \in Client, StartLook(c) PROVE IngestTypeOK'
  BY <1>2 DEF StartLook
<1>3. ASSUME NEW c \in Client, StartDecide(c) PROVE IngestTypeOK'
  <2>1. handle \in Task /\ raw[c] \in State
    BY <1>3 DEF StartDecide
  <2>2. CASE Judged(handle, raw[c]) = "running"
    <3>1. /\ phase[c] = "decide" /\ holder' = NoClient /\ phase' = [phase EXCEPT ![c] = "idle"]
          /\ raw' = [raw EXCEPT ![c] = "none"]
          /\ resp' = [resp EXCEPT ![c] = [task |-> handle, state |-> "running"]]
          /\ UNCHANGED <<handle, file, worker, done, chunks, verdict, bare, rep, tmp, store,
                         reloads, resets>>
      BY <1>3, <2>2 DEF StartDecide
    <3> QED
      BY <2>1, <3>1
  <2>3. CASE Judged(handle, raw[c]) # "running"
    BY <1>3, <2>1, <2>3 DEF StartDecide
  <2> QED
    BY <2>2, <2>3
<1>4. ASSUME NEW c \in Client, StartRaises(c) PROVE IngestTypeOK'
  BY <1>4 DEF StartRaises
<1>5. ASSUME NEW c \in Client, NEW t \in Task, StartSpawn(c, t) PROVE IngestTypeOK'
  BY <1>5 DEF StartSpawn
<1>6. ASSUME NEW c \in Client, NEW t \in Task, StartFails(c, t) PROVE IngestTypeOK'
  BY <1>6 DEF StartFails
<1>7. ASSUME NEW c \in Client, HandlerReads(c) PROVE IngestTypeOK'
  BY <1>7 DEF HandlerReads
<1>8. ASSUME NEW c \in Client, HandlerJudges(c) PROVE IngestTypeOK'
  BY <1>8 DEF HandlerJudges
<1>9. ASSUME NEW c \in Client, GetIdle(c) PROVE IngestTypeOK'
  BY <1>9 DEF GetIdle
<1>10. ASSUME NEW c \in Client, GetEnter(c) PROVE IngestTypeOK'
  BY <1>10 DEF GetEnter
<1>11. ASSUME NEW t \in Task, WorkerSeeds(t) PROVE IngestTypeOK'
  BY <1>11 DEF WorkerSeeds
<1>12. ASSUME NEW t \in Task, WorkerLoadFails(t) PROVE IngestTypeOK'
  BY <1>12 DEF WorkerLoadFails
<1>13. ASSUME NEW t \in Task, WorkerOpens(t) PROVE IngestTypeOK'
  BY <1>13 DEF WorkerOpens
<1>14. ASSUME NEW t \in Task, FileSkipped(t) PROVE IngestTypeOK'
  <2>1. done[t] + 1 \in 0..NFiles /\ chunks[t] + 1 \in 0..NFiles /\ done[t] + 1 \in Files
    BY <1>14 DEF FileSkipped, File, Next1, Files
  <2>2. /\ done' = [done EXCEPT ![t] = done[t] + 1]
        /\ bare' = [bare EXCEPT ![t] = @ \cup {done[t] + 1}]
        /\ UNCHANGED <<handle, holder, phase, raw, resp, reloads, resets,
                       worker, verdict, rep, tmp, file, chunks, store>>
    BY <1>14 DEF FileSkipped, File, Next1
  <2> QED
    BY <2>1, <2>2
<1>15. ASSUME NEW t \in Task, FileStored(t) PROVE IngestTypeOK'
  <2>1. done[t] + 1 \in 0..NFiles /\ chunks[t] + 1 \in 0..NFiles /\ done[t] + 1 \in Files
    BY <1>15 DEF FileStored, File, Next1, Files
  <2>2. /\ done' = [done EXCEPT ![t] = done[t] + 1]
        /\ chunks' = [chunks EXCEPT ![t] = chunks[t] + 1]
        /\ store' = store \cup {done[t] + 1}
        /\ UNCHANGED <<handle, holder, phase, raw, resp, reloads, resets,
                       worker, verdict, rep, tmp, file, bare>>
    BY <1>15 DEF FileStored, File, Next1
  <2> QED
    BY <2>1, <2>2
<1>16. ASSUME NEW t \in Task, FileRecovered(t) PROVE IngestTypeOK'
  <2>1. done[t] + 1 \in 0..NFiles /\ chunks[t] + 1 \in 0..NFiles /\ done[t] + 1 \in Files
    BY <1>16 DEF FileRecovered, File, Next1, Files
  <2>2. /\ done' = [done EXCEPT ![t] = done[t] + 1]
        /\ chunks' = [chunks EXCEPT ![t] = chunks[t] + 1]
        /\ store' = {done[t] + 1}
        /\ UNCHANGED <<handle, holder, phase, raw, resp, reloads, resets,
                       worker, verdict, rep, tmp, file, bare>>
    BY <1>16 DEF FileRecovered, File, Next1
  <2> QED
    BY <2>1, <2>2
<1>17. ASSUME NEW t \in Task, FileFails(t) PROVE IngestTypeOK'
  BY <1>17 DEF FileFails
<1>18. ASSUME NEW t \in Task, IngestEnds(t) PROVE IngestTypeOK'
  BY <1>18 DEF IngestEnds
<1>19. ASSUME NEW t \in Task, WorkerJoins(t) PROVE IngestTypeOK'
  BY <1>19 DEF WorkerJoins
<1>20. ASSUME NEW t \in Task, WorkerWrites(t) PROVE IngestTypeOK'
  BY <1>20 DEF WorkerWrites
<1>21. ASSUME NEW t \in Task, WorkerReplaces(t) PROVE IngestTypeOK'
  BY <1>21 DEF WorkerReplaces
<1>22. ASSUME NEW t \in Task, WorkerFlushFails(t) PROVE IngestTypeOK'
  BY <1>22 DEF WorkerFlushFails
<1>23. ASSUME NEW t \in Task, WorkerExits(t) PROVE IngestTypeOK'
  BY <1>23 DEF WorkerExits
<1>24. ASSUME NEW t \in Task, WorkerDies(t) PROVE IngestTypeOK'
  BY <1>24 DEF WorkerDies
<1>25. ASSUME NEW t \in Task, RepTicks(t) PROVE IngestTypeOK'
  BY <1>25 DEF RepTicks
<1>26. ASSUME NEW t \in Task, RepWrites(t) PROVE IngestTypeOK'
  BY <1>26 DEF RepWrites
<1>27. ASSUME NEW t \in Task, RepReplaces(t) PROVE IngestTypeOK'
  BY <1>27 DEF RepReplaces
<1>28. CASE BackendReload
  BY <1>28 DEF BackendReload
<1>29. CASE ResetStore
  BY <1>29 DEF ResetStore
<1>30. CASE UNCHANGED ingestVars
  BY <1>30 DEF ingestVars, parent, main
<1> QED
  BY <1>1, <1>2, <1>3, <1>4, <1>5, <1>6, <1>7, <1>8, <1>9, <1>10, <1>11, <1>12, <1>13, <1>14,
     <1>15, <1>16, <1>17, <1>18, <1>19, <1>20, <1>21, <1>22, <1>23, <1>24, <1>25, <1>26,
     <1>27, <1>28, <1>29, <1>30
     DEF IngestNext, Start, Get, Respond, Worker, Reporter, Client

(* And the rest of the invariant: who is in a handler holds the lock, and  *)
(* a run's temporary file, reporter and counts are of its own worker.      *)
LEMMA IngestInvStep ==
  ASSUME IngestInv, IngestTypeOK', [IngestNext]_ingestVars
  PROVE  LockOk' /\ HandlerOk' /\ TaskOk'
<1> USE SizesAssumption, NoFileAssumption, NullsAssumption DEF IngestInv, IngestTypeOK, LockOk, HandlerOk, TaskOk, Enter,
      ReadStatus, Reply, ClientGoto, WorkerSame, ParentSame, WorkerGoto, RepGoto, WorkerEnds, File,
      Next1, Replace, parent, main, Judged, Initial, Failed, Status, State, NoAnswer, Final
<1>1. ASSUME NEW c \in Client, StartEnter(c) PROVE LockOk' /\ HandlerOk' /\ TaskOk'
  <2>1. \A e \in Client : phase[e] = "idle"
    BY <1>1 DEF StartEnter, Client
  <2> QED
    BY <1>1, <2>1 DEF StartEnter
<1>2. ASSUME NEW c \in Client, StartLook(c) PROVE LockOk' /\ HandlerOk' /\ TaskOk'
  BY <1>2 DEF StartLook
<1>3. ASSUME NEW c \in Client, StartDecide(c) PROVE LockOk' /\ HandlerOk' /\ TaskOk'
  <2>1. handle \in Task /\ raw[c] \in State
    BY <1>3 DEF StartDecide
  <2>2. CASE Judged(handle, raw[c]) = "running"
    <3>1. /\ phase[c] = "decide" /\ holder' = NoClient /\ phase' = [phase EXCEPT ![c] = "idle"]
          /\ raw' = [raw EXCEPT ![c] = "none"]
          /\ resp' = [resp EXCEPT ![c] = [task |-> handle, state |-> "running"]]
          /\ UNCHANGED <<handle, file, worker, done, chunks, verdict, bare, rep, tmp, store,
                         reloads, resets>>
      BY <1>3, <2>2 DEF StartDecide
    <3> QED
      BY <2>1, <3>1
  <2>3. CASE Judged(handle, raw[c]) # "running"
    BY <1>3, <2>1, <2>3 DEF StartDecide
  <2> QED
    BY <2>2, <2>3
<1>4. ASSUME NEW c \in Client, StartRaises(c) PROVE LockOk' /\ HandlerOk' /\ TaskOk'
  BY <1>4 DEF StartRaises
<1>5. ASSUME NEW c \in Client, NEW t \in Task, StartSpawn(c, t) PROVE LockOk' /\ HandlerOk' /\ TaskOk'
  BY <1>5 DEF StartSpawn
<1>6. ASSUME NEW c \in Client, NEW t \in Task, StartFails(c, t) PROVE LockOk' /\ HandlerOk' /\ TaskOk'
  BY <1>6 DEF StartFails
<1>7. ASSUME NEW c \in Client, HandlerReads(c) PROVE LockOk' /\ HandlerOk' /\ TaskOk'
  BY <1>7 DEF HandlerReads
<1>8. ASSUME NEW c \in Client, HandlerJudges(c) PROVE LockOk' /\ HandlerOk' /\ TaskOk'
  BY <1>8 DEF HandlerJudges
<1>9. ASSUME NEW c \in Client, GetIdle(c) PROVE LockOk' /\ HandlerOk' /\ TaskOk'
  BY <1>9 DEF GetIdle
<1>10. ASSUME NEW c \in Client, GetEnter(c) PROVE LockOk' /\ HandlerOk' /\ TaskOk'
  <2>1. \A e \in Client : phase[e] = "idle"
    BY <1>10 DEF GetEnter, Client
  <2> QED
    BY <1>10, <2>1 DEF GetEnter
<1>11. ASSUME NEW t \in Task, WorkerSeeds(t) PROVE LockOk' /\ HandlerOk' /\ TaskOk'
  BY <1>11 DEF WorkerSeeds
<1>12. ASSUME NEW t \in Task, WorkerLoadFails(t) PROVE LockOk' /\ HandlerOk' /\ TaskOk'
  BY <1>12 DEF WorkerLoadFails
<1>13. ASSUME NEW t \in Task, WorkerOpens(t) PROVE LockOk' /\ HandlerOk' /\ TaskOk'
  BY <1>13 DEF WorkerOpens
<1>14. ASSUME NEW t \in Task, FileSkipped(t) PROVE LockOk' /\ HandlerOk' /\ TaskOk'
  BY <1>14 DEF FileSkipped
<1>15. ASSUME NEW t \in Task, FileStored(t) PROVE LockOk' /\ HandlerOk' /\ TaskOk'
  BY <1>15 DEF FileStored
<1>16. ASSUME NEW t \in Task, FileRecovered(t) PROVE LockOk' /\ HandlerOk' /\ TaskOk'
  BY <1>16 DEF FileRecovered
<1>17. ASSUME NEW t \in Task, FileFails(t) PROVE LockOk' /\ HandlerOk' /\ TaskOk'
  BY <1>17 DEF FileFails
<1>18. ASSUME NEW t \in Task, IngestEnds(t) PROVE LockOk' /\ HandlerOk' /\ TaskOk'
  BY <1>18 DEF IngestEnds
<1>19. ASSUME NEW t \in Task, WorkerJoins(t) PROVE LockOk' /\ HandlerOk' /\ TaskOk'
  BY <1>19 DEF WorkerJoins
<1>20. ASSUME NEW t \in Task, WorkerWrites(t) PROVE LockOk' /\ HandlerOk' /\ TaskOk'
  BY <1>20 DEF WorkerWrites
<1>21. ASSUME NEW t \in Task, WorkerReplaces(t) PROVE LockOk' /\ HandlerOk' /\ TaskOk'
  BY <1>21 DEF WorkerReplaces
<1>22. ASSUME NEW t \in Task, WorkerFlushFails(t) PROVE LockOk' /\ HandlerOk' /\ TaskOk'
  BY <1>22 DEF WorkerFlushFails
<1>23. ASSUME NEW t \in Task, WorkerExits(t) PROVE LockOk' /\ HandlerOk' /\ TaskOk'
  BY <1>23 DEF WorkerExits
<1>24. ASSUME NEW t \in Task, WorkerDies(t) PROVE LockOk' /\ HandlerOk' /\ TaskOk'
  BY <1>24 DEF WorkerDies
<1>25. ASSUME NEW t \in Task, RepTicks(t) PROVE LockOk' /\ HandlerOk' /\ TaskOk'
  BY <1>25 DEF RepTicks
<1>26. ASSUME NEW t \in Task, RepWrites(t) PROVE LockOk' /\ HandlerOk' /\ TaskOk'
  BY <1>26 DEF RepWrites
<1>27. ASSUME NEW t \in Task, RepReplaces(t) PROVE LockOk' /\ HandlerOk' /\ TaskOk'
  BY <1>27 DEF RepReplaces
<1>28. CASE BackendReload
  BY <1>28 DEF BackendReload
<1>29. CASE ResetStore
  BY <1>29 DEF ResetStore
<1>30. CASE UNCHANGED ingestVars
  BY <1>30 DEF ingestVars, parent, main
<1> QED
  BY <1>1, <1>2, <1>3, <1>4, <1>5, <1>6, <1>7, <1>8, <1>9, <1>10, <1>11, <1>12, <1>13, <1>14,
     <1>15, <1>16, <1>17, <1>18, <1>19, <1>20, <1>21, <1>22, <1>23, <1>24, <1>25, <1>26,
     <1>27, <1>28, <1>29, <1>30
     DEF IngestNext, Start, Get, Respond, Worker, Reporter, Client

(* Without a reload the backend has the handle of the worker that writes,  *)
(* so that what it is about to start is the only one.                      *)
LEMMA WriterStep ==
  ASSUME IngestInv, IngestInv', WriterInv, MaxReloads = 0, [IngestNext]_ingestVars
  PROVE  WriterInv'
<1> USE SizesAssumption, NoFileAssumption, NullsAssumption DEF IngestInv, IngestTypeOK, LockOk, HandlerOk, TaskOk, Enter,
      ReadStatus, Reply, ClientGoto, WorkerSame, ParentSame, WorkerGoto, RepGoto, WorkerEnds, File,
      Next1, WriterInv, Writing, Exited, Replace, parent, main, Judged, Initial, Failed, Status, State, NoAnswer, Final
<1>1. ASSUME NEW c \in Client, StartEnter(c) PROVE WriterInv'
  BY <1>1 DEF StartEnter
<1>2. ASSUME NEW c \in Client, StartLook(c) PROVE WriterInv'
  BY <1>2 DEF StartLook
<1>3. ASSUME NEW c \in Client, StartDecide(c) PROVE WriterInv'
  BY <1>3 DEF StartDecide
<1>4. ASSUME NEW c \in Client, StartRaises(c) PROVE WriterInv'
  BY <1>4 DEF StartRaises
<1>5. ASSUME NEW c \in Client, NEW t \in Task, StartSpawn(c, t) PROVE WriterInv'
  BY <1>5 DEF StartSpawn
<1>6. ASSUME NEW c \in Client, NEW t \in Task, StartFails(c, t) PROVE WriterInv'
  BY <1>6 DEF StartFails
<1>7. ASSUME NEW c \in Client, HandlerReads(c) PROVE WriterInv'
  BY <1>7 DEF HandlerReads
<1>8. ASSUME NEW c \in Client, HandlerJudges(c) PROVE WriterInv'
  BY <1>8 DEF HandlerJudges
<1>9. ASSUME NEW c \in Client, GetIdle(c) PROVE WriterInv'
  BY <1>9 DEF GetIdle
<1>10. ASSUME NEW c \in Client, GetEnter(c) PROVE WriterInv'
  BY <1>10 DEF GetEnter
<1>11. ASSUME NEW t \in Task, WorkerSeeds(t) PROVE WriterInv'
  BY <1>11 DEF WorkerSeeds
<1>12. ASSUME NEW t \in Task, WorkerLoadFails(t) PROVE WriterInv'
  BY <1>12 DEF WorkerLoadFails
<1>13. ASSUME NEW t \in Task, WorkerOpens(t) PROVE WriterInv'
  BY <1>13 DEF WorkerOpens
<1>14. ASSUME NEW t \in Task, FileSkipped(t) PROVE WriterInv'
  BY <1>14 DEF FileSkipped
<1>15. ASSUME NEW t \in Task, FileStored(t) PROVE WriterInv'
  BY <1>15 DEF FileStored
<1>16. ASSUME NEW t \in Task, FileRecovered(t) PROVE WriterInv'
  BY <1>16 DEF FileRecovered
<1>17. ASSUME NEW t \in Task, FileFails(t) PROVE WriterInv'
  BY <1>17 DEF FileFails
<1>18. ASSUME NEW t \in Task, IngestEnds(t) PROVE WriterInv'
  BY <1>18 DEF IngestEnds
<1>19. ASSUME NEW t \in Task, WorkerJoins(t) PROVE WriterInv'
  BY <1>19 DEF WorkerJoins
<1>20. ASSUME NEW t \in Task, WorkerWrites(t) PROVE WriterInv'
  BY <1>20 DEF WorkerWrites
<1>21. ASSUME NEW t \in Task, WorkerReplaces(t) PROVE WriterInv'
  BY <1>21 DEF WorkerReplaces
<1>22. ASSUME NEW t \in Task, WorkerFlushFails(t) PROVE WriterInv'
  BY <1>22 DEF WorkerFlushFails
<1>23. ASSUME NEW t \in Task, WorkerExits(t) PROVE WriterInv'
  BY <1>23 DEF WorkerExits
<1>24. ASSUME NEW t \in Task, WorkerDies(t) PROVE WriterInv'
  BY <1>24 DEF WorkerDies
<1>25. ASSUME NEW t \in Task, RepTicks(t) PROVE WriterInv'
  BY <1>25 DEF RepTicks
<1>26. ASSUME NEW t \in Task, RepWrites(t) PROVE WriterInv'
  BY <1>26 DEF RepWrites
<1>27. ASSUME NEW t \in Task, RepReplaces(t) PROVE WriterInv'
  BY <1>27 DEF RepReplaces
<1>28. CASE BackendReload
  BY <1>28 DEF BackendReload
<1>29. CASE ResetStore
  BY <1>29 DEF ResetStore
<1>30. CASE UNCHANGED ingestVars
  BY <1>30 DEF ingestVars, parent, main
<1> QED
  BY <1>1, <1>2, <1>3, <1>4, <1>5, <1>6, <1>7, <1>8, <1>9, <1>10, <1>11, <1>12, <1>13, <1>14,
     <1>15, <1>16, <1>17, <1>18, <1>19, <1>20, <1>21, <1>22, <1>23, <1>24, <1>25, <1>26,
     <1>27, <1>28, <1>29, <1>30
     DEF IngestNext, Start, Get, Respond, Worker, Reporter, Client

(* A reporter that is waited for does not outlive the reading of files.    *)
LEMMA ReporterStep ==
  ASSUME IngestInv, IngestInv', ReporterInv, ~MayStall, [IngestNext]_ingestVars
  PROVE  ReporterInv'
<1> USE SizesAssumption, NoFileAssumption, NullsAssumption DEF IngestInv, IngestTypeOK, LockOk, HandlerOk, TaskOk, Enter,
      ReadStatus, Reply, ClientGoto, WorkerSame, ParentSame, WorkerGoto, RepGoto, WorkerEnds, File,
      Next1, ReporterInv, Running, Continues, Replace, parent, main, Judged, Initial, Failed, Status, State, NoAnswer, Final
<1>1. ASSUME NEW c \in Client, StartEnter(c) PROVE ReporterInv'
  BY <1>1 DEF StartEnter
<1>2. ASSUME NEW c \in Client, StartLook(c) PROVE ReporterInv'
  BY <1>2 DEF StartLook
<1>3. ASSUME NEW c \in Client, StartDecide(c) PROVE ReporterInv'
  BY <1>3 DEF StartDecide
<1>4. ASSUME NEW c \in Client, StartRaises(c) PROVE ReporterInv'
  BY <1>4 DEF StartRaises
<1>5. ASSUME NEW c \in Client, NEW t \in Task, StartSpawn(c, t) PROVE ReporterInv'
  BY <1>5 DEF StartSpawn
<1>6. ASSUME NEW c \in Client, NEW t \in Task, StartFails(c, t) PROVE ReporterInv'
  BY <1>6 DEF StartFails
<1>7. ASSUME NEW c \in Client, HandlerReads(c) PROVE ReporterInv'
  BY <1>7 DEF HandlerReads
<1>8. ASSUME NEW c \in Client, HandlerJudges(c) PROVE ReporterInv'
  BY <1>8 DEF HandlerJudges
<1>9. ASSUME NEW c \in Client, GetIdle(c) PROVE ReporterInv'
  BY <1>9 DEF GetIdle
<1>10. ASSUME NEW c \in Client, GetEnter(c) PROVE ReporterInv'
  BY <1>10 DEF GetEnter
<1>11. ASSUME NEW t \in Task, WorkerSeeds(t) PROVE ReporterInv'
  BY <1>11 DEF WorkerSeeds
<1>12. ASSUME NEW t \in Task, WorkerLoadFails(t) PROVE ReporterInv'
  BY <1>12 DEF WorkerLoadFails
<1>13. ASSUME NEW t \in Task, WorkerOpens(t) PROVE ReporterInv'
  BY <1>13 DEF WorkerOpens
<1>14. ASSUME NEW t \in Task, FileSkipped(t) PROVE ReporterInv'
  BY <1>14 DEF FileSkipped
<1>15. ASSUME NEW t \in Task, FileStored(t) PROVE ReporterInv'
  BY <1>15 DEF FileStored
<1>16. ASSUME NEW t \in Task, FileRecovered(t) PROVE ReporterInv'
  BY <1>16 DEF FileRecovered
<1>17. ASSUME NEW t \in Task, FileFails(t) PROVE ReporterInv'
  BY <1>17 DEF FileFails
<1>18. ASSUME NEW t \in Task, IngestEnds(t) PROVE ReporterInv'
  BY <1>18 DEF IngestEnds
<1>19. ASSUME NEW t \in Task, WorkerJoins(t) PROVE ReporterInv'
  BY <1>19 DEF WorkerJoins
<1>20. ASSUME NEW t \in Task, WorkerWrites(t) PROVE ReporterInv'
  BY <1>20 DEF WorkerWrites
<1>21. ASSUME NEW t \in Task, WorkerReplaces(t) PROVE ReporterInv'
  BY <1>21 DEF WorkerReplaces
<1>22. ASSUME NEW t \in Task, WorkerFlushFails(t) PROVE ReporterInv'
  BY <1>22 DEF WorkerFlushFails
<1>23. ASSUME NEW t \in Task, WorkerExits(t) PROVE ReporterInv'
  BY <1>23 DEF WorkerExits
<1>24. ASSUME NEW t \in Task, WorkerDies(t) PROVE ReporterInv'
  BY <1>24 DEF WorkerDies
<1>25. ASSUME NEW t \in Task, RepTicks(t) PROVE ReporterInv'
  BY <1>25 DEF RepTicks
<1>26. ASSUME NEW t \in Task, RepWrites(t) PROVE ReporterInv'
  BY <1>26 DEF RepWrites
<1>27. ASSUME NEW t \in Task, RepReplaces(t) PROVE ReporterInv'
  BY <1>27 DEF RepReplaces
<1>28. CASE BackendReload
  BY <1>28 DEF BackendReload
<1>29. CASE ResetStore
  BY <1>29 DEF ResetStore
<1>30. CASE UNCHANGED ingestVars
  BY <1>30 DEF ingestVars, parent, main
<1> QED
  BY <1>1, <1>2, <1>3, <1>4, <1>5, <1>6, <1>7, <1>8, <1>9, <1>10, <1>11, <1>12, <1>13, <1>14,
     <1>15, <1>16, <1>17, <1>18, <1>19, <1>20, <1>21, <1>22, <1>23, <1>24, <1>25, <1>26,
     <1>27, <1>28, <1>29, <1>30
     DEF IngestNext, Start, Get, Respond, Worker, Reporter, Client

(* The last file a worker writes says how it ended, and nobody writes      *)
(* after it.                                                               *)
LEMMA ExitStep ==
  ASSUME IngestInv, IngestInv', ReporterInv, ExitInv, ~MayStall, ~MayFail,
         [IngestNext]_ingestVars
  PROVE  ExitInv'
<1> USE SizesAssumption, NoFileAssumption, NullsAssumption DEF IngestInv, IngestTypeOK, LockOk, HandlerOk, TaskOk, Enter,
      ReadStatus, Reply, ClientGoto, WorkerSame, ParentSame, WorkerGoto, RepGoto, WorkerEnds, File,
      Next1, ReporterInv, ExitInv, Running, Continues, Replace, parent, main, Judged, Initial, Failed, Status, State, NoAnswer, Final
<1>1. ASSUME NEW c \in Client, StartEnter(c) PROVE ExitInv'
  BY <1>1 DEF StartEnter
<1>2. ASSUME NEW c \in Client, StartLook(c) PROVE ExitInv'
  BY <1>2 DEF StartLook
<1>3. ASSUME NEW c \in Client, StartDecide(c) PROVE ExitInv'
  BY <1>3 DEF StartDecide
<1>4. ASSUME NEW c \in Client, StartRaises(c) PROVE ExitInv'
  BY <1>4 DEF StartRaises
<1>5. ASSUME NEW c \in Client, NEW t \in Task, StartSpawn(c, t) PROVE ExitInv'
  BY <1>5 DEF StartSpawn
<1>6. ASSUME NEW c \in Client, NEW t \in Task, StartFails(c, t) PROVE ExitInv'
  BY <1>6 DEF StartFails
<1>7. ASSUME NEW c \in Client, HandlerReads(c) PROVE ExitInv'
  BY <1>7 DEF HandlerReads
<1>8. ASSUME NEW c \in Client, HandlerJudges(c) PROVE ExitInv'
  BY <1>8 DEF HandlerJudges
<1>9. ASSUME NEW c \in Client, GetIdle(c) PROVE ExitInv'
  BY <1>9 DEF GetIdle
<1>10. ASSUME NEW c \in Client, GetEnter(c) PROVE ExitInv'
  BY <1>10 DEF GetEnter
<1>11. ASSUME NEW t \in Task, WorkerSeeds(t) PROVE ExitInv'
  BY <1>11 DEF WorkerSeeds
<1>12. ASSUME NEW t \in Task, WorkerLoadFails(t) PROVE ExitInv'
  BY <1>12 DEF WorkerLoadFails
<1>13. ASSUME NEW t \in Task, WorkerOpens(t) PROVE ExitInv'
  BY <1>13 DEF WorkerOpens
<1>14. ASSUME NEW t \in Task, FileSkipped(t) PROVE ExitInv'
  BY <1>14 DEF FileSkipped
<1>15. ASSUME NEW t \in Task, FileStored(t) PROVE ExitInv'
  BY <1>15 DEF FileStored
<1>16. ASSUME NEW t \in Task, FileRecovered(t) PROVE ExitInv'
  BY <1>16 DEF FileRecovered
<1>17. ASSUME NEW t \in Task, FileFails(t) PROVE ExitInv'
  BY <1>17 DEF FileFails
<1>18. ASSUME NEW t \in Task, IngestEnds(t) PROVE ExitInv'
  BY <1>18 DEF IngestEnds
<1>19. ASSUME NEW t \in Task, WorkerJoins(t) PROVE ExitInv'
  BY <1>19 DEF WorkerJoins
<1>20. ASSUME NEW t \in Task, WorkerWrites(t) PROVE ExitInv'
  BY <1>20 DEF WorkerWrites
<1>21. ASSUME NEW t \in Task, WorkerReplaces(t) PROVE ExitInv'
  BY <1>21 DEF WorkerReplaces
<1>22. ASSUME NEW t \in Task, WorkerFlushFails(t) PROVE ExitInv'
  BY <1>22 DEF WorkerFlushFails
<1>23. ASSUME NEW t \in Task, WorkerExits(t) PROVE ExitInv'
  BY <1>23 DEF WorkerExits
<1>24. ASSUME NEW t \in Task, WorkerDies(t) PROVE ExitInv'
  BY <1>24 DEF WorkerDies
<1>25. ASSUME NEW t \in Task, RepTicks(t) PROVE ExitInv'
  BY <1>25 DEF RepTicks
<1>26. ASSUME NEW t \in Task, RepWrites(t) PROVE ExitInv'
  BY <1>26 DEF RepWrites
<1>27. ASSUME NEW t \in Task, RepReplaces(t) PROVE ExitInv'
  BY <1>27 DEF RepReplaces
<1>28. CASE BackendReload
  BY <1>28 DEF BackendReload
<1>29. CASE ResetStore
  BY <1>29 DEF ResetStore
<1>30. CASE UNCHANGED ingestVars
  BY <1>30 DEF ingestVars, parent, main
<1> QED
  BY <1>1, <1>2, <1>3, <1>4, <1>5, <1>6, <1>7, <1>8, <1>9, <1>10, <1>11, <1>12, <1>13, <1>14,
     <1>15, <1>16, <1>17, <1>18, <1>19, <1>20, <1>21, <1>22, <1>23, <1>24, <1>25, <1>26,
     <1>27, <1>28, <1>29, <1>30
     DEF IngestNext, Start, Get, Respond, Worker, Reporter, Client

(* A file is counted after its chunks are stored.                          *)
LEMMA StoredStep ==
  ASSUME IngestInv, IngestInv', StoredInv, ~Recovers, MaxResets = 0,
         [IngestNext]_ingestVars
  PROVE  StoredInv'
<1> USE SizesAssumption, NoFileAssumption, NullsAssumption DEF IngestInv, IngestTypeOK, LockOk, HandlerOk, TaskOk, Enter,
      ReadStatus, Reply, ClientGoto, WorkerSame, ParentSame, WorkerGoto, RepGoto, WorkerEnds, File,
      Next1, StoredInv, Stored, Files, Replace, parent, main, Judged, Initial, Failed, Status, State, NoAnswer, Final
<1>1. ASSUME NEW c \in Client, StartEnter(c) PROVE StoredInv'
  BY <1>1 DEF StartEnter
<1>2. ASSUME NEW c \in Client, StartLook(c) PROVE StoredInv'
  BY <1>2 DEF StartLook
<1>3. ASSUME NEW c \in Client, StartDecide(c) PROVE StoredInv'
  BY <1>3 DEF StartDecide
<1>4. ASSUME NEW c \in Client, StartRaises(c) PROVE StoredInv'
  BY <1>4 DEF StartRaises
<1>5. ASSUME NEW c \in Client, NEW t \in Task, StartSpawn(c, t) PROVE StoredInv'
  BY <1>5 DEF StartSpawn
<1>6. ASSUME NEW c \in Client, NEW t \in Task, StartFails(c, t) PROVE StoredInv'
  BY <1>6 DEF StartFails
<1>7. ASSUME NEW c \in Client, HandlerReads(c) PROVE StoredInv'
  BY <1>7 DEF HandlerReads
<1>8. ASSUME NEW c \in Client, HandlerJudges(c) PROVE StoredInv'
  BY <1>8 DEF HandlerJudges
<1>9. ASSUME NEW c \in Client, GetIdle(c) PROVE StoredInv'
  BY <1>9 DEF GetIdle
<1>10. ASSUME NEW c \in Client, GetEnter(c) PROVE StoredInv'
  BY <1>10 DEF GetEnter
<1>11. ASSUME NEW t \in Task, WorkerSeeds(t) PROVE StoredInv'
  BY <1>11 DEF WorkerSeeds
<1>12. ASSUME NEW t \in Task, WorkerLoadFails(t) PROVE StoredInv'
  BY <1>12 DEF WorkerLoadFails
<1>13. ASSUME NEW t \in Task, WorkerOpens(t) PROVE StoredInv'
  BY <1>13 DEF WorkerOpens
<1>14. ASSUME NEW t \in Task, FileSkipped(t) PROVE StoredInv'
  <2>1. done[t] \in Nat /\ done[t] + 1 <= NFiles
    BY <1>14 DEF FileSkipped, Files
  <2>2. /\ done' = [done EXCEPT ![t] = done[t] + 1]
        /\ bare' = [bare EXCEPT ![t] = @ \cup {done[t] + 1}]
        /\ UNCHANGED <<verdict, tmp, file, store>>
    BY <1>14 DEF FileSkipped
  <2>3. 1..(done[t] + 1) \subseteq (1..done[t]) \cup {done[t] + 1}
    BY <2>1
  <2>4. \A s \in Task : verdict'[s] = "succeeded" => done'[s] = NFiles
    BY <2>1, <2>2
  <2>5. \A s \in Task : bare[s] \subseteq bare'[s] /\ store \subseteq store'
    BY <2>2
  <2>6. \A s \in Task : (1..done'[s]) \ bare'[s] \subseteq store'
    <3> SUFFICES ASSUME NEW s \in Task PROVE (1..done'[s]) \ bare'[s] \subseteq store'
      OBVIOUS
    <3>1. CASE s = t
      BY <2>2, <2>3, <3>1
    <3>2. CASE s # t
      BY <2>2, <3>2
    <3> QED
      BY <3>1, <3>2
  <2> QED
    BY <2>2, <2>4, <2>5, <2>6
<1>15. ASSUME NEW t \in Task, FileStored(t) PROVE StoredInv'
  <2>1. done[t] \in Nat /\ done[t] + 1 <= NFiles
    BY <1>15 DEF FileStored, Files
  <2>2. /\ done' = [done EXCEPT ![t] = done[t] + 1]
        /\ store' = store \cup {done[t] + 1}
        /\ UNCHANGED <<verdict, tmp, file, bare>>
    BY <1>15 DEF FileStored
  <2>3. 1..(done[t] + 1) \subseteq (1..done[t]) \cup {done[t] + 1}
    BY <2>1
  <2>4. \A s \in Task : verdict'[s] = "succeeded" => done'[s] = NFiles
    BY <2>1, <2>2
  <2>5. \A s \in Task : bare[s] \subseteq bare'[s] /\ store \subseteq store'
    BY <2>2
  <2>6. \A s \in Task : (1..done'[s]) \ bare'[s] \subseteq store'
    <3> SUFFICES ASSUME NEW s \in Task PROVE (1..done'[s]) \ bare'[s] \subseteq store'
      OBVIOUS
    <3>1. CASE s = t
      BY <2>2, <2>3, <3>1
    <3>2. CASE s # t
      BY <2>2, <3>2
    <3> QED
      BY <3>1, <3>2
  <2> QED
    BY <2>2, <2>4, <2>5, <2>6
<1>16. ASSUME NEW t \in Task, FileRecovered(t) PROVE StoredInv'
  BY <1>16 DEF FileRecovered
<1>17. ASSUME NEW t \in Task, FileFails(t) PROVE StoredInv'
  BY <1>17 DEF FileFails
<1>18. ASSUME NEW t \in Task, IngestEnds(t) PROVE StoredInv'
  BY <1>18 DEF IngestEnds
<1>19. ASSUME NEW t \in Task, WorkerJoins(t) PROVE StoredInv'
  BY <1>19 DEF WorkerJoins
<1>20. ASSUME NEW t \in Task, WorkerWrites(t) PROVE StoredInv'
  BY <1>20 DEF WorkerWrites
<1>21. ASSUME NEW t \in Task, WorkerReplaces(t) PROVE StoredInv'
  BY <1>21 DEF WorkerReplaces
<1>22. ASSUME NEW t \in Task, WorkerFlushFails(t) PROVE StoredInv'
  BY <1>22 DEF WorkerFlushFails
<1>23. ASSUME NEW t \in Task, WorkerExits(t) PROVE StoredInv'
  BY <1>23 DEF WorkerExits
<1>24. ASSUME NEW t \in Task, WorkerDies(t) PROVE StoredInv'
  BY <1>24 DEF WorkerDies
<1>25. ASSUME NEW t \in Task, RepTicks(t) PROVE StoredInv'
  BY <1>25 DEF RepTicks
<1>26. ASSUME NEW t \in Task, RepWrites(t) PROVE StoredInv'
  BY <1>26 DEF RepWrites
<1>27. ASSUME NEW t \in Task, RepReplaces(t) PROVE StoredInv'
  BY <1>27 DEF RepReplaces
<1>28. CASE BackendReload
  BY <1>28 DEF BackendReload
<1>29. CASE ResetStore
  BY <1>29 DEF ResetStore
<1>30. CASE UNCHANGED ingestVars
  BY <1>30 DEF ingestVars, parent, main
<1> QED
  BY <1>1, <1>2, <1>3, <1>4, <1>5, <1>6, <1>7, <1>8, <1>9, <1>10, <1>11, <1>12, <1>13, <1>14,
     <1>15, <1>16, <1>17, <1>18, <1>19, <1>20, <1>21, <1>22, <1>23, <1>24, <1>25, <1>26,
     <1>27, <1>28, <1>29, <1>30
     DEF IngestNext, Start, Get, Respond, Worker, Reporter, Client

LEMMA IngestInvariant == IngestSpec => []IngestInv
<1>1. IngestInit => IngestInv
  BY SizesAssumption
     DEF IngestInit, IngestInv, IngestTypeOK, LockOk, HandlerOk, TaskOk, NoAnswer, State
<1>2. IngestInv /\ [IngestNext]_ingestVars => IngestInv'
  BY IngestTypeStep, IngestInvStep DEF IngestInv
<1> QED
  BY <1>1, <1>2, PTL DEF IngestSpec

\* The state has its types.
THEOREM IngestTypes == IngestSpec => []IngestTypeOK
<1>1. IngestInv => IngestTypeOK
  BY DEF IngestInv
<1> QED
  BY <1>1, IngestInvariant, PTL

\* As long as the backend is not replaced, no worker is started while another
\* may write to the vector store, whoever asks for it, and when.
THEOREM OneWriterAtATime ==
  ASSUME MaxReloads = 0
  PROVE  IngestSpec => []OneWriter
<1>1. IngestInit => WriterInv
  BY DEF IngestInit, WriterInv, Writing
<1>2. IngestInv /\ IngestInv' /\ WriterInv /\ [IngestNext]_ingestVars => WriterInv'
  BY WriterStep
<1>3. WriterInv => OneWriter
  BY DEF WriterInv, OneWriter
<1> QED
  BY <1>1, <1>2, <1>3, IngestInvariant, PTL DEF IngestSpec

\* The writer of the vector store as a slot for one process.  A worker that is
\* past its last upsert has left it, though it lives on to report.
WriterSlot ==
  INSTANCE SingleProcess
    WITH Proc <- Task, live <- Writing,
         spawned <- {t \in Task : worker[t] \notin {"unborn", "nospawn"}}

LEMMA WriterSlotNext ==
  ASSUME IngestInv, WriterInv, MaxReloads = 0, [IngestNext]_ingestVars
  PROVE  [WriterSlot!Next]_(WriterSlot!vars)
<1> USE DEF IngestInv, IngestTypeOK, WorkerGoto, Writing
<1> DEFINE Spawned == {t \in Task : worker[t] \notin {"unborn", "nospawn"}}
<1>1. ASSUME NEW c \in Client, NEW t \in Task, StartSpawn(c, t)
      PROVE  WriterSlot!Spawn(t)
  <2>1. Writing \subseteq {handle} /\ handle \notin Writing
    BY <1>1 DEF StartSpawn, WriterInv
  <2>2. Writing' = Writing \cup {t}
    BY <1>1 DEF StartSpawn
  <2>3. Spawned' = Spawned \cup {t} /\ t \notin Spawned
    BY <1>1 DEF StartSpawn
  <2> QED
    BY <2>1, <2>2, <2>3 DEF WriterSlot!Spawn
<1>2. ASSUME NEW c \in Client, NEW t \in Task, StartFails(c, t)
      PROVE  UNCHANGED WriterSlot!vars
  BY <1>2 DEF StartFails, WriterSlot!vars
<1>3. ASSUME NEW t \in Task, Worker(t) \/ WorkerDies(t)
      PROVE  WriterSlot!Die(t) \/ UNCHANGED WriterSlot!vars
  <2>1. /\ worker[t] \notin {"unborn", "nospawn"}
        /\ \E how \in {"load", "ingest", "join", "write", "replace", "exit", "gone", "dead"} :
             worker' = [worker EXCEPT ![t] = how]
        /\ worker[t] \notin {"seed", "load", "ingest"} =>
             worker'[t] \notin {"seed", "load", "ingest"}
    BY <1>3
    DEF Worker, WorkerSeeds, WorkerLoadFails, WorkerOpens, FileSkipped, FileStored,
        FileRecovered, File, FileFails, IngestEnds, WorkerJoins, WorkerWrites,
        WorkerReplaces, WorkerFlushFails, WorkerExits, WorkerDies, WorkerEnds
  <2>2. Spawned' = Spawned
    BY <2>1
  <2>3. Writing' = Writing \/ (Writing' = Writing \ {t} /\ t \in Writing)
    BY <2>1
  <2> QED
    BY <2>2, <2>3 DEF WriterSlot!Die, WriterSlot!vars
<1>4. (\E c \in Client, t \in Task : StartSpawn(c, t) \/ StartFails(c, t))
      \/ (\E t \in Task : Worker(t) \/ WorkerDies(t)) \/ UNCHANGED worker
  BY SizesAssumption
  DEF IngestNext, Start, Get, Respond, Reporter, Client, StartEnter, StartLook,
      StartDecide, StartRaises, GetIdle, GetEnter, HandlerReads, HandlerJudges,
      ReadStatus, WorkerSame, main, RepTicks, RepWrites, RepReplaces,
      BackendReload, ResetStore, ingestVars
<1>5. UNCHANGED worker => UNCHANGED WriterSlot!vars
  BY DEF WriterSlot!vars
<1> QED
  <2>1. (\E t \in Task : WriterSlot!Spawn(t) \/ WriterSlot!Die(t))
        \/ UNCHANGED WriterSlot!vars
    BY <1>1, <1>2, <1>3, <1>4, <1>5, Zenon
  <2> QED
    BY <2>1, Zenon DEF WriterSlot!Next

\* The lock that start_ingest_task holds from its check to its Popen makes the
\* backend a slot for one writer, for any number of clients: what two starts of
\* a loop or of vLLM may do to each other, two starts of an ingest may not.
THEOREM IngestImplementsSlot ==
  ASSUME MaxReloads = 0
  PROVE  IngestSpec => WriterSlot!Spec
<1>1. IngestInit => WriterSlot!Init
  BY DEF IngestInit, WriterSlot!Init, Writing
<1>2. IngestInit => WriterInv
  BY DEF IngestInit, WriterInv, Writing
<1>3. IngestInv /\ IngestInv' /\ WriterInv /\ [IngestNext]_ingestVars => WriterInv'
  BY WriterStep
<1>4. IngestInv /\ WriterInv /\ [IngestNext]_ingestVars
        => [WriterSlot!Next]_(WriterSlot!vars)
  BY WriterSlotNext
<1> QED
  BY <1>1, <1>2, <1>3, <1>4, IngestInvariant, PTL DEF IngestSpec, WriterSlot!Spec

LEMMA ReporterInvariant ==
  ASSUME ~MayStall
  PROVE  IngestSpec => []ReporterInv
<1>1. IngestInit => ReporterInv
  BY DEF IngestInit, ReporterInv, Running
<1>2. IngestInv /\ IngestInv' /\ ReporterInv /\ [IngestNext]_ingestVars => ReporterInv'
  BY ReporterStep
<1> QED
  BY <1>1, <1>2, IngestInvariant, PTL DEF IngestSpec

\* What a step may do to the status file of a run.
Monotone ==
  \A t \in Task :
    file[t] # NoFile =>
      /\ file[t].state # "running" => file'[t] = file[t]
      /\ file'[t].state = "running" => /\ file'[t].done >= file[t].done
                                       /\ file'[t].chunks >= file[t].chunks

LEMMA MonotoneStep ==
  ASSUME IngestInv, ReporterInv, [IngestNext]_ingestVars
  PROVE  Monotone
<1> USE SizesAssumption, NoFileAssumption, NullsAssumption DEF IngestInv, IngestTypeOK, LockOk, HandlerOk, TaskOk, Enter,
      ReadStatus, Reply, ClientGoto, WorkerSame, ParentSame, WorkerGoto, RepGoto, WorkerEnds, File,
      Next1, ReporterInv, Monotone, Running, Continues, Replace, parent, main, Judged, Initial, Failed, Status, State, NoAnswer, Final
<1>1. ASSUME NEW c \in Client, StartEnter(c) PROVE Monotone
  BY <1>1 DEF StartEnter
<1>2. ASSUME NEW c \in Client, StartLook(c) PROVE Monotone
  BY <1>2 DEF StartLook
<1>3. ASSUME NEW c \in Client, StartDecide(c) PROVE Monotone
  BY <1>3 DEF StartDecide
<1>4. ASSUME NEW c \in Client, StartRaises(c) PROVE Monotone
  BY <1>4 DEF StartRaises
<1>5. ASSUME NEW c \in Client, NEW t \in Task, StartSpawn(c, t) PROVE Monotone
  BY <1>5 DEF StartSpawn
<1>6. ASSUME NEW c \in Client, NEW t \in Task, StartFails(c, t) PROVE Monotone
  BY <1>6 DEF StartFails
<1>7. ASSUME NEW c \in Client, HandlerReads(c) PROVE Monotone
  BY <1>7 DEF HandlerReads
<1>8. ASSUME NEW c \in Client, HandlerJudges(c) PROVE Monotone
  BY <1>8 DEF HandlerJudges
<1>9. ASSUME NEW c \in Client, GetIdle(c) PROVE Monotone
  BY <1>9 DEF GetIdle
<1>10. ASSUME NEW c \in Client, GetEnter(c) PROVE Monotone
  BY <1>10 DEF GetEnter
<1>11. ASSUME NEW t \in Task, WorkerSeeds(t) PROVE Monotone
  BY <1>11 DEF WorkerSeeds
<1>12. ASSUME NEW t \in Task, WorkerLoadFails(t) PROVE Monotone
  BY <1>12 DEF WorkerLoadFails
<1>13. ASSUME NEW t \in Task, WorkerOpens(t) PROVE Monotone
  BY <1>13 DEF WorkerOpens
<1>14. ASSUME NEW t \in Task, FileSkipped(t) PROVE Monotone
  BY <1>14 DEF FileSkipped
<1>15. ASSUME NEW t \in Task, FileStored(t) PROVE Monotone
  BY <1>15 DEF FileStored
<1>16. ASSUME NEW t \in Task, FileRecovered(t) PROVE Monotone
  BY <1>16 DEF FileRecovered
<1>17. ASSUME NEW t \in Task, FileFails(t) PROVE Monotone
  BY <1>17 DEF FileFails
<1>18. ASSUME NEW t \in Task, IngestEnds(t) PROVE Monotone
  BY <1>18 DEF IngestEnds
<1>19. ASSUME NEW t \in Task, WorkerJoins(t) PROVE Monotone
  BY <1>19 DEF WorkerJoins
<1>20. ASSUME NEW t \in Task, WorkerWrites(t) PROVE Monotone
  BY <1>20 DEF WorkerWrites
<1>21. ASSUME NEW t \in Task, WorkerReplaces(t) PROVE Monotone
  BY <1>21 DEF WorkerReplaces
<1>22. ASSUME NEW t \in Task, WorkerFlushFails(t) PROVE Monotone
  BY <1>22 DEF WorkerFlushFails
<1>23. ASSUME NEW t \in Task, WorkerExits(t) PROVE Monotone
  BY <1>23 DEF WorkerExits
<1>24. ASSUME NEW t \in Task, WorkerDies(t) PROVE Monotone
  BY <1>24 DEF WorkerDies
<1>25. ASSUME NEW t \in Task, RepTicks(t) PROVE Monotone
  BY <1>25 DEF RepTicks
<1>26. ASSUME NEW t \in Task, RepWrites(t) PROVE Monotone
  BY <1>26 DEF RepWrites
<1>27. ASSUME NEW t \in Task, RepReplaces(t) PROVE Monotone
  BY <1>27 DEF RepReplaces
<1>28. CASE BackendReload
  BY <1>28 DEF BackendReload
<1>29. CASE ResetStore
  BY <1>29 DEF ResetStore
<1>30. CASE UNCHANGED ingestVars
  BY <1>30 DEF ingestVars, parent, main
<1> QED
  BY <1>1, <1>2, <1>3, <1>4, <1>5, <1>6, <1>7, <1>8, <1>9, <1>10, <1>11, <1>12, <1>13, <1>14,
     <1>15, <1>16, <1>17, <1>18, <1>19, <1>20, <1>21, <1>22, <1>23, <1>24, <1>25, <1>26,
     <1>27, <1>28, <1>29, <1>30
     DEF IngestNext, Start, Get, Respond, Worker, Reporter, Client

\* As long as the reporter ends when its thread is joined, a status file that
\* says how the run ended is never written again, and one that does not never
\* counts back, though two threads write it.
THEOREM StatusIsMonotone ==
  ASSUME ~MayStall
  PROVE  IngestSpec => StatusMonotone
<1>1. IngestInv /\ ReporterInv /\ [IngestNext]_ingestVars => [Monotone]_ingestVars
  BY MonotoneStep
<1> QED
  BY <1>1, IngestInvariant, ReporterInvariant, PTL DEF IngestSpec, StatusMonotone, Monotone

\* If the last write does not fail, either, a worker that has exited by itself
\* has said how its run ended.
THEOREM ExitIsTerminal ==
  ASSUME ~MayStall, ~MayFail
  PROVE  IngestSpec => []ExitMeansTerminal
<1>1. IngestInit => ExitInv
  BY DEF IngestInit, ExitInv
<1>2. IngestInv /\ IngestInv' /\ ReporterInv /\ ExitInv /\ [IngestNext]_ingestVars => ExitInv'
  BY ExitStep
<1>3. ExitInv => ExitMeansTerminal
  BY DEF ExitInv, ExitMeansTerminal
<1> QED
  BY <1>1, <1>2, <1>3, IngestInvariant, ReporterInvariant, PTL DEF IngestSpec

\* As long as nobody wipes the store, a run whose status file says that it
\* succeeded has put into it what every file of the corpus has.
THEOREM SuccessIsStored ==
  ASSUME ~Recovers, MaxResets = 0
  PROVE  IngestSpec => []SuccessMeansStored
<1>1. IngestInit => StoredInv
  BY SizesAssumption DEF IngestInit, StoredInv
<1>2. IngestInv /\ IngestInv' /\ StoredInv /\ [IngestNext]_ingestVars => StoredInv'
  BY StoredStep
<1>3. StoredInv => SuccessMeansStored
  BY DEF StoredInv, Stored, SuccessMeansStored
<1> QED
  BY <1>1, <1>2, <1>3, IngestInvariant, PTL DEF IngestSpec
=============================================================================
