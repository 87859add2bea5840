---------------------------- MODULE VectorStore ----------------------------
(***************************************************************************)
(* pipeline/adapters: the vector store as the processes use it.  Writers   *)
(* are ingest workers, which keep one adapter for a whole run; readers are *)
(* the reads of the backend, each of them an adapter in a process of its   *)
(* own (scripts/query_worker.py) where the store is Chroma.                *)
(* Chroma's store is a directory that every process opens by itself, and   *)
(* that one which cannot read it wipes.  The others are servers, and there *)
(* the adapter creates the collection before the first write.              *)
(* What the client libraries and the servers do is external, and taken as  *)
(* the adapters expect it: each choice of theirs is a choice here.         *)
(***************************************************************************)
EXTENDS Naturals, FiniteSets, Sequences

CONSTANTS
  Chunk, Writer, Reader,
  None,         \* no answer
  BatchSize,    \* of Pinecone's upserts
  MaxStores,    \* bound: how often the store is created
  MaxCalls,     \* bound: how many calls there are
  MaxFaults     \* bound: resets, damage, errors of the store or the network

ASSUME ProcAssumption == Writer \cap Reader = {}
ASSUME BoundsAssumption == {BatchSize, MaxStores, MaxCalls, MaxFaults} \subseteq Nat

VARIABLES
  adapter,   \* vector_db.adapter
  tables,    \* the store: there is none, it is being made, ready, or torn
  data,      \* what each store that there ever was holds, the last is on disk
  client,    \* the store that each process has open; 0: none
  pc,
  todo,      \* what a writer's upsert has still to write
  items,     \* what it was called with
  tried,     \* where in its call it has recovered last
  answer,    \* of each reader's last call
  seen,      \* history: what the store held during it
  acked,     \* history: the chunks whose upsert returned
  calm,      \* history: nobody reset the store, it took no damage, no server
             \* dropped an object, nobody opened it while it was made, and
             \* no error of a healthy store read like that of a broken one
  misled,    \* history: the readers that took a failure for an answer
  calls, faults

proc == <<client, pc, todo, items, tried, answer>>
vars == <<adapter, tables, data, proc, seen, acked, calm, misled, calls, faults>>

Proc    == Writer \cup Reader
Servers == {"qdrant", "pgvector", "weaviate", "pinecone"}
Store   == Len(data)
Current == IF tables = "ready" THEN data[Store] ELSE {}

StoreType ==
  /\ adapter \in Servers \cup {"chroma"}
  /\ tables \in {"none", "making", "ready", "torn"}
  /\ data \in Seq(SUBSET Chunk)
  /\ tables \in {"making", "ready"} => data # <<>>

ProcType ==
  /\ client \in [Proc -> Nat]
  /\ \A p \in Proc : client[p] <= Store
  /\ pc \in [Proc -> {"idle", "open", "create", "op", "wipe"}]
  /\ todo \in [Writer -> SUBSET Chunk]
  /\ items \in [Writer -> SUBSET Chunk]
  /\ tried \in [Proc -> {"no", "open", "op", "count"}]
  /\ answer \in [Reader -> (SUBSET Chunk) \cup {None}]

HistoryType ==
  /\ acked \in SUBSET Chunk
  /\ calm \in BOOLEAN
  /\ misled \in SUBSET Reader

TypeOK ==
  /\ StoreType /\ ProcType /\ HistoryType
  /\ seen \in [Reader -> SUBSET SUBSET Chunk]

Init ==
  /\ adapter \in Servers \cup {"chroma"}
  /\ tables = "none"
  /\ data = <<>>
  /\ client = [p \in Proc |-> 0]
  /\ pc = [p \in Proc |-> "idle"]
  /\ todo = [w \in Writer |-> {}]
  /\ items = [w \in Writer |-> {}]
  /\ tried = [p \in Proc |-> "no"]
  /\ answer = [r \in Reader |-> None]
  /\ seen = [r \in Reader |-> {}]
  /\ acked = {}
  /\ calm = TRUE
  /\ misled = {}
  /\ calls = 0
  /\ faults = 0
-----------------------------------------------------------------------------
Goto(p, where) == pc' = [pc EXCEPT ![p] = where]

Answer(r, chunks) == answer' = [answer EXCEPT ![r] = chunks]

\* A query that has failed only counts: an empty store has no hits, and with any
\* other it raises.
Answers(r, chunks) ==
  Answer(r, IF tried[r] = "count" /\ chunks # {} THEN None ELSE chunks)

Fault == faults < MaxFaults /\ faults' = faults + 1

\* A worker opens the store when it starts, a query worker for its one read.
CallUpsert(w) ==
  /\ pc[w] = "idle"
  /\ calls < MaxCalls
  /\ calls' = calls + 1
  /\ items' \in {[items EXCEPT ![w] = s] : s \in (SUBSET Chunk) \ {{}}}
  /\ todo' = items'
  /\ tried' = [tried EXCEPT ![w] = "no"]
  /\ Goto(w, IF client[w] = 0 THEN "open" ELSE "op")
  /\ UNCHANGED <<adapter, misled, tables, data, client, answer, acked, calm, faults>>

CallRead(r) ==
  /\ pc[r] = "idle"
  /\ calls < MaxCalls
  /\ calls' = calls + 1
  /\ Answer(r, None)
  /\ misled' = misled \ {r}
  /\ tried' = [tried EXCEPT ![r] = "no"]
  /\ Goto(r, IF client[r] = 0 THEN "open" ELSE "op")
  /\ UNCHANGED <<adapter, tables, data, client, todo, items, acked, calm, faults>>

\* Mutation: the reader keeps what it has opened.
ReturnKeeps(p) == Goto(p, "idle") /\ UNCHANGED client

\* A call returns or raises: a reader's process is gone.
Return(p) ==
  /\ Goto(p, "idle")
  /\ client' = IF p \in Reader THEN [client EXCEPT ![p] = 0] ELSE client

\* The corpus list takes an error of its read, which only Chroma's adapter
\* has, for the answer that nothing is ingested.
Fails(p) ==
  /\ Return(p)
  /\ \/ UNCHANGED <<answer, misled>>
     \/ /\ adapter = "chroma" /\ p \in Reader
        /\ Answer(p, {})
        /\ misled' = misled \cup {p}

-----------------------------------------------------------------------------
(* Chroma.                                                                 *)

\* An error with a marker: __init__ and _with_recovery recover, each of them
\* once; count_by_path has no recovery around its read.  A query that recovered
\* in vain counts, and that count recovers once more.
MayRecover(p) == tried[p] = "no" \/ (tried[p] = "open" /\ pc[p] = "op")

MayCount(p) == p \in Reader /\ pc[p] = "op" /\ tried[p] = "op"

Marked(p) ==
  /\ \/ /\ MayRecover(p)
        /\ tried' = [tried EXCEPT ![p] = IF pc[p] = "op" THEN "op" ELSE "open"]
        /\ Goto(p, "wipe")
        /\ UNCHANGED <<client, answer, misled>>
     \/ /\ MayCount(p)
        /\ tried' = [tried EXCEPT ![p] = "count"]
        /\ Goto(p, "wipe")
        /\ UNCHANGED <<client, answer, misled>>
     \/ /\ MayRecover(p) => (p \in Reader /\ pc[p] = "op")
        /\ Fails(p)
        /\ UNCHANGED tried
  /\ UNCHANGED <<tables, data>>

\* _connect
Open(p) ==
  /\ adapter = "chroma"
  /\ pc[p] = "open"
  /\ \/ /\ tables = "ready"
        /\ client' = [client EXCEPT ![p] = Store]
        /\ Goto(p, "op")
        /\ UNCHANGED <<tables, data, calm, tried, answer, misled>>
     \/ /\ tables = "none"
        /\ Store < MaxStores
        /\ tables' = "making"
        /\ data' = Append(data, {})
        /\ client' = [client EXCEPT ![p] = Store + 1]
        /\ Goto(p, "create")
        /\ UNCHANGED <<calm, tried, answer, misled>>
     \/ /\ tables \in {"making", "torn"}
        /\ calm' = FALSE
        /\ Marked(p)
  /\ UNCHANGED <<adapter, todo, items, acked, calls, faults>>

\* The tables of a new store, unless somebody has wiped it.
Create(p) ==
  /\ adapter = "chroma"
  /\ pc[p] = "create"
  /\ \/ /\ tables = "making" /\ client[p] = Store
        /\ tables' = "ready"
        /\ Goto(p, "op")
        /\ UNCHANGED <<data, client, tried, answer, misled>>
     \/ ~(tables = "making" /\ client[p] = Store) /\ Marked(p)
  /\ UNCHANGED <<adapter, todo, items, acked, calm, calls, faults>>

Healthy(p) == tables = "ready" /\ client[p] = Store

\* _recover: the store is wiped, whatever is in it and whoever has it open.
Wipe(p) ==
  /\ pc[p] = "wipe"
  /\ tables' = "none"
  /\ client' = [client EXCEPT ![p] = 0]
  /\ Goto(p, "open")
  /\ UNCHANGED <<adapter, misled, data, todo, items, tried, answer, acked, calm, calls, faults>>

\* The store under the client is gone or torn: an error with a marker, or,
\* for a reader, what its file, deleted but open, still holds.
OpOnGone(p) ==
  /\ adapter = "chroma"
  /\ pc[p] = "op"
  /\ ~Healthy(p)
  /\ p \in Writer => todo[p] # {}
  /\ \/ Marked(p)
     \/ /\ p \in Reader
        /\ Answers(p, data[client[p]])
        /\ Return(p)
        /\ UNCHANGED <<tables, data, tried, misled>>
  /\ UNCHANGED <<adapter, todo, items, acked, calm, calls, faults>>

\* The markers are words of any error: a healthy store that has no file handle
\* left, or whose index is being written, reads like a broken one.
HealthyMarked(p) ==
  /\ adapter = "chroma"
  /\ \/ pc[p] = "open" /\ tables = "ready"
     \/ pc[p] = "op" /\ Healthy(p) /\ (p \in Writer => todo[p] # {})
  /\ Fault
  /\ calm' = FALSE
  /\ Marked(p)
  /\ UNCHANGED <<adapter, todo, items, acked, calls>>

\* The endpoint removes the directory, file by file; the backend has no client.
ResetBegins ==
  /\ adapter = "chroma"
  /\ tables \in {"making", "ready"}
  /\ Fault
  /\ tables' = "torn"
  /\ calm' = FALSE
  /\ UNCHANGED <<adapter, misled, data, proc, acked, calls>>

ResetEnds ==
  /\ tables = "torn"
  /\ tables' = "none"
  /\ UNCHANGED <<adapter, misled, data, proc, acked, calm, calls, faults>>

-----------------------------------------------------------------------------
(* The servers.                                                            *)

\* The constructor asks whether the collection exists; Pinecone's asks later.
Connect(p) ==
  /\ adapter \in Servers
  /\ pc[p] = "open"
  /\ client' = [client EXCEPT ![p] = IF adapter = "pinecone" THEN 0 ELSE Store]
  /\ Goto(p, "op")
  /\ UNCHANGED <<adapter, misled, tables, data, todo, items, tried, answer, acked, calm, calls, faults>>

\* pgvector's _table_exists and, for a read, Pinecone's _get_index_if_exists
\* take an error for the answer that there is none.
ProbeFails(p) ==
  /\ \/ adapter = "pgvector" /\ pc[p] = "open"
     \/ adapter = "pinecone" /\ pc[p] = "op" /\ p \in Reader
  /\ Fault
  /\ misled' = misled \cup ({p} \cap Reader)
  /\ \/ /\ adapter = "pgvector"
        /\ Goto(p, "op")
        /\ UNCHANGED <<client, answer>>
     \/ /\ adapter = "pinecone"
        /\ Answer(p, {})
        /\ Return(p)
  /\ UNCHANGED <<adapter, tables, data, todo, items, tried, acked, calm, calls>>

\* Before a write that needs the collection, the adapter asks again, ...
Ensure(w) ==
  /\ adapter \in Servers
  /\ pc[w] = "op"
  /\ client[w] = 0
  /\ client' = [client EXCEPT ![w] = Store]
  /\ Goto(w, IF Store = 0 THEN "create" ELSE "op")
  /\ UNCHANGED <<adapter, misled, tables, data, todo, items, tried, answer, acked, calm, calls, faults>>

\* ... and creates it.  When somebody else has done so in the meantime, only
\* pgvector's IF NOT EXISTS does not raise.
CreateCollection(w) ==
  /\ adapter \in Servers
  /\ pc[w] = "create"
  /\ \/ /\ Store = 0
        /\ tables' = "ready"
        /\ data' = <<{}>>
        /\ client' = [client EXCEPT ![w] = 1]
        /\ Goto(w, "op")
     \/ /\ Store = 1
        /\ UNCHANGED <<tables, data>>
        /\ IF adapter = "pgvector"
           THEN client' = [client EXCEPT ![w] = 1] /\ Goto(w, "op")
           ELSE Return(w)
  /\ UNCHANGED <<adapter, misled, todo, items, tried, answer, acked, calm, calls, faults>>

-----------------------------------------------------------------------------
(* What an upsert and a read do.                                           *)

\* What one request writes: Pinecone's adapter sends a batch at a time, and
\* Chroma's and the others everything.
Requests(w) ==
  IF adapter = "pinecone"
  THEN {s \in SUBSET todo[w] : Cardinality(s) = BatchSize
                                 \/ (s = todo[w] /\ Cardinality(s) < BatchSize)}
  ELSE {todo[w]}

Write(w) ==
  /\ pc[w] = "op"
  /\ Healthy(w)
  /\ todo[w] # {}
  /\ \E s \in Requests(w) :
       /\ data' = [data EXCEPT ![Store] = @ \cup s]
       /\ todo' = [todo EXCEPT ![w] = @ \ s]
  /\ UNCHANGED <<adapter, misled, tables, client, pc, items, tried, answer, acked, calm, calls, faults>>

\* insert_many reports the objects that it could not store in its result,
\* which the adapter does not look at.
WriteDrops(w) ==
  /\ adapter = "weaviate"
  /\ pc[w] = "op"
  /\ Healthy(w)
  /\ Fault
  /\ \E s \in SUBSET todo[w] :
       /\ s # todo[w]
       /\ data' = [data EXCEPT ![Store] = @ \cup s]
  /\ todo' = [todo EXCEPT ![w] = {}]
  /\ calm' = FALSE
  /\ UNCHANGED <<adapter, misled, tables, client, pc, items, tried, answer, acked, calls>>

Acknowledge(w) ==
  /\ pc[w] = "op"
  /\ todo[w] = {}
  /\ acked' = acked \cup items[w]
  /\ Return(w)
  /\ UNCHANGED <<adapter, misled, tables, data, todo, items, tried, answer, calm, calls, faults>>

\* A read of a collection that there is not, or was not, has no hits.
Read(r) ==
  /\ pc[r] = "op"
  /\ \/ Healthy(r)
     \/ adapter \in Servers
  /\ Answers(r, IF client[r] = Store \/ adapter = "pinecone" THEN Current ELSE {})
  /\ Return(r)
  /\ UNCHANGED <<adapter, misled, tables, data, todo, items, tried, acked, calm, calls, faults>>

\* Mutation: every error is taken for a store that cannot be read.
AnyErrorRecovers(p) ==
  /\ pc[p] = "op"
  /\ Fault
  /\ IF adapter = "chroma" /\ MayRecover(p) THEN Goto(p, "wipe") /\ UNCHANGED client ELSE Return(p)
  /\ UNCHANGED <<adapter, misled, tables, data, todo, items, tried, answer, acked, calm, calls>>

\* Any other error, as of a locked database or of the network, is raised; only
\* Chroma's vector_query then answers that an empty store has no hits.
Raises(p) ==
  /\ pc[p] \in {"open", "op"}
  /\ Fault
  /\ \/ Fails(p)
     \/ /\ adapter = "chroma" /\ p \in Reader /\ pc[p] = "op"
        /\ Current = {}
        /\ Answer(p, {})
        /\ Return(p)
        /\ UNCHANGED misled
  /\ UNCHANGED <<adapter, tables, data, todo, items, tried, acked, calm, calls>>

\* What the store holds while a reader's call lasts.
Watch ==
  seen' = [r \in Reader |-> IF pc[r] = "idle" /\ pc'[r] = "idle" THEN seen[r]
                            ELSE IF pc[r] = "idle" THEN {Current'}
                            ELSE seen[r] \cup {Current'}]

Step ==
  \/ \E w \in Writer : \/ CallUpsert(w) \/ Ensure(w) \/ CreateCollection(w)
                       \/ Write(w) \/ WriteDrops(w) \/ Acknowledge(w)
  \/ \E r \in Reader : CallRead(r) \/ Read(r)
  \/ \E p \in Proc : \/ Open(p) \/ Create(p) \/ OpOnGone(p) \/ HealthyMarked(p) \/ Wipe(p)
                     \/ Connect(p) \/ ProbeFails(p) \/ Raises(p)
  \/ ResetBegins \/ ResetEnds

Next == Step /\ Watch

Spec == Init /\ [][Next]_vars
-----------------------------------------------------------------------------
(* Properties.                                                             *)

\* "Insert or replace items" (base.py:45): the chunks of an upsert that has
\* returned are in the store and stay there, whichever calls of others fail or
\* recover, as long as nobody meets the store while it is made or removed, and
\* no error of it is mistaken for that.
UpsertedKept == calm => acked \subseteq Current

\* A read of the backend never answers what the store held before the call,
\* or will hold: "because the long-running uvicorn's in-memory chroma client
\* cannot see chunks the ingest worker wrote" (query_worker.py:154), unless a
\* failure has told it that there is no collection, or nothing ingested.
FreshRead == \A r \in Reader \ misled : answer[r] # None => answer[r] \in seen[r]
=============================================================================
