----------------------------- MODULE RunMemory -----------------------------
(* What workers remember of runs and retrieve from earlier ones: the memory  *)
(* tables, the calls that the steps of a run send one after another without  *)
(* waiting for answers, and the copies of memory_embedding that workers      *)
(* read.  A learn step writes one document, one chunk and one embedding      *)
(* under ids made of the run's; here the run stands for all three.           *)
EXTENDS Naturals, Sequences, FiniteSets

CONSTANTS
  Runs,
  Workers,
  Agents,
  AgentOf,        \* the agent of each run, with its memory namespace
  MaxRetrieved,   \* learning_policy.max_retrieved_chunks
  MaxExecutions,  \* bound: steps executed
  NONE

ASSUME MemoryAssumption ==
  /\ AgentOf \in [Runs -> Agents]
  /\ MaxRetrieved \in Nat /\ MaxExecutions \in Nat
  /\ IsFiniteSet(Workers)

VARIABLES
  memory_document,   \* runs whose document is there
  memory_chunk,      \* runs whose chunk is there
  memory_embedding,  \* runs whose embedding is there
  memory_note,       \* notes appended for each run
  retrieval_trace,   \* the chunks last retrieved for each run, or NONE
  completions,       \* completions of each run's learn step
  pipe,              \* calls of each worker not carried out yet, oldest first
  cache,             \* each worker's copy of memory_embedding
  lost,              \* runs whose learning was in the pipe of a worker that died
  executions         \* steps executed so far

tables ==
  <<memory_document, memory_chunk, memory_embedding, memory_note, retrieval_trace,
    completions>>
vars == <<tables, pipe, cache, lost, executions>>

Kinds == {"trace", "complete", "document", "chunk", "embedding", "note"}

Calls == [kind : Kinds, run : Runs, chunks : SUBSET Runs]

Call(kind, r) == [kind |-> kind, run |-> r, chunks |-> {}]

Init ==
  /\ memory_document = {}
  /\ memory_chunk = {}
  /\ memory_embedding = {}
  /\ memory_note = [r \in Runs |-> 0]
  /\ retrieval_trace = [r \in Runs |-> NONE]
  /\ completions = [r \in Runs |-> 0]
  /\ pipe = [w \in Workers |-> <<>>]
  /\ cache = [w \in Workers |-> {}]
  /\ lost = {}
  /\ executions = 0
-----------------------------------------------------------------------------
(* Steps of workers.  Which worker may execute which step is the business of *)
(* RunnerProtocol; here any may at any time, a step more than once, which    *)
(* its claims and its start-up scan between them do not exclude.             *)

\* Slip: looks in the memory of every agent.
CandidatesOfAll(w, r) == cache[w]

\* The embeddings that record_retrieval scores.
Candidates(w, r) == {c \in cache[w] : AgentOf[c] = AgentOf[r]}

\* The best of them, as many as allowed; vectors are left out, so any may be.
Selected(w, r) ==
  {chosen \in SUBSET Candidates(w, r) :
     /\ Cardinality(chosen) <= MaxRetrieved
     /\ Cardinality(chosen) < MaxRetrieved => chosen = Candidates(w, r)}

\* Nothing found leaves no trace.
record_retrieval(r, chosen) ==
  IF chosen = {} THEN <<>>
  ELSE <<[kind |-> "trace", run |-> r, chunks |-> chosen]>>

\* Slips of persist_learning.
embed_first(r) ==
  <<Call("embedding", r), Call("document", r), Call("chunk", r), Call("note", r)>>

embed_never(r) == <<Call("document", r), Call("chunk", r), Call("note", r)>>

note_twice(r) ==
  <<Call("document", r), Call("chunk", r), Call("embedding", r),
    Call("note", r), Call("note", r)>>

persist_learning(r) ==
  <<Call("document", r), Call("chunk", r), Call("embedding", r), Call("note", r)>>

Send(w, sent) ==
  /\ executions < MaxExecutions
  /\ executions' = executions + 1
  /\ pipe' = [pipe EXCEPT ![w] = @ \o sent]
  /\ UNCHANGED <<tables, cache, lost>>

\* A step before the last, for what it does to the memory.
Gather(w, r) ==
  \E chosen \in Selected(w, r) : Send(w, record_retrieval(r, chosen))

\* The learn step: retrieve, complete, remember.
Learn(w, r) ==
  \E chosen \in Selected(w, r) :
    Send(w, record_retrieval(r, chosen) \o <<Call("complete", r)>> \o persist_learning(r))

(* The reducers, each for the calls of its kind; ids are the run's, so that an *)
(* upsert sent twice changes nothing the second time.                        *)

Upserted(table, kind, call) ==
  IF call.kind = kind THEN table \cup {call.run} ELSE table

Counted(counter, kind, call) ==
  IF call.kind = kind THEN [counter EXCEPT ![call.run] = @ + 1] ELSE counter

upsert_memory_document(call) ==
  memory_document' = Upserted(memory_document, "document", call)

upsert_memory_chunk(call) == memory_chunk' = Upserted(memory_chunk, "chunk", call)

upsert_memory_embedding(call) ==
  memory_embedding' = Upserted(memory_embedding, "embedding", call)

\* A note has an id of its own every time.
append_learning_note(call) == memory_note' = Counted(memory_note, "note", call)

complete_workflow_step(call) == completions' = Counted(completions, "complete", call)

record_retrieval_trace(call) ==
  retrieval_trace' = IF call.kind = "trace"
                     THEN [retrieval_trace EXCEPT ![call.run] = call.chunks]
                     ELSE retrieval_trace

\* The database carries out the oldest call of a connection.
Commit(w) ==
  /\ pipe[w] # <<>>
  /\ LET call == Head(pipe[w]) IN
       /\ upsert_memory_document(call)
       /\ upsert_memory_chunk(call)
       /\ upsert_memory_embedding(call)
       /\ append_learning_note(call)
       /\ complete_workflow_step(call)
       /\ record_retrieval_trace(call)
  /\ pipe' = [pipe EXCEPT ![w] = Tail(@)]
  /\ UNCHANGED <<cache, lost, executions>>

\* Notifications bring the worker's copy up to date.
Notify(w) ==
  /\ cache[w] # memory_embedding
  /\ cache' = [cache EXCEPT ![w] = memory_embedding]
  /\ UNCHANGED <<tables, pipe, lost, executions>>

\* The worker dies with calls in its pipe and comes back with a fresh copy.
Restart(w) ==
  /\ pipe' = [pipe EXCEPT ![w] = <<>>]
  /\ lost' = lost \cup {r \in Runs :
                          \E i \in DOMAIN pipe[w] : pipe[w][i] = Call("embedding", r)}
  /\ cache' = [cache EXCEPT ![w] = memory_embedding]
  /\ UNCHANGED <<tables, executions>>

Next ==
  \E w \in Workers :
    \/ \E r \in Runs : Gather(w, r) \/ Learn(w, r)
    \/ Commit(w) \/ Notify(w) \/ Restart(w)

Spec == Init /\ [][Next]_vars

\* The connection of a worker that lives carries its calls.
FairSpec == Spec /\ \A w \in Workers : WF_vars(Commit(w))
-----------------------------------------------------------------------------
(* Properties.                                                             *)

\* Every variable has its type.
TypeOK ==
  /\ memory_document \subseteq Runs
  /\ memory_chunk \subseteq Runs
  /\ memory_embedding \subseteq Runs
  /\ memory_note \in [Runs -> Nat]
  /\ retrieval_trace \in [Runs -> (SUBSET Runs) \cup {NONE}]
  /\ completions \in [Runs -> Nat]
  /\ pipe \in [Workers -> Seq(Calls)]
  /\ cache \in [Workers -> SUBSET Runs]
  /\ lost \subseteq Runs
  /\ executions \in Nat

\* An embedding leads to its chunk and a chunk to its document, wherever a
\* worker died in the middle of persist_learning and whoever else writes.
EmbeddingsResolve ==
  /\ memory_embedding \subseteq memory_chunk
  /\ memory_chunk \subseteq memory_document

\* What a run retrieved from a copy of the memory is there for whoever follows
\* the trace, and is its own agent's.
RetrievedIsThere ==
  \A r \in Runs :
    retrieval_trace[r] # NONE =>
      \A c \in retrieval_trace[r] :
        c \in memory_chunk \cap memory_document /\ AgentOf[c] = AgentOf[r]

\* Executed twice or cut off, a run leaves no more notes than completions.
NotesNeedCompletions == \A r \in Runs : memory_note[r] <= completions[r]

\* What a completed run learned can be retrieved in the end, unless the worker
\* that sent it died.
LearnedIsRemembered ==
  \A r \in Runs :
    completions[r] > 0 ~> (r \in memory_embedding \/ r \in lost)
=============================================================================
