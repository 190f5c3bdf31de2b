-------------------------- MODULE RunMemoryProofs --------------------------
(* For every number of runs, workers and executions: the tables of RunMemory *)
(* have their types, every embedding leads to its chunk and document, every  *)
(* trace to chunks of its own agent, and no run has more notes than          *)
(* completions.                                                              *)
EXTENDS RunMemory, FiniteSetTheorems, TLAPS

\* Call i of a pipe rests on what tables D, C and E hold once the calls before
\* it are carried out.
Founded(s, i, D, C, E) ==
  /\ s[i].kind = "chunk" =>
       s[i].run \in D \/ \E j \in 1..(i - 1) : s[j].kind = "document" /\ s[j].run = s[i].run
  /\ s[i].kind = "embedding" =>
       s[i].run \in C \/ \E j \in 1..(i - 1) : s[j].kind = "chunk" /\ s[j].run = s[i].run
  /\ s[i].kind = "trace" =>
       \A c \in s[i].chunks : c \in E /\ AgentOf[c] = AgentOf[s[i].run]

Sound(s, D, C, E) == \A i \in 1..Len(s) : Founded(s, i, D, C, E)

PipesSound ==
  \A w \in Workers : Sound(pipe[w], memory_document, memory_chunk, memory_embedding)

CachesKnown == \A w \in Workers : cache[w] \subseteq memory_embedding

\* RetrievedIsThere needs more than itself: what is still in a pipe or only in a
\* cache must be as good as what is in the tables.
TracesKnown ==
  \A r \in Runs :
    retrieval_trace[r] # NONE =>
      \A c \in retrieval_trace[r] : c \in memory_embedding /\ AgentOf[c] = AgentOf[r]

IInv == TypeOK /\ PipesSound /\ CachesKnown /\ TracesKnown /\ EmbeddingsResolve
-----------------------------------------------------------------------------
\* Tables that grow keep every pipe sound.
LEMMA SoundGrows ==
  ASSUME NEW s \in Seq(Calls), NEW D, NEW C, NEW E, NEW D2, NEW C2, NEW E2,
         D \subseteq D2, C \subseteq C2, E \subseteq E2, Sound(s, D, C, E)
  PROVE  Sound(s, D2, C2, E2)
BY DEF Sound, Founded

\* Two sound pipes make a sound one.
LEMMA SoundJoins ==
  ASSUME NEW s \in Seq(Calls), NEW t \in Seq(Calls), NEW D, NEW C, NEW E,
         Sound(s, D, C, E), Sound(t, D, C, E)
  PROVE  Sound(s \o t, D, C, E)
<1> DEFINE u == s \o t
<1>1. /\ Len(u) = Len(s) + Len(t)
      /\ \A i \in 1..Len(s) : u[i] = s[i]
      /\ \A i \in 1..Len(t) : u[i + Len(s)] = t[i]
      /\ Len(s) \in Nat /\ Len(t) \in Nat
  OBVIOUS
<1>2. ASSUME NEW i \in 1..Len(s) PROVE Founded(u, i, D, C, E)
  <2>1. Founded(s, i, D, C, E)
    BY DEF Sound
  <2>2. \A j \in 1..(i - 1) : u[j] = s[j]
    BY <1>1
  <2> QED BY <1>1, <2>1, <2>2 DEF Founded
<1>3. ASSUME NEW k \in 1..Len(t) PROVE Founded(u, k + Len(s), D, C, E)
  <2>1. Founded(t, k, D, C, E)
    BY DEF Sound
  <2>2. \A j \in 1..(k - 1) : u[j + Len(s)] = t[j] /\ j + Len(s) \in 1..(k + Len(s) - 1)
    BY <1>1
  <2>3. u[k + Len(s)] = t[k]
    BY <1>1
  <2> HIDE DEF u
  <2>4. u[k + Len(s)].kind = "chunk" =>
          \/ u[k + Len(s)].run \in D
          \/ \E j \in 1..(k + Len(s) - 1) :
               u[j].kind = "document" /\ u[j].run = u[k + Len(s)].run
    BY <2>1, <2>2, <2>3 DEF Founded
  <2>5. u[k + Len(s)].kind = "embedding" =>
          \/ u[k + Len(s)].run \in C
          \/ \E j \in 1..(k + Len(s) - 1) :
               u[j].kind = "chunk" /\ u[j].run = u[k + Len(s)].run
    BY <2>1, <2>2, <2>3 DEF Founded
  <2>6. u[k + Len(s)].kind = "trace" =>
          \A c \in u[k + Len(s)].chunks :
            c \in E /\ AgentOf[c] = AgentOf[u[k + Len(s)].run]
    BY <2>1, <2>3 DEF Founded
  <2> QED BY <2>4, <2>5, <2>6 DEF Founded
<1>4. ASSUME NEW i \in 1..Len(u), i \notin 1..Len(s)
      PROVE  i - Len(s) \in 1..Len(t) /\ i = (i - Len(s)) + Len(s)
  BY <1>1, <1>4
<1> HIDE DEF u
<1>5. ASSUME NEW i \in 1..Len(u) PROVE Founded(u, i, D, C, E)
  <2>1. CASE i \in 1..Len(s)
    BY <1>2, <2>1
  <2>2. CASE i \notin 1..Len(s)
    <3> DEFINE k == i - Len(s)
    <3>1. k \in 1..Len(t) /\ i = k + Len(s)
      BY <1>4, <2>2
    <3> HIDE DEF k
    <3>2. Founded(u, k + Len(s), D, C, E)
      BY <1>3, <3>1
    <3> QED BY <3>1, <3>2
  <2> QED BY <2>1, <2>2
<1>6. Sound(u, D, C, E)
  BY <1>5 DEF Sound
<1> QED BY <1>6 DEF u

\* What a head adds to the tables is what the calls behind it may rest on.
LEMMA SoundTail ==
  ASSUME NEW s \in Seq(Calls), s # <<>>, NEW D, NEW C, NEW E, NEW D2, NEW C2, NEW E2,
         D2 = IF Head(s).kind = "document" THEN D \cup {Head(s).run} ELSE D,
         C2 = IF Head(s).kind = "chunk" THEN C \cup {Head(s).run} ELSE C,
         E \subseteq E2, Sound(s, D, C, E)
  PROVE  Sound(Tail(s), D2, C2, E2)
<1> DEFINE t == Tail(s)
<1>1. /\ Len(s) \in Nat /\ Len(t) = Len(s) - 1 /\ Len(s) > 0
      /\ \A i \in 1..Len(t) : t[i] = s[i + 1]
      /\ Head(s) = s[1]
  OBVIOUS
<1> HIDE DEF t
<1>2. ASSUME NEW i \in 1..Len(t) PROVE Founded(t, i, D2, C2, E2)
  <2>1. i + 1 \in 1..Len(s) /\ t[i] = s[i + 1]
    BY <1>1
  <2>2. Founded(s, i + 1, D, C, E)
    BY <2>1 DEF Sound
  <2>3. ASSUME NEW j \in 1..((i + 1) - 1)
        PROVE  j = 1 \/ (j - 1 \in 1..(i - 1) /\ t[j - 1] = s[j])
    BY <1>1
  <2>4. t[i].kind = "chunk" =>
          t[i].run \in D2 \/ \E j \in 1..(i - 1) : t[j].kind = "document" /\ t[j].run = t[i].run
    BY <1>1, <2>1, <2>2, <2>3 DEF Founded
  <2>5. t[i].kind = "embedding" =>
          t[i].run \in C2 \/ \E j \in 1..(i - 1) : t[j].kind = "chunk" /\ t[j].run = t[i].run
    BY <1>1, <2>1, <2>2, <2>3 DEF Founded
  <2>6. t[i].kind = "trace" =>
          \A c \in t[i].chunks : c \in E2 /\ AgentOf[c] = AgentOf[t[i].run]
    BY <2>1, <2>2 DEF Founded
  <2> QED BY <2>4, <2>5, <2>6 DEF Founded
<1>3. Sound(t, D2, C2, E2)
  BY <1>2 DEF Sound
<1> QED BY <1>3 DEF t

\* What persist_learning sends is in the order the tables need.
LEMMA LearningSound ==
  ASSUME NEW r \in Runs, NEW D, NEW C, NEW E
  PROVE  /\ <<Call("complete", r)>> \o persist_learning(r) \in Seq(Calls)
         /\ Sound(<<Call("complete", r)>> \o persist_learning(r), D, C, E)
<1> DEFINE h == <<Call("complete", r)>>
           s == <<Call("document", r), Call("chunk", r), Call("embedding", r), Call("note", r)>>
<1>1. \A k \in Kinds : Call(k, r) \in Calls
  BY DEF Call, Calls
<1>2. h \in Seq(Calls) /\ s \in Seq(Calls)
  BY <1>1 DEF Kinds
<1>3. /\ Len(h) = 1 /\ h[1] = Call("complete", r)
      /\ Len(s) = 4 /\ s[1] = Call("document", r) /\ s[2] = Call("chunk", r)
      /\ s[3] = Call("embedding", r) /\ s[4] = Call("note", r)
  OBVIOUS
<1>4. persist_learning(r) = s
  BY DEF persist_learning
<1> HIDE DEF h, s
<1>5. Sound(h, D, C, E)
  BY <1>3 DEF Sound, Founded, Call
<1>6. ASSUME NEW i \in 1..4 PROVE Founded(s, i, D, C, E)
  <2>1. CASE i \in {1, 4}
    BY <1>3, <2>1 DEF Founded, Call
  <2>2. CASE i = 2
    <3>1. s[i].kind = "chunk" /\ s[1].kind = "document" /\ s[1].run = s[i].run
      BY <1>3, <2>2 DEF Call
    <3>2. 1 \in 1..(i - 1)
      BY <2>2
    <3> QED BY <3>1, <3>2 DEF Founded
  <2>3. CASE i = 3
    <3>1. s[i].kind = "embedding" /\ s[2].kind = "chunk" /\ s[2].run = s[i].run
      BY <1>3, <2>3 DEF Call
    <3>2. 2 \in 1..(i - 1)
      BY <2>3
    <3> QED BY <3>1, <3>2 DEF Founded
  <2> QED BY <2>1, <2>2, <2>3
<1>7. Sound(s, D, C, E)
  BY <1>3, <1>6 DEF Sound
<1>8. h \o s \in Seq(Calls)
  BY <1>2
<1>9. Sound(h \o s, D, C, E)
  BY <1>2, <1>5, <1>7, SoundJoins
<1> QED BY <1>4, <1>8, <1>9 DEF h

\* What record_retrieval sends was read from a copy of the embeddings.
LEMMA RetrievalSound ==
  ASSUME TypeOK, CachesKnown, NEW w \in Workers, NEW r \in Runs,
         NEW chosen \in Selected(w, r), NEW D, NEW C
  PROVE  /\ record_retrieval(r, chosen) \in Seq(Calls)
         /\ Sound(record_retrieval(r, chosen), D, C, memory_embedding)
<1> DEFINE call == [kind |-> "trace", run |-> r, chunks |-> chosen]
<1>1. chosen \subseteq Runs /\ \A c \in chosen : c \in memory_embedding /\ AgentOf[c] = AgentOf[r]
  BY DEF Selected, Candidates, CachesKnown, TypeOK
<1>2. call \in Calls
  BY <1>1 DEF Calls, Kinds
<1>3. CASE chosen = {}
  BY <1>3 DEF record_retrieval, Sound
<1>4. CASE chosen # {}
  <2>1. record_retrieval(r, chosen) = <<call>>
    BY <1>4 DEF record_retrieval
  <2>2. <<call>> \in Seq(Calls) /\ Len(<<call>>) = 1 /\ <<call>>[1] = call
    BY <1>2
  <2>3. call.kind = "trace" /\ call.run = r /\ call.chunks = chosen
    OBVIOUS
  <2> HIDE DEF call
  <2>4. Founded(<<call>>, 1, D, C, memory_embedding)
    BY <1>1, <2>2, <2>3 DEF Founded
  <2> QED BY <2>1, <2>2, <2>4 DEF Sound
<1> QED BY <1>3, <1>4
-----------------------------------------------------------------------------
LEMMA InitIInv == Init => IInv
<1> SUFFICES ASSUME Init PROVE IInv
  OBVIOUS
<1>1. TypeOK
  BY DEF Init, TypeOK
<1>2. \A w \in Workers : pipe[w] = <<>> /\ Len(pipe[w]) = 0
  BY DEF Init
<1>3. PipesSound
  BY <1>2 DEF PipesSound, Sound
<1> QED BY <1>1, <1>3 DEF Init, IInv, CachesKnown, TracesKnown, EmbeddingsResolve

LEMMA SendIInv ==
  ASSUME IInv, NEW w \in Workers, NEW sent \in Seq(Calls), Send(w, sent),
         Sound(sent, memory_document, memory_chunk, memory_embedding)
  PROVE  IInv'
<1> USE DEF IInv
<1>1. pipe[w] \in Seq(Calls) /\ pipe[w] \o sent \in Seq(Calls)
  BY DEF TypeOK
<1>2. TypeOK'
  BY <1>1 DEF TypeOK, Send, tables
<1>3. PipesSound'
  <2> SUFFICES ASSUME NEW v \in Workers
               PROVE  Sound(pipe'[v], memory_document, memory_chunk, memory_embedding)
    BY DEF PipesSound, Send, tables
  <2>1. Sound(pipe[v], memory_document, memory_chunk, memory_embedding)
    BY DEF PipesSound
  <2>2. CASE v # w
    BY <2>1, <2>2 DEF Send, TypeOK
  <2>3. CASE v = w
    <3>1. pipe'[v] = pipe[v] \o sent
      BY <2>3 DEF Send, TypeOK
    <3>2. Sound(pipe[v] \o sent, memory_document, memory_chunk, memory_embedding)
      BY <1>1, <2>1, <2>3, SoundJoins
    <3> QED BY <3>1, <3>2
  <2> QED BY <2>2, <2>3
<1>4. (CachesKnown /\ TracesKnown /\ EmbeddingsResolve)'
  BY DEF CachesKnown, TracesKnown, EmbeddingsResolve, Send, tables
<1> QED BY <1>2, <1>3, <1>4

LEMMA CommitIInv ==
  ASSUME IInv, NEW w \in Workers, Commit(w)
  PROVE  IInv'
<1> USE DEF IInv
<1> DEFINE call == Head(pipe[w])
           r == call.run
<1>1. pipe[w] \in Seq(Calls) /\ pipe[w] # <<>> /\ Len(pipe[w]) \in Nat /\ Len(pipe[w]) > 0
      /\ call = pipe[w][1] /\ Tail(pipe[w]) \in Seq(Calls)
  BY DEF TypeOK, Commit
<1>2. call \in Calls /\ r \in Runs /\ call.chunks \subseteq Runs
  <2>1. \A i \in 1..Len(pipe[w]) : pipe[w][i] \in Calls
    BY <1>1
  <2>2. call \in Calls
    BY <1>1, <2>1
  <2> HIDE DEF call
  <2> QED BY <2>2 DEF Calls
<1>3. /\ memory_document' = IF call.kind = "document" THEN memory_document \cup {r} ELSE memory_document
      /\ memory_chunk' = IF call.kind = "chunk" THEN memory_chunk \cup {r} ELSE memory_chunk
      /\ memory_embedding' = IF call.kind = "embedding" THEN memory_embedding \cup {r} ELSE memory_embedding
      /\ memory_note' = IF call.kind = "note" THEN [memory_note EXCEPT ![r] = @ + 1] ELSE memory_note
      /\ completions' = IF call.kind = "complete" THEN [completions EXCEPT ![r] = @ + 1] ELSE completions
      /\ retrieval_trace' = IF call.kind = "trace" THEN [retrieval_trace EXCEPT ![r] = call.chunks]
                            ELSE retrieval_trace
      /\ pipe' = [pipe EXCEPT ![w] = Tail(pipe[w])]
      /\ UNCHANGED <<cache, lost, executions>>
  BY DEF Commit, Upserted, Counted, upsert_memory_document, upsert_memory_chunk,
         upsert_memory_embedding, append_learning_note, complete_workflow_step,
         record_retrieval_trace
<1>4. Founded(pipe[w], 1, memory_document, memory_chunk, memory_embedding)
  BY <1>1 DEF PipesSound, Sound
<1>5. /\ call.kind = "chunk" => r \in memory_document
      /\ call.kind = "embedding" => r \in memory_chunk
      /\ call.kind = "trace" => \A c \in call.chunks : c \in memory_embedding /\ AgentOf[c] = AgentOf[r]
  BY <1>1, <1>4 DEF Founded
<1> HIDE DEF call
<1>6. TypeOK'
  BY <1>1, <1>2, <1>3 DEF TypeOK
<1>7. PipesSound'
  <2> SUFFICES ASSUME NEW v \in Workers
               PROVE  Sound(pipe'[v], memory_document', memory_chunk', memory_embedding')
    BY DEF PipesSound
  <2>1. Sound(pipe[v], memory_document, memory_chunk, memory_embedding) /\ pipe[v] \in Seq(Calls)
    BY DEF PipesSound, TypeOK
  <2>2. CASE v # w
    <3>1. pipe'[v] = pipe[v]
      BY <1>3, <2>2 DEF TypeOK
    <3>2. memory_document \subseteq memory_document' /\ memory_chunk \subseteq memory_chunk'
          /\ memory_embedding \subseteq memory_embedding'
      BY <1>3
    <3>3. Sound(pipe[v], memory_document', memory_chunk', memory_embedding')
      BY <2>1, <3>2, SoundGrows
    <3> QED BY <3>1, <3>3
  <2>3. CASE v = w
    <3>1. pipe'[v] = Tail(pipe[v])
      BY <1>3, <2>3 DEF TypeOK
    <3>2. memory_embedding \subseteq memory_embedding'
      BY <1>3
    <3>3. Sound(Tail(pipe[v]), memory_document', memory_chunk', memory_embedding')
      BY <1>1, <1>3, <2>1, <2>3, <3>2, SoundTail DEF call
    <3> QED BY <3>1, <3>3
  <2> QED BY <2>2, <2>3
<1>8. CachesKnown'
  BY <1>3 DEF CachesKnown
<1>9. TracesKnown'
  BY <1>2, <1>3, <1>5 DEF TracesKnown, TypeOK
<1>10. EmbeddingsResolve'
  BY <1>3, <1>5 DEF EmbeddingsResolve
<1> QED BY <1>6, <1>7, <1>8, <1>9, <1>10

LEMMA RestartIInv ==
  ASSUME IInv, NEW w \in Workers, Restart(w)
  PROVE  IInv'
<1> USE DEF IInv
<1>1. TypeOK'
  BY DEF TypeOK, Restart, tables
<1>2. PipesSound'
  <2> SUFFICES ASSUME NEW v \in Workers
               PROVE  Sound(pipe'[v], memory_document, memory_chunk, memory_embedding)
    BY DEF PipesSound, Restart, tables
  <2>1. CASE v # w
    BY <2>1 DEF PipesSound, Restart, TypeOK
  <2>2. CASE v = w
    <3>1. Len(pipe'[v]) = 0
      BY <2>2 DEF Restart, TypeOK
    <3> QED BY <3>1 DEF Sound
  <2> QED BY <2>1, <2>2
<1>3. CachesKnown'
  BY DEF CachesKnown, Restart, TypeOK, tables
<1>4. (TracesKnown /\ EmbeddingsResolve)'
  BY DEF TracesKnown, EmbeddingsResolve, Restart, tables
<1> QED BY <1>1, <1>2, <1>3, <1>4

LEMMA NextIInv == IInv /\ [Next]_vars => IInv'
<1> SUFFICES ASSUME IInv, [Next]_vars PROVE IInv'
  OBVIOUS
<1>1. ASSUME NEW w \in Workers, NEW r \in Runs, Gather(w, r) PROVE IInv'
  <2>1. PICK chosen \in Selected(w, r) : Send(w, record_retrieval(r, chosen))
    BY <1>1 DEF Gather
  <2> QED BY <2>1, RetrievalSound, SendIInv DEF IInv
<1>2. ASSUME NEW w \in Workers, NEW r \in Runs, Learn(w, r) PROVE IInv'
  <2> DEFINE learning == <<Call("complete", r)>> \o persist_learning(r)
  <2>1. PICK chosen \in Selected(w, r) :
          Send(w, record_retrieval(r, chosen) \o <<Call("complete", r)>> \o persist_learning(r))
    BY <1>2 DEF Learn
  <2> DEFINE found == record_retrieval(r, chosen)
  <2>2. found \in Seq(Calls) /\ Sound(found, memory_document, memory_chunk, memory_embedding)
    BY RetrievalSound DEF IInv
  <2>3. learning \in Seq(Calls) /\ Sound(learning, memory_document, memory_chunk, memory_embedding)
    BY LearningSound
  <2>4. <<Call("complete", r)>> \in Seq(Calls) /\ persist_learning(r) \in Seq(Calls)
    BY DEF Call, Calls, Kinds, persist_learning
  <2>5. Send(w, found \o learning)
    <3>1. (found \o <<Call("complete", r)>>) \o persist_learning(r) = found \o learning
      BY <2>2, <2>4
    <3> QED BY <2>1, <3>1
  <2> HIDE DEF found, learning
  <2>6. found \o learning \in Seq(Calls)
    BY <2>2, <2>3
  <2>7. Sound(found \o learning, memory_document, memory_chunk, memory_embedding)
    BY <2>2, <2>3, SoundJoins
  <2> QED BY <2>5, <2>6, <2>7, SendIInv
<1>3. ASSUME NEW w \in Workers, Notify(w) PROVE IInv'
  BY <1>3 DEF IInv, Notify, TypeOK, PipesSound, CachesKnown, TracesKnown, EmbeddingsResolve, tables
<1>4. CASE UNCHANGED vars
  BY <1>4 DEF IInv, vars, tables, TypeOK, PipesSound, CachesKnown, TracesKnown, EmbeddingsResolve
<1> QED BY <1>1, <1>2, <1>3, <1>4, CommitIInv, RestartIInv DEF Next

LEMMA Inductive == Spec => []IInv
BY InitIInv, NextIInv, PTL DEF Spec

\* Every variable has its type.
THEOREM TypeCorrect == Spec => []TypeOK
<1>1. IInv => TypeOK
  BY DEF IInv
<1> QED BY <1>1, Inductive, PTL

\* Every embedding leads to its chunk and document (persist_learning), for any
\* number of workers that die at any moment.
THEOREM LearningResolves == Spec => []EmbeddingsResolve
<1>1. IInv => EmbeddingsResolve
  BY DEF IInv
<1> QED BY <1>1, Inductive, PTL

\* Every trace leads to chunks and documents of its own agent
\* (record_retrieval), although retrieval reads a copy of the embeddings.
THEOREM TracesResolve == Spec => []RetrievedIsThere
<1>1. IInv => RetrievedIsThere
  BY DEF IInv, TracesKnown, EmbeddingsResolve, RetrievedIsThere
<1> QED BY <1>1, Inductive, PTL

-----------------------------------------------------------------------------
(* Notes.  A completion is sent before its note on the same connection, so a *)
(* pipe holds at most one note whose completion has left it; the completions *)
(* carried out cover the notes written and those one-per-worker debts.       *)

Is(call, kind, r) == call.kind = kind /\ call.run = r

\* Between two notes of a run there is a completion of it.
Paired(s, r) ==
  \A i, k \in 1..Len(s) :
    i < k /\ Is(s[i], "note", r) /\ Is(s[k], "note", r) =>
      \E m \in (i + 1)..(k - 1) : Is(s[m], "complete", r)

\* A note of the run comes before any completion of it.
Owes(s, r) ==
  \E i \in 1..Len(s) :
    Is(s[i], "note", r) /\ \A m \in 1..(i - 1) : ~Is(s[m], "complete", r)

Owing(r) == {w \in Workers : Owes(pipe[w], r)}

NotesInv ==
  /\ \A w \in Workers, r \in Runs : Paired(pipe[w], r)
  /\ \A r \in Runs : memory_note[r] + Cardinality(Owing(r)) <= completions[r]

LEMMA EmptyOwesNothing ==
  ASSUME NEW s, Len(s) = 0, NEW r
  PROVE  Paired(s, r) /\ ~Owes(s, r)
BY DEF Paired, Owes

\* Calls whose notes follow their completions can be appended to any pipe.
LEMMA OwesJoins ==
  ASSUME NEW s \in Seq(Calls), NEW t \in Seq(Calls), NEW r,
         Paired(s, r), Paired(t, r), ~Owes(t, r)
  PROVE  Paired(s \o t, r) /\ (Owes(s \o t, r) => Owes(s, r))
<1> DEFINE u == s \o t
           n == Len(s)
<1>1. /\ n \in Nat /\ Len(t) \in Nat /\ Len(u) = n + Len(t)
      /\ \A i \in 1..n : u[i] = s[i]
      /\ \A i \in 1..Len(t) : u[i + n] = t[i]
  OBVIOUS
<1>2. ASSUME NEW k \in 1..Len(u), k \notin 1..n
      PROVE  k - n \in 1..Len(t) /\ u[k] = t[k - n]
  <2>1. k - n \in 1..Len(t) /\ k = (k - n) + n
    BY <1>1, <1>2
  <2> QED BY <1>1, <2>1
<1> HIDE DEF u
<1>3. ASSUME NEW k \in 1..Len(u), k \notin 1..n, Is(u[k], "note", r)
      PROVE  \E m \in (n + 1)..(k - 1) : Is(u[m], "complete", r)
  <2>1. k - n \in 1..Len(t) /\ Is(t[k - n], "note", r)
    BY <1>2, <1>3
  <2>2. PICK m \in 1..(k - n - 1) : Is(t[m], "complete", r)
    BY <2>1 DEF Owes
  <2>3. u[m + n] = t[m] /\ m + n \in (n + 1)..(k - 1)
    BY <1>1, <2>1, <2>2
  <2> QED BY <2>2, <2>3
<1> HIDE DEF n
<1>4. Paired(u, r)
  <2> SUFFICES ASSUME NEW i \in 1..Len(u), NEW k \in 1..Len(u), i < k,
                      Is(u[i], "note", r), Is(u[k], "note", r)
               PROVE  \E m \in (i + 1)..(k - 1) : Is(u[m], "complete", r)
    BY DEF Paired
  <2>1. CASE k \in 1..n
    <3>1. i \in 1..n /\ u[i] = s[i] /\ u[k] = s[k]
      BY <1>1, <2>1
    <3>2. PICK m \in (i + 1)..(k - 1) : Is(s[m], "complete", r)
      BY <2>1, <3>1 DEF Paired, n
    <3>3. u[m] = s[m]
      BY <1>1, <2>1, <3>2
    <3> QED BY <3>2, <3>3
  <2>2. CASE k \notin 1..n /\ i \in 1..n
    <3>1. PICK m \in (n + 1)..(k - 1) : Is(u[m], "complete", r)
      BY <1>3, <2>2
    <3> QED BY <1>1, <2>2, <3>1
  <2>3. CASE k \notin 1..n /\ i \notin 1..n
    <3>1. /\ i - n \in 1..Len(t) /\ u[i] = t[i - n]
          /\ k - n \in 1..Len(t) /\ u[k] = t[k - n]
      BY <1>2, <2>3
    <3>2. i - n < k - n
      BY <1>1
    <3>3. PICK m \in (i - n + 1)..(k - n - 1) : Is(t[m], "complete", r)
      BY <3>1, <3>2 DEF Paired
    <3>4. i \in Int /\ k \in Int /\ m \in Int /\ n \in Int
      BY <1>1, <3>3
    <3>5. i - n + 1 <= m /\ m <= k - n - 1
      BY <3>3, <3>4
    <3>6. m \in 1..Len(t) /\ m + n \in (i + 1)..(k - 1)
      BY <1>1, <3>1, <3>4, <3>5
    <3> QED BY <1>1, <3>3, <3>6
  <2> QED BY <2>1, <2>2, <2>3
<1>5. ASSUME Owes(u, r) PROVE Owes(s, r)
  <2>1. PICK k \in 1..Len(u) :
          Is(u[k], "note", r) /\ \A m \in 1..(k - 1) : ~Is(u[m], "complete", r)
    BY <1>5 DEF Owes
  <2>2. k \in 1..n
    <3> SUFFICES ASSUME k \notin 1..n PROVE FALSE
      OBVIOUS
    <3>1. PICK m \in (n + 1)..(k - 1) : Is(u[m], "complete", r)
      BY <1>3, <2>1
    <3>2. m \in 1..(k - 1)
      BY <1>1, <3>1
    <3> QED BY <2>1, <3>1, <3>2
  <2>3. u[k] = s[k] /\ \A m \in 1..(k - 1) : u[m] = s[m]
    BY <1>1, <2>2
  <2> QED BY <2>1, <2>2, <2>3 DEF Owes, n
<1> QED BY <1>4, <1>5 DEF u

\* Carrying out a completion may leave its note as a debt; a note pays one.
LEMMA OwesTail ==
  ASSUME NEW s \in Seq(Calls), s # <<>>, NEW r, Paired(s, r)
  PROVE  /\ Paired(Tail(s), r)
         /\ Is(Head(s), "note", r) => Owes(s, r) /\ ~Owes(Tail(s), r)
         /\ Owes(Tail(s), r) => Owes(s, r) \/ Is(Head(s), "complete", r)
<1> DEFINE t == Tail(s)
<1>1. /\ Len(s) \in Nat /\ Len(t) = Len(s) - 1 /\ Len(s) > 0
      /\ \A i \in 1..Len(t) : t[i] = s[i + 1]
      /\ Head(s) = s[1]
  OBVIOUS
<1> HIDE DEF t
<1>2. Paired(t, r)
  <2> SUFFICES ASSUME NEW i \in 1..Len(t), NEW k \in 1..Len(t), i < k,
                      Is(t[i], "note", r), Is(t[k], "note", r)
               PROVE  \E m \in (i + 1)..(k - 1) : Is(t[m], "complete", r)
    BY DEF Paired
  <2>1. i + 1 \in 1..Len(s) /\ k + 1 \in 1..Len(s) /\ i + 1 < k + 1
    BY <1>1
  <2>2. PICK m \in (i + 1 + 1)..(k + 1 - 1) : Is(s[m], "complete", r)
    BY <1>1, <2>1 DEF Paired
  <2>3. m - 1 \in (i + 1)..(k - 1) /\ m - 1 \in 1..Len(t) /\ t[m - 1] = s[m]
    <3>1. m - 1 \in (i + 1)..(k - 1) /\ m - 1 \in 1..Len(t) /\ (m - 1) + 1 = m
      BY <1>1, <2>1, <2>2
    <3> QED BY <1>1, <3>1
  <2> QED BY <2>2, <2>3
<1>3. ASSUME NEW i \in 1..Len(t), Is(t[i], "note", r),
             \A m \in 1..(i - 1) : ~Is(t[m], "complete", r)
      PROVE  /\ i + 1 \in 1..Len(s) /\ Is(s[i + 1], "note", r)
             /\ \A m \in 2..i : ~Is(s[m], "complete", r)
  <2>1. i + 1 \in 1..Len(s) /\ Is(s[i + 1], "note", r)
    BY <1>1, <1>3
  <2>2. ASSUME NEW m \in 2..i PROVE ~Is(s[m], "complete", r)
    <3>1. m - 1 \in 1..(i - 1) /\ m - 1 \in 1..Len(t) /\ (m - 1) + 1 = m
      BY <1>1
    <3> QED BY <1>1, <1>3, <3>1
  <2> QED BY <2>1, <2>2
<1>4. ASSUME Is(Head(s), "note", r) PROVE Owes(s, r) /\ ~Owes(t, r)
  <2>1. Owes(s, r)
    BY <1>1, <1>4 DEF Owes
  <2>2. ASSUME NEW i \in 1..Len(t), Is(t[i], "note", r),
               \A m \in 1..(i - 1) : ~Is(t[m], "complete", r)
        PROVE  FALSE
    <3>1. /\ i + 1 \in 1..Len(s) /\ Is(s[i + 1], "note", r)
          /\ \A m \in 2..i : ~Is(s[m], "complete", r)
      BY <1>3, <2>2
    <3>2. PICK m \in (1 + 1)..(i + 1 - 1) : Is(s[m], "complete", r)
      BY <1>1, <1>4, <3>1 DEF Paired
    <3>3. m \in 2..i
      BY <3>2
    <3> QED BY <3>1, <3>2, <3>3
  <2> QED BY <2>1, <2>2 DEF Owes
<1>5. ASSUME Owes(t, r), ~Is(Head(s), "complete", r) PROVE Owes(s, r)
  <2>1. PICK i \in 1..Len(t) :
          Is(t[i], "note", r) /\ \A m \in 1..(i - 1) : ~Is(t[m], "complete", r)
    BY <1>5 DEF Owes
  <2>2. /\ i + 1 \in 1..Len(s) /\ Is(s[i + 1], "note", r)
        /\ \A m \in 2..i : ~Is(s[m], "complete", r)
    BY <1>3, <2>1
  <2>3. \A m \in 1..(i + 1 - 1) : m = 1 \/ m \in 2..i
    BY <2>1
  <2> QED BY <1>1, <1>5, <2>2, <2>3 DEF Owes
<1> QED BY <1>2, <1>4, <1>5 DEF t

\* What a step sends to the memory follows its completion.
LEMMA LearningOwesNothing ==
  ASSUME NEW r \in Runs, NEW q
  PROVE  /\ Paired(<<Call("complete", r)>> \o persist_learning(r), q)
         /\ ~Owes(<<Call("complete", r)>> \o persist_learning(r), q)
<1> DEFINE s == <<Call("complete", r)>> \o persist_learning(r)
<1>1. /\ Len(s) = 5
      /\ s[1] = Call("complete", r) /\ s[2] = Call("document", r)
      /\ s[3] = Call("chunk", r) /\ s[4] = Call("embedding", r)
      /\ s[5] = Call("note", r)
  BY DEF persist_learning
<1> HIDE DEF s
<1>2. \A i \in 1..5 : i # 5 => s[i].kind # "note"
  BY <1>1 DEF Call
<1>3. Is(s[1], "complete", r) /\ s[5].run = r
  BY <1>1 DEF Call, Is
<1>4. Paired(s, q)
  BY <1>1, <1>2 DEF Paired, Is
<1>5. ASSUME NEW i \in 1..5, Is(s[i], "note", q) PROVE Is(s[1], "complete", q) /\ 1 \in 1..(i - 1)
  <2>1. i = 5
    BY <1>2, <1>5 DEF Is
  <2> QED BY <1>3, <1>5, <2>1 DEF Is
<1>6. ~Owes(s, q)
  BY <1>1, <1>5 DEF Owes
<1> QED BY <1>4, <1>6 DEF s

LEMMA RetrievalOwesNothing ==
  ASSUME NEW r \in Runs, NEW chosen, NEW q
  PROVE  Paired(record_retrieval(r, chosen), q) /\ ~Owes(record_retrieval(r, chosen), q)
<1> DEFINE s == record_retrieval(r, chosen)
<1>1. \A i \in 1..Len(s) : s[i].kind = "trace"
  BY DEF record_retrieval
<1> HIDE DEF s
<1>2. \A i \in 1..Len(s) : ~Is(s[i], "note", q)
  BY <1>1 DEF Is
<1>3. Paired(s, q) /\ ~Owes(s, q)
  BY <1>2 DEF Paired, Owes
<1> QED BY <1>3 DEF s

\* The workers that owe a note are finitely many, and fewer of them are fewer.
LEMMA OwingCounts ==
  ASSUME NEW A \in SUBSET Workers, NEW B \in SUBSET Workers, NEW w \in Workers
  PROVE  /\ Cardinality(A) \in Nat
         /\ A \subseteq B => Cardinality(A) <= Cardinality(B)
         /\ A \subseteq B \cup {w} => Cardinality(A) <= Cardinality(B) + 1
         /\ A \subseteq B \ {w} /\ w \in B => Cardinality(A) + 1 <= Cardinality(B)
<1>1. IsFiniteSet(A) /\ IsFiniteSet(B)
  BY FS_Subset, MemoryAssumption
<1>2. Cardinality(A) \in Nat /\ Cardinality(B) \in Nat
  BY <1>1, FS_CardinalityType
<1>3. A \subseteq B => Cardinality(A) <= Cardinality(B)
  BY <1>1, FS_Subset
<1>4. ASSUME A \subseteq B \cup {w} PROVE Cardinality(A) <= Cardinality(B) + 1
  <2>1. /\ IsFiniteSet(B \cup {w})
        /\ Cardinality(B \cup {w}) = IF w \in B THEN Cardinality(B) ELSE Cardinality(B) + 1
    BY <1>1, FS_AddElement
  <2>2. Cardinality(A) <= Cardinality(B \cup {w})
    BY <1>4, <2>1, FS_Subset
  <2> QED BY <1>2, <2>1, <2>2
<1>5. ASSUME A \subseteq B \ {w}, w \in B PROVE Cardinality(A) + 1 <= Cardinality(B)
  <2>1. IsFiniteSet(B \ {w}) /\ Cardinality(B \ {w}) = Cardinality(B) - 1
    BY <1>1, <1>5, FS_RemoveElement
  <2>2. Cardinality(A) <= Cardinality(B \ {w})
    BY <1>5, <2>1, FS_Subset
  <2> QED BY <1>2, <2>1, <2>2
<1> QED BY <1>2, <1>3, <1>4, <1>5

\* A step after which nobody owes a new note keeps the count.
LEMMA NoNewDebt ==
  ASSUME NotesInv, TypeOK, UNCHANGED <<memory_note, completions>>,
         \A w \in Workers, r \in Runs :
           Paired(pipe'[w], r) /\ (Owes(pipe'[w], r) => Owes(pipe[w], r))
  PROVE  NotesInv'
<1> SUFFICES ASSUME NEW r \in Runs
             PROVE  memory_note[r] + Cardinality(Owing(r)') <= completions[r]
  BY DEF NotesInv
<1>1. Owing(r)' \subseteq Owing(r) /\ Owing(r) \subseteq Workers
  BY DEF Owing
<1>2. memory_note[r] + Cardinality(Owing(r)) <= completions[r]
  BY DEF NotesInv
<1>3. memory_note[r] \in Nat /\ completions[r] \in Nat
  BY DEF TypeOK
<1>4. CASE Workers = {}
  <2>1. Owing(r)' = Owing(r)
    BY <1>1, <1>4
  <2> QED BY <1>2, <2>1
<1>5. CASE Workers # {}
  <2>1. PICK w \in Workers : TRUE
    BY <1>5
  <2>2. /\ Cardinality(Owing(r)') \in Nat /\ Cardinality(Owing(r)) \in Nat
        /\ Cardinality(Owing(r)') <= Cardinality(Owing(r))
    BY <1>1, <2>1, OwingCounts
  <2> QED BY <1>2, <1>3, <2>2
<1> QED BY <1>4, <1>5

LEMMA SendNotes ==
  ASSUME NotesInv, TypeOK, NEW w \in Workers, NEW sent \in Seq(Calls), Send(w, sent),
         \A r \in Runs : Paired(sent, r) /\ ~Owes(sent, r)
  PROVE  NotesInv'
<1>1. UNCHANGED <<memory_note, completions>> /\ pipe' = [pipe EXCEPT ![w] = @ \o sent]
  BY DEF Send, tables
<1>2. ASSUME NEW v \in Workers, NEW r \in Runs
      PROVE  Paired(pipe'[v], r) /\ (Owes(pipe'[v], r) => Owes(pipe[v], r))
  <2>1. pipe[v] \in Seq(Calls) /\ Paired(pipe[v], r)
    BY DEF TypeOK, NotesInv
  <2>2. pipe'[v] = IF v = w THEN pipe[v] \o sent ELSE pipe[v]
    BY <1>1 DEF TypeOK
  <2>3. Paired(pipe[v] \o sent, r) /\ (Owes(pipe[v] \o sent, r) => Owes(pipe[v], r))
    BY <2>1, OwesJoins
  <2> QED BY <2>1, <2>2, <2>3
<1> QED BY <1>1, <1>2, NoNewDebt

LEMMA CommitNotes ==
  ASSUME NotesInv, TypeOK, NEW w \in Workers, Commit(w)
  PROVE  NotesInv'
<1> DEFINE call == Head(pipe[w])
<1>1. /\ memory_note' = IF call.kind = "note" THEN [memory_note EXCEPT ![call.run] = @ + 1]
                        ELSE memory_note
      /\ completions' = IF call.kind = "complete" THEN [completions EXCEPT ![call.run] = @ + 1]
                        ELSE completions
      /\ pipe' = [pipe EXCEPT ![w] = Tail(@)]
      /\ pipe[w] # <<>>
  BY DEF Commit, append_learning_note, complete_workflow_step, Counted
<1> HIDE DEF call
<1>2. \A v \in Workers : pipe[v] \in Seq(Calls)
  BY DEF TypeOK
<1>3. \A v \in Workers : pipe'[v] = IF v = w THEN Tail(pipe[v]) ELSE pipe[v]
  BY <1>1 DEF TypeOK
<1>4. ASSUME NEW r \in Runs
      PROVE  /\ Paired(Tail(pipe[w]), r)
             /\ Is(call, "note", r) => Owes(pipe[w], r) /\ ~Owes(Tail(pipe[w]), r)
             /\ Owes(Tail(pipe[w]), r) => Owes(pipe[w], r) \/ Is(call, "complete", r)
  BY <1>1, <1>2, OwesTail DEF NotesInv, call
<1>5. ASSUME NEW v \in Workers, NEW r \in Runs PROVE Paired(pipe'[v], r)
  BY <1>3, <1>4 DEF NotesInv
<1>6. ASSUME NEW r \in Runs
      PROVE  memory_note'[r] + Cardinality(Owing(r)') <= completions'[r]
  <2> DEFINE owing == Owing(r)
             left == Owing(r)'
  <2>1. owing \in SUBSET Workers /\ left \in SUBSET Workers
    BY DEF Owing
  <2>2. left = {v \in Workers : Owes(pipe'[v], r)} /\ owing = {v \in Workers : Owes(pipe[v], r)}
    BY DEF Owing
  <2>3. /\ left \subseteq owing \cup {w}
        /\ ~Is(call, "complete", r) => left \subseteq owing
        /\ Is(call, "note", r) => left \subseteq owing \ {w} /\ w \in owing
    BY <1>3, <1>4, <2>2
  <2>4. memory_note[r] + Cardinality(owing) <= completions[r]
    BY DEF NotesInv
  <2>5. memory_note[r] \in Nat /\ completions[r] \in Nat
    BY DEF TypeOK
  <2> HIDE DEF owing, left
  <2>6. /\ Cardinality(owing) \in Nat /\ Cardinality(left) \in Nat
        /\ left \subseteq owing => Cardinality(left) <= Cardinality(owing)
        /\ left \subseteq owing \cup {w} => Cardinality(left) <= Cardinality(owing) + 1
        /\ left \subseteq owing \ {w} /\ w \in owing =>
             Cardinality(left) + 1 <= Cardinality(owing)
    BY <2>1, OwingCounts
  <2>7. CASE Is(call, "note", r)
    <3>1. memory_note'[r] = memory_note[r] + 1 /\ completions'[r] = completions[r]
      BY <1>1, <2>7 DEF Is, TypeOK
    <3> QED BY <2>3, <2>4, <2>5, <2>6, <2>7, <3>1 DEF left
  <2>8. CASE Is(call, "complete", r)
    <3>1. memory_note'[r] = memory_note[r] /\ completions'[r] = completions[r] + 1
      BY <1>1, <2>8 DEF Is, TypeOK
    <3> QED BY <2>3, <2>4, <2>5, <2>6, <3>1 DEF left
  <2>9. CASE ~Is(call, "note", r) /\ ~Is(call, "complete", r)
    <3>1. memory_note'[r] = memory_note[r] /\ completions'[r] = completions[r]
      BY <1>1, <2>9 DEF Is, TypeOK
    <3> QED BY <2>3, <2>4, <2>5, <2>6, <2>9, <3>1 DEF left
  <2> QED BY <2>7, <2>8, <2>9
<1> QED BY <1>5, <1>6 DEF NotesInv

LEMMA NotesNext ==
  ASSUME NotesInv, IInv, [Next]_vars
  PROVE  NotesInv'
<1> USE DEF IInv
<1>1. ASSUME NEW w \in Workers, NEW r \in Runs, Gather(w, r) PROVE NotesInv'
  <2>1. PICK chosen \in Selected(w, r) : Send(w, record_retrieval(r, chosen))
    BY <1>1 DEF Gather
  <2>2. record_retrieval(r, chosen) \in Seq(Calls)
    BY RetrievalSound
  <2> QED BY <2>1, <2>2, RetrievalOwesNothing, SendNotes
<1>2. ASSUME NEW w \in Workers, NEW r \in Runs, Learn(w, r) PROVE NotesInv'
  <2> DEFINE learning == <<Call("complete", r)>> \o persist_learning(r)
  <2>1. PICK chosen \in Selected(w, r) :
          Send(w, record_retrieval(r, chosen) \o <<Call("complete", r)>> \o persist_learning(r))
    BY <1>2 DEF Learn
  <2> DEFINE found == record_retrieval(r, chosen)
  <2>2. found \in Seq(Calls) /\ \A q \in Runs : Paired(found, q) /\ ~Owes(found, q)
    BY RetrievalSound, RetrievalOwesNothing
  <2>3. learning \in Seq(Calls) /\ \A q \in Runs : Paired(learning, q) /\ ~Owes(learning, q)
    BY LearningSound, LearningOwesNothing
  <2>4. <<Call("complete", r)>> \in Seq(Calls) /\ persist_learning(r) \in Seq(Calls)
    BY DEF Call, Calls, Kinds, persist_learning
  <2>5. Send(w, found \o learning)
    <3>1. (found \o <<Call("complete", r)>>) \o persist_learning(r) = found \o learning
      BY <2>2, <2>4
    <3> QED BY <2>1, <3>1
  <2> HIDE DEF found, learning
  <2>6. found \o learning \in Seq(Calls)
    BY <2>2, <2>3
  <2>7. \A q \in Runs : Paired(found \o learning, q) /\ ~Owes(found \o learning, q)
    BY <2>2, <2>3, OwesJoins
  <2> QED BY <2>5, <2>6, <2>7, SendNotes
<1>3. ASSUME NEW w \in Workers, Notify(w) PROVE NotesInv'
  BY <1>3 DEF Notify, NotesInv, Owing, tables
<1>4. ASSUME NEW w \in Workers, Restart(w) PROVE NotesInv'
  <2>1. UNCHANGED <<memory_note, completions>> /\ pipe' = [pipe EXCEPT ![w] = <<>>]
    BY <1>4 DEF Restart, tables
  <2>2. ASSUME NEW v \in Workers, NEW r \in Runs
        PROVE  Paired(pipe'[v], r) /\ (Owes(pipe'[v], r) => Owes(pipe[v], r))
    <3>1. pipe'[v] = pipe[v] \/ Len(pipe'[v]) = 0
      BY <2>1 DEF TypeOK
    <3> QED BY <3>1, EmptyOwesNothing DEF NotesInv
  <2> QED BY <2>1, <2>2, NoNewDebt
<1>5. CASE UNCHANGED vars
  BY <1>5 DEF vars, tables, NotesInv, Owing
<1> QED BY <1>1, <1>2, <1>3, <1>4, <1>5, CommitNotes DEF Next

\* A run leaves no more notes than completions (persist_learning), for any
\* number of workers that execute it, die and start again.
THEOREM NotesCovered == Spec => []NotesNeedCompletions
<1>1. Init => NotesInv
  <2> SUFFICES ASSUME Init PROVE NotesInv
    OBVIOUS
  <2>1. \A w \in Workers : Len(pipe[w]) = 0
    BY DEF Init
  <2>2. \A w \in Workers, r \in Runs : Paired(pipe[w], r) /\ ~Owes(pipe[w], r)
    BY <2>1, EmptyOwesNothing
  <2>3. \A r \in Runs : Owing(r) = {}
    BY <2>2 DEF Owing
  <2>4. Cardinality({}) = 0
    BY FS_EmptySet
  <2>5. \A r \in Runs : memory_note[r] = 0 /\ completions[r] = 0
    BY DEF Init
  <2>6. \A r \in Runs : memory_note[r] + Cardinality(Owing(r)) <= completions[r]
    BY <2>3, <2>4, <2>5
  <2> QED BY <2>2, <2>6 DEF NotesInv
<1>2. NotesInv /\ IInv => NotesNeedCompletions
  <2> SUFFICES ASSUME NotesInv, IInv, NEW r \in Runs
               PROVE  memory_note[r] <= completions[r]
    BY DEF NotesNeedCompletions
  <2>1. memory_note[r] \in Nat /\ completions[r] \in Nat
    BY DEF IInv, TypeOK
  <2>2. memory_note[r] + Cardinality(Owing(r)) <= completions[r]
    BY DEF NotesInv
  <2>3. Cardinality(Owing(r)) \in Nat
    <3>1. IsFiniteSet(Owing(r))
      BY FS_Subset, MemoryAssumption DEF Owing
    <3> QED BY <3>1, FS_CardinalityType
  <2> QED BY <2>1, <2>2, <2>3
<1> QED BY <1>1, <1>2, NotesNext, Inductive, PTL DEF Spec
=============================================================================
