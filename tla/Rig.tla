-------------------------------- MODULE Rig --------------------------------
(***************************************************************************)
(* nanites-rig: executors are built from named models or collections and   *)
(* registered with a runtime, whose map of executors is an Arc that        *)
(* runtimes, their clones and the contexts of their tasks share and that   *)
(* Arc::make_mut copies on write. A task, of one step or RetrieveTask's    *)
(* two, is dispatched over the map of its context.                         *)
(*                                                                         *)
(* A model stands for all it does: embedding the query of this world, or   *)
(* answering a prompt. A collection is named by the same kind of value.    *)
(***************************************************************************)
EXTENDS Integers, Sequences, FiniteSets

CONSTANTS
    Runtimes, Turns,   \* runtimes and tasks
    Cells,             \* places on the heap for a map
    Names, Models,     \* names of models or collections, and what they name
    Worlds,            \* what the host has to work with, see Init
    Default,           \* the key of an embedding task that names no model
    NoExecutor, NoModel, Gone

Holders == Runtimes \cup Turns
Kinds == {"Completion", "Chat", "Structured", "Embedding", "VectorStore"}
Keys == Names \cup {Default}
Executor == [kind : Kinds, models : [Keys -> Models \cup {NoModel}],
             regs : Seq([name : Names, model : Models])]
Vector == Seq(Int)

ASSUME NamesAssumption == Default \notin Names
ASSUME DistinctAssumption ==
    /\ Runtimes \cap Turns = {} /\ Gone \notin Cells /\ NoModel \notin Models
    /\ Gone \notin [Kinds -> Executor \cup {NoExecutor}]
ASSUME WorldsAssumption ==
    \A w \in Worlds : /\ w.kinds \subseteq Kinds /\ w.names \subseteq Names
                      /\ w.runtimes \subseteq Runtimes /\ w.turns \subseteq Turns
                      /\ w.vec \in [Models -> Vector] /\ w.query \in Vector
                      /\ w.docs \in [Models -> Seq(Vector)] /\ w.k \in Nat

VARIABLES
    world,    \* bounds (the kinds, names, runtimes and tasks in use, how many
              \* executors and registrations), and what is embedded and stored
    heap,     \* cell -> map, kind -> executor
    at,       \* holder -> the cell its Arc points to, or Gone
    bench,    \* the executor being built, or NoExecutor
    budget,   \* bound: executors that can still be built
    turn      \* what each task was asked, where it stands, how it ended

vars == <<world, heap, at, bench, budget, turn>>

(***************************************************************************)
(* Executors: their models by key. `regs` is the history of registrations. *)
(***************************************************************************)

NewExecutor(kind) == [kind |-> kind, models |-> [k \in Keys |-> NoModel], regs |-> <<>>]

\* The key a registration or a task stands for.
Insert(models, key, m) == [models EXCEPT ![key] = m]

\* MUTANT of InsertDefault: the default follows the last registration.
MoveDefault(models, m) == Insert(models, Default, m)

\* models.entry(provider).or_insert(..)
InsertDefault(models, m) == IF models[Default] = NoModel THEN Insert(models, Default, m)
                            ELSE models

WithModel(e, name, m) ==
    LET models == Insert(e.models, name, m) IN
    [kind |-> e.kind,
     models |-> IF e.kind = "Embedding" THEN InsertDefault(models, m) ELSE models,
     regs |-> Append(e.regs, [name |-> name, model |-> m])]

(***************************************************************************)
(* Search. A score is a cosine, kept exact as the sign and the square of a *)
(* fraction: num / sqrt(den).                                              *)
(***************************************************************************)

DotTo(a, b, n) == LET sum[i \in 0 .. n] == IF i = 0 THEN 0 ELSE sum[i - 1] + a[i] * b[i]
                  IN sum

\* Sums over the shorter of two vectors, as zip does.
Dot(a, b) == LET n == IF Len(a) < Len(b) THEN Len(a) ELSE Len(b) IN DotTo(a, b, n)[n]

Cosine(a, b) == IF Dot(a, a) = 0 \/ Dot(b, b) = 0 THEN [num |-> 0, den |-> 1]
                ELSE [num |-> Dot(a, b), den |-> Dot(a, a) * Dot(b, b)]

\* x^2 with the sign of x.
Signed(x) == IF x < 0 THEN -(x * x) ELSE x * x
Less(s, t) == Signed(s.num) * t.den < Signed(t.num) * s.den

\* MUTANT of Before: the comparison is ascending.
Ascending(scores, i, j) ==
    Less(scores[i], scores[j]) \/ (~Less(scores[j], scores[i]) /\ i < j)

\* sort_by is stable; the comparison is descending.
Before(scores, i, j) == Less(scores[j], scores[i]) \/ (~Less(scores[i], scores[j]) /\ i < j)

Scores(docs, query) == [i \in DOMAIN docs |-> Cosine(query, docs[i])]

Rank(scores, i) == 1 + Cardinality({j \in DOMAIN scores : Before(scores, j, i)})

Search(docs, query, k) ==
    LET scores == Scores(docs, query)
        size == IF k < Len(docs) THEN k ELSE Len(docs)
    IN [r \in 1 .. size |-> LET i == CHOOSE i \in DOMAIN docs : Rank(scores, i) = r
                            IN [id |-> i, score |-> scores[i]]]

(***************************************************************************)
(* The host                                                                *)
(***************************************************************************)

Free == [stage |-> "free"]
Nothing == [k \in Kinds |-> NoExecutor]

Init ==
    /\ world \in Worlds
    /\ \E r \in world.runtimes, c \in Cells :
          at = [h \in Holders |-> IF h = r THEN c ELSE Gone]
    /\ heap = [c \in Cells |-> Nothing]
    /\ bench = NoExecutor
    /\ budget = world.budget
    /\ turn = [t \in Turns |-> Free]

MapOf(h) == heap[at[h]]

NewOnBench(kind) ==
    /\ bench = NoExecutor /\ budget > 0
    /\ bench' = NewExecutor(kind) /\ budget' = budget - 1
    /\ UNCHANGED <<world, heap, at, turn>>

AddModel(name, m) ==
    /\ bench # NoExecutor /\ Len(bench.regs) < world.regs
    /\ bench' = WithModel(bench, name, m)
    /\ UNCHANGED <<world, heap, at, budget, turn>>

\* A cell that nobody points to is free.
Swept(h, a) == [c \in Cells |-> IF \E x \in Holders : a[x] = c THEN h[c] ELSE Nothing]

\* MUTANT of Shared: the map is taken to be the runtime's own.
NeverShared(r) == FALSE

Shared(r) == \E h \in Holders \ {r} : at[h] = at[r]

\* Arc::make_mut, then insert under the executor's own task type.
RegisterExecutor(r) ==
    /\ at[r] # Gone /\ bench # NoExecutor
    /\ LET map == [MapOf(r) EXCEPT ![bench.kind] = bench] IN
       IF Shared(r)
       THEN \E c \in Cells : /\ \A h \in Holders : at[h] # c
                             /\ heap' = [heap EXCEPT ![c] = map]
                             /\ at' = [at EXCEPT ![r] = c]
       ELSE heap' = [heap EXCEPT ![at[r]] = map] /\ UNCHANGED at
    /\ bench' = NoExecutor
    /\ UNCHANGED <<world, budget, turn>>

Clone(r, s) ==
    /\ at[r] # Gone /\ at[s] = Gone
    /\ at' = [at EXCEPT ![s] = at[r]]
    /\ UNCHANGED <<world, heap, bench, budget, turn>>

DropRuntime(r) ==
    /\ at[r] # Gone
    /\ at' = [at EXCEPT ![r] = Gone]
    /\ heap' = Swept(heap, at')
    /\ UNCHANGED <<world, bench, budget, turn>>

\* root_ctx: the task's context shares the map of the runtime. `kind` is the
\* task's type, `fits` says that its input has the type its executor expects,
\* `key` names its model or collection, `col` the collection of RetrieveTask.
Spawn(r, t, kind, key, col, fits, query) ==
    /\ at[r] # Gone /\ turn[t].stage = "free"
    /\ at' = [at EXCEPT ![t] = at[r]]
    /\ turn' = [turn EXCEPT ![t] =
                   [stage |-> IF kind = "Retrieve" THEN "Embedding" ELSE kind,
                    kind |-> kind, key |-> key, col |-> col, fits |-> fits,
                    query |-> query, result |-> "none", by |-> NoModel, docs |-> <<>>]]
    /\ UNCHANGED <<world, heap, bench, budget>>

SpawnIo(r, t) ==
    \E kind \in world.kinds, key \in world.names \cup {Default}, fits \in world.fits :
        /\ key # Default \/ kind = "Embedding"
        /\ Spawn(r, t, kind, key, key, fits, IF kind = "VectorStore" THEN world.query ELSE <<>>)

SpawnRetrieve(r, t) ==
    /\ {"Embedding", "VectorStore"} \subseteq world.kinds
    /\ \E key \in world.names \cup {Default}, col \in world.names :
          Spawn(r, t, "Retrieve", key, col, TRUE, <<>>)

Host == \/ \E kind \in world.kinds : NewOnBench(kind)
        \/ \E name \in world.names, m \in Models : AddModel(name, m)
        \/ \E r \in Runtimes : RegisterExecutor(r) \/ DropRuntime(r)
        \/ \E r \in Runtimes, s \in world.runtimes : Clone(r, s)
        \/ \E r \in Runtimes, t \in world.turns : SpawnIo(r, t) \/ SpawnRetrieve(r, t)

(***************************************************************************)
(* The tasks                                                               *)
(***************************************************************************)

Ends(t, r) == /\ turn' = [turn EXCEPT ![t] = [r EXCEPT !.stage = "done"]]
              /\ UNCHANGED <<world, heap, at, bench, budget>>

Answers(t, m, docs) == Ends(t, [turn[t] EXCEPT !.result = "ok", !.by = m, !.docs = docs])
Fails(t, error) == Ends(t, [turn[t] EXCEPT !.result = error])

\* The map's executor gets the task: its model, or why there is none. An input
\* of the wrong type is reported as a model that was not found.
Model(t, kind, key) == IF turn[t].fits THEN MapOf(t)[kind].models[key] ELSE NoModel

Undispatched(t, kind, key) ==
    /\ turn[t].stage = kind
    /\ \/ MapOf(t)[kind] = NoExecutor /\ Fails(t, "NoExecutor")
       \/ MapOf(t)[kind] # NoExecutor /\ Model(t, kind, key) = NoModel /\ Fails(t, "NotFound")

Dispatched(t, kind, key) == /\ turn[t].stage = kind /\ MapOf(t)[kind] # NoExecutor
                            /\ Model(t, kind, key) # NoModel

\* RigCompletionExecutor: the text of the answer, or the provider's error.
Completion(t) ==
    \/ Undispatched(t, "Completion", turn[t].key)
    \/ /\ Dispatched(t, "Completion", turn[t].key)
       /\ Answers(t, Model(t, "Completion", turn[t].key), <<>>) \/ Fails(t, "Failed")

\* RigChatExecutor: the same over a list of messages, made one prompt.
Chat(t) ==
    \/ Undispatched(t, "Chat", turn[t].key)
    \/ /\ Dispatched(t, "Chat", turn[t].key)
       /\ Answers(t, Model(t, "Chat", turn[t].key), <<>>) \/ Fails(t, "Failed")

\* RigStructuredExecutor: an agent of the model, or StructuredOutput.
Structured(t) ==
    \/ Undispatched(t, "Structured", turn[t].key)
    \/ /\ Dispatched(t, "Structured", turn[t].key)
       /\ \/ Answers(t, Model(t, "Structured", turn[t].key), <<>>)
          \/ Fails(t, "StructuredOutput")

\* RigEmbeddingExecutor: for RetrieveTask, the last vector is the query of its
\* second step; a provider may return none.
Embedding(t) ==
    \/ Undispatched(t, "Embedding", turn[t].key)
    \/ LET m == Model(t, "Embedding", turn[t].key) IN
       /\ Dispatched(t, "Embedding", turn[t].key)
       /\ \/ Fails(t, "Failed")
          \/ turn[t].kind = "Embedding" /\ Answers(t, m, <<>>)
          \/ turn[t].kind = "Retrieve" /\ Fails(t, "NoVectors")
          \/ /\ turn[t].kind = "Retrieve"
             /\ turn' = [turn EXCEPT ![t].stage = "VectorStore", ![t].query = world.vec[m]]
             /\ UNCHANGED <<world, heap, at, bench, budget>>

\* RigVectorStoreExecutor: it cannot fail once the collection is found.
VectorStore(t) ==
    \/ Undispatched(t, "VectorStore", turn[t].col)
    \/ LET m == Model(t, "VectorStore", turn[t].col) IN
       /\ Dispatched(t, "VectorStore", turn[t].col)
       /\ Answers(t, m, Search(world.docs[m], turn[t].query, world.k))

\* The closure ends: its context goes, and the caller has the result.
Reply(t) ==
    /\ turn[t].stage = "done"
    /\ turn' = [turn EXCEPT ![t].stage = "over"]
    /\ at' = [at EXCEPT ![t] = Gone]
    /\ heap' = Swept(heap, at')
    /\ UNCHANGED <<world, bench, budget>>

Step(t) == \/ Completion(t) \/ Chat(t) \/ Structured(t)
           \/ Embedding(t) \/ VectorStore(t) \/ Reply(t)

Next == Host \/ \E t \in Turns : Step(t)

Spec == Init /\ [][Next]_vars

(***************************************************************************)
(* Properties                                                              *)
(***************************************************************************)

\* runtime.rs:126 and 136 with Arc::make_mut: although cells are shared and
\* overwritten in place, every runtime and every running task has a map of its
\* own, as ExecutorMaps says. A clone made before a registration does not see
\* it, and neither does a task that was spawned before it.
Values == INSTANCE ExecutorMaps WITH
             Owners <- Runtimes, Borrowers <- Turns,
             value <- [h \in Holders |-> IF at[h] = Gone THEN Gone ELSE heap[at[h]]]
ValueSemantics == Values!Spec

\* How a task ended is explained by the map it was spawned with and by nothing
\* else: RetrieveTask never searches a collection of one set of executors with
\* the embedding of another, and no error is due to what was registered later.
OneTurnOneSet ==
    \A t \in Turns : turn[t].stage = "done" =>
        LET T == turn[t]
            steps == IF T.kind = "Retrieve" THEN <<"Embedding", "VectorStore">> ELSE <<T.kind>>
            key(i) == IF i = 2 THEN T.col ELSE T.key
            has(i) == MapOf(t)[steps[i]] # NoExecutor
            named(i) == MapOf(t)[steps[i]].models[key(i)]
            found(i) == has(i) /\ T.fits /\ named(i) # NoModel
            before(i) == \A j \in 1 .. i - 1 : found(j)
            n == Len(steps)
        IN /\ T.result \in {"ok", "Failed", "NoVectors", "StructuredOutput"} => found(1)
           /\ T.result = "ok" => (\A i \in 1 .. n : found(i)) /\ T.by = named(n)
           /\ T.result = "ok" /\ T.kind = "Retrieve" =>
                 T.docs = Search(world.docs[named(2)], world.vec[named(1)], world.k)
           /\ T.result = "NoExecutor" => \E i \in 1 .. n : before(i) /\ ~has(i)
           /\ T.result = "NotFound" => \E i \in 1 .. n : before(i) /\ has(i) /\ ~found(i)

\* The model last given to a name.
LastNamed(regs, name) ==
    LET named == {i \in DOMAIN regs : regs[i].name = name}
        last == CHOOSE i \in named : \A j \in named : j <= i
    IN IF named = {} THEN NoModel ELSE regs[last].model

\* What a key resolves to is what the registrations say: a name its last model,
\* and no name the FIRST model of the provider, even after that name has been
\* given another one. Only embedding executors have a default.
LookupFollowsHistory ==
    \A e \in {bench} \cup {heap[c][k] : c \in Cells, k \in Kinds} : e # NoExecutor =>
        /\ \A n \in Names : e.models[n] = LastNamed(e.regs, n)
        /\ e.models[Default] = IF e.kind = "Embedding" /\ e.regs # <<>>
                               THEN e.regs[1].model ELSE NoModel

\* What a search returns: as many documents as asked for, or all; no document
\* twice; none that scores less than one left out or one listed later; equal
\* embeddings in the order they were added; and no score beyond 1 or below -1,
\* for zero vectors and for vectors of different lengths too.
IsTopK(got, docs, query, k) ==
    LET ids == {got[i].id : i \in DOMAIN got}
        score(d) == Cosine(query, docs[d])
    IN /\ Len(got) = Cardinality(ids) /\ ids \subseteq DOMAIN docs
       /\ Len(got) = k \/ (Len(got) < k /\ ids = DOMAIN docs)
       /\ \A d \in DOMAIN docs \ ids : \A i \in ids :
             /\ ~Less(score(i), score(d))
             /\ docs[i] = docs[d] => i < d
       /\ \A i, j \in DOMAIN got : i < j =>
             /\ ~Less(got[i].score, got[j].score)
             /\ docs[got[i].id] = docs[got[j].id] => got[i].id < got[j].id
       /\ \A i \in DOMAIN got : got[i].score.num * got[i].score.num <= got[i].score.den

\* So does every task that searched, for the collection it found and its query.
SearchIsTopK ==
    \A t \in Turns : turn[t].stage = "done" /\ turn[t].result = "ok"
                     /\ turn[t].kind \in {"VectorStore", "Retrieve"} =>
        IsTopK(turn[t].docs, world.docs[turn[t].by], turn[t].query, world.k)
=============================================================================
