------------------------------ MODULE RigProofs ------------------------------
(***************************************************************************)
(* Proofs about Rig, for any number of runtimes, tasks, cells, names and   *)
(* models, and for every world. The invariant says how a cell of the heap  *)
(* is used: a task that runs holds one, and as a registration writes to a  *)
(* cell only when nobody else points to it, what the task sees is fixed.   *)
(* What a search returns is proved apart from it, for every collection.    *)
(***************************************************************************)
EXTENDS Rig, SequenceTheorems, FiniteSetTheorems, WellFoundedInduction, TLAPS

Map == [Kinds -> Executor \cup {NoExecutor}]

RigTypeOK ==
    /\ world \in Worlds
    /\ heap \in [Cells -> Map]
    /\ at \in [Holders -> Cells \cup {Gone}]
    /\ bench \in Executor \cup {NoExecutor}

\* A task is unused, or a record of what it was asked and how far it is.
IsTurn(T) ==
    /\ T = [stage |-> T.stage, kind |-> T.kind, key |-> T.key, col |-> T.col,
            fits |-> T.fits, query |-> T.query, result |-> T.result, by |-> T.by,
            docs |-> T.docs]
    /\ T.kind \in Kinds \cup {"Retrieve"}
    /\ T.stage \in Kinds \cup {"done", "over"}
    /\ T.stage \in Kinds =>
          T.stage = T.kind \/ (T.kind = "Retrieve" /\ T.stage \in {"Embedding", "VectorStore"})
    /\ T.kind # "Retrieve" => T.col = T.key

Holds(t) == turn[t].stage \in Kinds \cup {"done"}

\* A task has a cell exactly while it runs.
TurnsInv ==
    /\ turn = [t \in Turns |-> turn[t]]
    /\ \A t \in Turns : /\ turn[t] = Free \/ IsTurn(turn[t])
                        /\ at[t] # Gone <=> Holds(t)

\* The map of executors `map` resolves `key` for a task `T`, to `Named`.
Has(map, kind) == map[kind] # NoExecutor
Named(map, kind, key) == map[kind].models[key]
Found(T, map, kind, key) ==
    Has(map, kind) /\ T.fits /\ Named(map, kind, key) # NoModel

\* RetrieveTask between its steps, and a task that has ended.
Halfway(T, map, w) ==
    T.stage = "VectorStore" /\ T.kind = "Retrieve" =>
        Found(T, map, "Embedding", T.key) /\ T.query = w.vec[Named(map, "Embedding", T.key)]

RetrieveOver(T, map, w) ==
    /\ T.result \in {"ok", "Failed", "NoVectors", "StructuredOutput"} =>
          Found(T, map, "Embedding", T.key)
    /\ T.result = "ok" =>
          /\ Found(T, map, "VectorStore", T.col) /\ T.by = Named(map, "VectorStore", T.col)
          /\ T.docs = Search(w.docs[Named(map, "VectorStore", T.col)],
                             w.vec[Named(map, "Embedding", T.key)], w.k)
    /\ T.result = "NoExecutor" =>
          \/ ~Has(map, "Embedding")
          \/ Found(T, map, "Embedding", T.key) /\ ~Has(map, "VectorStore")
    /\ T.result = "NotFound" =>
          \/ Has(map, "Embedding") /\ ~Found(T, map, "Embedding", T.key)
          \/ /\ Found(T, map, "Embedding", T.key)
             /\ Has(map, "VectorStore") /\ ~Found(T, map, "VectorStore", T.col)

SingleOver(T, map) ==
    /\ T.result \in {"ok", "Failed", "NoVectors", "StructuredOutput"} =>
          Found(T, map, T.kind, T.key)
    /\ T.result = "ok" => T.by = Named(map, T.kind, T.key)
    /\ T.result = "NoExecutor" => ~Has(map, T.kind)
    /\ T.result = "NotFound" => Has(map, T.kind) /\ ~Found(T, map, T.kind, T.key)

Explained(T, map, w) ==
    /\ Halfway(T, map, w)
    /\ T.stage = "done" /\ T.kind = "Retrieve" => RetrieveOver(T, map, w)
    /\ T.stage = "done" /\ T.kind # "Retrieve" => SingleOver(T, map)

ExplainedInv == \A t \in Turns : Holds(t) => Explained(turn[t], MapOf(t), world)

RigInv == RigTypeOK /\ TurnsInv /\ ExplainedInv

\* An executor resolves its keys as its registrations say.
Follows(e) ==
    /\ \A n \in Names :
          \/ e.models[n] = NoModel /\ \A i \in DOMAIN e.regs : e.regs[i].name # n
          \/ \E i \in DOMAIN e.regs :
                /\ e.regs[i].name = n /\ e.models[n] = e.regs[i].model
                /\ \A j \in DOMAIN e.regs : e.regs[j].name = n => j <= i
    /\ e.models[Default] = IF e.kind = "Embedding" /\ e.regs # <<>>
                           THEN e.regs[1].model ELSE NoModel

HistoryInv ==
    \A e \in {bench} \cup {heap[c][k] : c \in Cells, k \in Kinds} :
        e # NoExecutor => Follows(e)

(***************************************************************************)
(* Building executors.                                                     *)
(***************************************************************************)

LEMMA NewIsExecutor ==
  ASSUME NEW kind \in Kinds
  PROVE  NewExecutor(kind) \in Executor /\ Follows(NewExecutor(kind))
<1> USE NamesAssumption
<1>1. NewExecutor(kind) \in Executor  BY DEF NewExecutor, Executor
<1>2. Follows(NewExecutor(kind))  BY DEF NewExecutor, Follows, Keys
<1> QED  BY <1>1, <1>2

LEMMA WithModelIsExecutor ==
  ASSUME NEW e \in Executor, NEW name \in Names, NEW m \in Models
  PROVE  /\ WithModel(e, name, m) \in Executor
         /\ WithModel(e, name, m).kind = e.kind
         /\ WithModel(e, name, m).regs = Append(e.regs, [name |-> name, model |-> m])
         /\ WithModel(e, name, m).models = IF e.kind = "Embedding"
                         THEN InsertDefault(Insert(e.models, name, m), m)
                         ELSE Insert(e.models, name, m)
<1>1. Insert(e.models, name, m) \in [Keys -> Models \cup {NoModel}]
  BY DEF Executor, Insert, Keys
<1>2. InsertDefault(Insert(e.models, name, m), m) \in [Keys -> Models \cup {NoModel}]
  BY <1>1 DEF InsertDefault, Insert, Keys
<1>3. Append(e.regs, [name |-> name, model |-> m]) \in Seq([name : Names, model : Models])
  BY DEF Executor
<1>4. e = [kind |-> e.kind, models |-> e.models, regs |-> e.regs] /\ e.kind \in Kinds
  BY DEF Executor
<1> QED  BY <1>1, <1>2, <1>3, <1>4 DEF Executor, WithModel

LEMMA WithModelFollows ==
  ASSUME NEW e \in Executor, NEW name \in Names, NEW m \in Models, Follows(e)
  PROVE  Follows(WithModel(e, name, m))
<1> DEFINE f == WithModel(e, name, m)
           reg == [name |-> name, model |-> m]
<1>1. /\ f.kind = e.kind /\ f.regs = Append(e.regs, reg)
      /\ f.models = IF e.kind = "Embedding"
                    THEN InsertDefault(Insert(e.models, name, m), m)
                    ELSE Insert(e.models, name, m)
  BY WithModelIsExecutor
<1>2. e.models \in [Keys -> Models \cup {NoModel}] /\ e.regs \in Seq([name : Names, model : Models])
  BY DEF Executor
<1> DEFINE s == e.regs
           r == f.regs
<1>3. /\ Len(s) \in Nat /\ DOMAIN s = 1 .. Len(s) /\ DOMAIN r = 1 .. Len(s) + 1
      /\ r[Len(s) + 1] = reg /\ \A i \in DOMAIN s : r[i] = s[i]
  BY <1>1, <1>2
<1>4. \A n \in Names : f.models[n] = IF n = name THEN m ELSE e.models[n]
  BY <1>1, <1>2, NamesAssumption DEF Insert, InsertDefault, Keys
<1>5. f.models[Default] = IF e.kind = "Embedding" /\ e.models[Default] = NoModel
                          THEN m ELSE e.models[Default]
  BY <1>1, <1>2, NamesAssumption DEF Insert, InsertDefault, Keys
<1> HIDE DEF f
<1>6. ASSUME NEW n \in Names
      PROVE  \/ f.models[n] = NoModel /\ \A i \in DOMAIN r : r[i].name # n
             \/ \E i \in DOMAIN r : /\ r[i].name = n /\ f.models[n] = r[i].model
                                    /\ \A j \in DOMAIN r : r[j].name = n => j <= i
  <2>1. CASE n = name
    <3>1. Len(s) + 1 \in DOMAIN r  BY <1>3
    <3>2. r[Len(s) + 1].name = n /\ f.models[n] = r[Len(s) + 1].model  BY <2>1, <1>3, <1>4
    <3>3. \A j \in DOMAIN r : j <= Len(s) + 1  BY <1>3
    <3> QED  BY <3>1, <3>2, <3>3
  <2>2. CASE n # name
    <3>1. f.models[n] = e.models[n] /\ r[Len(s) + 1].name # n  BY <2>2, <1>3, <1>4
    <3>2. \A j \in DOMAIN r : r[j].name = n => j \in DOMAIN s /\ s[j].name = n
      BY <3>1, <1>3
    <3>3. CASE e.models[n] = NoModel /\ \A i \in DOMAIN s : s[i].name # n
      BY <3>1, <3>2, <3>3
    <3>4. CASE \E i \in DOMAIN s : /\ s[i].name = n /\ e.models[n] = s[i].model
                                   /\ \A j \in DOMAIN s : s[j].name = n => j <= i
      <4>1. PICK i \in DOMAIN s : /\ s[i].name = n /\ e.models[n] = s[i].model
                                  /\ \A j \in DOMAIN s : s[j].name = n => j <= i
        BY <3>4
      <4>2. i \in DOMAIN r /\ r[i] = s[i]  BY <1>3
      <4> QED  BY <4>1, <4>2, <3>1, <3>2
    <3> QED  BY <3>3, <3>4 DEF Follows
  <2> QED  BY <2>1, <2>2
<1>7. f.models[Default] = IF f.kind = "Embedding" /\ r # <<>> THEN r[1].model ELSE NoModel
  <2>1. r # <<>> /\ (s = <<>> => r[1] = reg) /\ (s # <<>> => r[1] = s[1])
    <3>1. Len(s) = 0 <=> s = <<>>  BY <1>2, EmptySeq
    <3>2. r # <<>>  BY <1>3
    <3>3. s = <<>> => r[1] = reg  BY <1>3
    <3>4. s # <<>> => 1 \in DOMAIN s  BY <3>1, <1>3
    <3> QED  BY <3>2, <3>3, <3>4, <1>3
  <2>2. CASE s = <<>>  BY <2>1, <2>2, <1>1, <1>5 DEF Follows
  <2>3. CASE s # <<>>
    <3>1. 1 \in DOMAIN s  BY <2>3, <1>2, <1>3, EmptySeq
    <3>3. s[1] \in [name : Names, model : Models]  BY <3>1, <1>2, <1>3, ElementOfSeq
    <3>2. s[1].model # NoModel  BY <3>3, DistinctAssumption
    <3> QED  BY <2>1, <2>3, <3>2, <1>1, <1>5 DEF Follows
  <2> QED  BY <2>2, <2>3
<1> QED  BY <1>6, <1>7 DEF Follows, f

(***************************************************************************)
(* The executors.                                                          *)
(***************************************************************************)

\* A step of the task `t` itself.
Advanced(t) ==
    /\ UNCHANGED <<world, heap, at, bench>>
    /\ turn' = [turn EXCEPT ![t] = turn'[t]]
    /\ IsTurn(turn'[t]) /\ turn'[t].stage \in Kinds \cup {"done"}
    /\ Explained(turn'[t], MapOf(t), world)

LEMMA RunningTask ==
  ASSUME RigInv, NEW t \in Turns, turn[t].stage \in Kinds
  PROVE  /\ IsTurn(turn[t]) /\ at[t] \in Cells /\ MapOf(t) \in Map
         /\ Explained(turn[t], MapOf(t), world)
         /\ \A U : turn' = [turn EXCEPT ![t] = U] => turn'[t] = U
<1>1. turn[t] # Free  BY DEF Free, Kinds
<1>2. at[t] # Gone /\ Holds(t)  BY DEF RigInv, TurnsInv, Holds
<1>3. at[t] \in Cells  BY <1>2 DEF RigInv, RigTypeOK, Holders
<1>4. \A U : turn' = [turn EXCEPT ![t] = U] => turn'[t] = U  BY DEF RigInv, TurnsInv
<1> QED  BY <1>1, <1>2, <1>3, <1>4 DEF RigInv, TurnsInv, RigTypeOK, ExplainedInv, MapOf

LEMMA FailsStep ==
  ASSUME RigInv, NEW t \in Turns, turn[t].stage \in Kinds, NEW error, Fails(t, error)
  PROVE  /\ UNCHANGED <<world, heap, at, bench>> /\ turn' = [turn EXCEPT ![t] = turn'[t]]
         /\ IsTurn(turn'[t]) /\ turn'[t].stage = "done" /\ turn'[t].result = error
         /\ turn'[t].kind = turn[t].kind /\ turn'[t].key = turn[t].key
         /\ turn'[t].col = turn[t].col /\ turn'[t].fits = turn[t].fits
         /\ turn'[t].query = turn[t].query
<1> DEFINE U == [[turn[t] EXCEPT !.result = error] EXCEPT !.stage = "done"]
<1>1. turn' = [turn EXCEPT ![t] = U] /\ UNCHANGED <<world, heap, at, bench>>
  BY DEF Fails, Ends
<1>2. turn'[t] = U /\ IsTurn(turn[t])  BY <1>1, RunningTask
<1>3. /\ IsTurn(U) /\ U.stage = "done" /\ U.result = error
      /\ U.kind = turn[t].kind /\ U.key = turn[t].key
      /\ U.col = turn[t].col /\ U.fits = turn[t].fits /\ U.query = turn[t].query
  BY <1>2 DEF IsTurn, Kinds
<1> HIDE DEF U
<1> QED  BY <1>1, <1>2, <1>3

LEMMA AnswersStep ==
  ASSUME RigInv, NEW t \in Turns, turn[t].stage \in Kinds, NEW m, NEW docs,
         Answers(t, m, docs)
  PROVE  /\ UNCHANGED <<world, heap, at, bench>> /\ turn' = [turn EXCEPT ![t] = turn'[t]]
         /\ IsTurn(turn'[t]) /\ turn'[t].stage = "done" /\ turn'[t].result = "ok"
         /\ turn'[t].by = m /\ turn'[t].docs = docs
         /\ turn'[t].kind = turn[t].kind /\ turn'[t].key = turn[t].key
         /\ turn'[t].col = turn[t].col /\ turn'[t].fits = turn[t].fits
         /\ turn'[t].query = turn[t].query
<1> DEFINE U == [[turn[t] EXCEPT !.result = "ok", !.by = m, !.docs = docs]
                     EXCEPT !.stage = "done"]
<1>1. turn' = [turn EXCEPT ![t] = U] /\ UNCHANGED <<world, heap, at, bench>>
  BY DEF Answers, Ends
<1>2. turn'[t] = U /\ IsTurn(turn[t])  BY <1>1, RunningTask
<1>3. /\ IsTurn(U) /\ U.stage = "done" /\ U.result = "ok" /\ U.by = m /\ U.docs = docs
      /\ U.kind = turn[t].kind /\ U.key = turn[t].key
      /\ U.col = turn[t].col /\ U.fits = turn[t].fits /\ U.query = turn[t].query
  BY <1>2 DEF IsTurn, Kinds
<1> HIDE DEF U
<1> QED  BY <1>1, <1>2, <1>3

\* The key a step looks up, of a task of one step or two.
LEMMA UndispatchedStep ==
  ASSUME RigInv, NEW t \in Turns, NEW kind \in Kinds,
         Undispatched(t, kind, IF kind = "VectorStore" THEN turn[t].col ELSE turn[t].key)
  PROVE  Advanced(t)
<1> DEFINE key == IF kind = "VectorStore" THEN turn[t].col ELSE turn[t].key
<1>1. turn[t].stage = kind /\ turn[t].stage \in Kinds  BY DEF Undispatched
<1>2. IsTurn(turn[t]) /\ Explained(turn[t], MapOf(t), world)  BY <1>1, RunningTask
<1>3. \/ ~Has(MapOf(t), kind) /\ Fails(t, "NoExecutor")
      \/ Has(MapOf(t), kind) /\ ~Found(turn[t], MapOf(t), kind, key) /\ Fails(t, "NotFound")
  BY DEF Undispatched, Has, Found, Named, Model
<1> DEFINE U == turn'[t]
<1>4. /\ UNCHANGED <<world, heap, at, bench>> /\ turn' = [turn EXCEPT ![t] = U]
      /\ IsTurn(U) /\ U.stage = "done"
      /\ U.kind = turn[t].kind /\ U.key = turn[t].key
      /\ U.col = turn[t].col /\ U.fits = turn[t].fits
  BY <1>1, <1>3, FailsStep
<1>5. \/ ~Has(MapOf(t), kind) /\ U.result = "NoExecutor"
      \/ Has(MapOf(t), kind) /\ ~Found(turn[t], MapOf(t), kind, key) /\ U.result = "NotFound"
  BY <1>1, <1>3, FailsStep
<1>6. Explained(U, MapOf(t), world)
  <2>1. ~(U.stage = "VectorStore")  BY <1>4
  <2>2. CASE U.kind = "Retrieve"
    <3>1. kind \in {"Embedding", "VectorStore"}  BY <1>1, <1>2, <1>4, <2>2 DEF IsTurn, Kinds
    <3>2. kind = "VectorStore" => Found(U, MapOf(t), "Embedding", U.key)
      BY <1>1, <1>2, <1>4, <2>2 DEF Explained, Halfway, Found
    <3>3. RetrieveOver(U, MapOf(t), world)
      BY <3>1, <3>2, <1>4, <1>5 DEF RetrieveOver, Found, Has
    <3> QED  BY <2>1, <2>2, <3>3 DEF Explained, Halfway
  <2>3. CASE U.kind # "Retrieve"
    <3>1. U.kind = kind /\ key = U.key  BY <1>1, <1>2, <1>4, <2>3 DEF IsTurn
    <3>2. SingleOver(U, MapOf(t))  BY <3>1, <1>4, <1>5 DEF SingleOver, Found, Has
    <3> QED  BY <2>1, <2>3, <3>2 DEF Explained, Halfway
  <2> QED  BY <2>2, <2>3
<1> QED  BY <1>4, <1>6 DEF Advanced

\* The three executors of prompts, and a task of one step that succeeds.
LEMMA DispatchedStep ==
  ASSUME RigInv, NEW t \in Turns, NEW kind \in Kinds, NEW docs,
         turn[t].kind # "Retrieve", Dispatched(t, kind, turn[t].key),
         \/ Answers(t, Model(t, kind, turn[t].key), docs)
         \/ Fails(t, "Failed") \/ Fails(t, "StructuredOutput")
  PROVE  Advanced(t)
<1> DEFINE U == turn'[t]
<1>1. turn[t].stage = kind /\ turn[t].stage \in Kinds /\ IsTurn(turn[t])
  BY RunningTask DEF Dispatched
<1>2. turn[t].kind = kind  BY <1>1 DEF IsTurn
<1>3. Found(turn[t], MapOf(t), kind, turn[t].key)
  BY DEF Dispatched, Model, Found, Has, Named
<1>4. /\ UNCHANGED <<world, heap, at, bench>> /\ turn' = [turn EXCEPT ![t] = U]
      /\ IsTurn(U) /\ U.stage = "done"
      /\ U.kind = turn[t].kind /\ U.key = turn[t].key
      /\ U.col = turn[t].col /\ U.fits = turn[t].fits
      /\ U.result \in {"ok", "Failed", "StructuredOutput"}
      /\ U.result = "ok" => U.by = Named(MapOf(t), kind, turn[t].key)
  <2>1. CASE Answers(t, Model(t, kind, turn[t].key), docs)
    BY <2>1, <1>1, <1>3, AnswersStep DEF Model, Found, Named
  <2>2. CASE Fails(t, "Failed")  BY <2>2, <1>1, FailsStep
  <2>3. CASE Fails(t, "StructuredOutput")  BY <2>3, <1>1, FailsStep
  <2> QED  BY <2>1, <2>2, <2>3
<1>5. SingleOver(U, MapOf(t))  BY <1>2, <1>3, <1>4 DEF SingleOver, Found, Has
<1>6. Explained(U, MapOf(t), world)  BY <1>2, <1>4, <1>5 DEF Explained, Halfway
<1> QED  BY <1>4, <1>6 DEF Advanced

LEMMA RetrieveStep ==
  ASSUME RigInv, NEW t \in Turns, turn[t].kind = "Retrieve",
         Embedding(t) \/ VectorStore(t)
  PROVE  Advanced(t)
<1> DEFINE U == turn'[t]
<1>1. CASE Embedding(t) /\ ~Undispatched(t, "Embedding", turn[t].key)
  <2> DEFINE m == Model(t, "Embedding", turn[t].key)
  <2>1. turn[t].stage = "Embedding" /\ turn[t].stage \in Kinds /\ IsTurn(turn[t])
    BY <1>1, RunningTask DEF Embedding, Dispatched, Kinds
  <2>2. /\ Found(turn[t], MapOf(t), "Embedding", turn[t].key)
        /\ m = Named(MapOf(t), "Embedding", turn[t].key)
    BY <1>1 DEF Embedding, Dispatched, Model, Found, Has, Named
  <2>3. ASSUME NEW e \in {"Failed", "NoVectors"}, Fails(t, e)
        PROVE  Advanced(t)
    <3>1. /\ UNCHANGED <<world, heap, at, bench>> /\ turn' = [turn EXCEPT ![t] = U]
          /\ IsTurn(U) /\ U.stage = "done" /\ U.result = e
          /\ U.kind = turn[t].kind /\ U.key = turn[t].key
          /\ U.col = turn[t].col /\ U.fits = turn[t].fits
      BY <2>1, <2>3, FailsStep
    <3>2. RetrieveOver(U, MapOf(t), world)  BY <2>2, <3>1 DEF RetrieveOver, Found
    <3> QED  BY <3>1, <3>2 DEF Advanced, Explained, Halfway
  <2>4. ASSUME turn' = [turn EXCEPT ![t].stage = "VectorStore", ![t].query = world.vec[m]],
               UNCHANGED <<world, heap, at, bench, budget>>
        PROVE  Advanced(t)
    <3>0. turn = [x \in Turns |-> turn[x]]  BY DEF RigInv, TurnsInv
    <3>1. U = [turn[t] EXCEPT !.stage = "VectorStore", !.query = world.vec[m]]
      BY <2>4, <3>0
    <3>2. turn' = [turn EXCEPT ![t] = U]  BY <2>4, <3>0, <3>1
    <3>3. /\ IsTurn(U) /\ U.stage = "VectorStore" /\ U.query = world.vec[m]
          /\ U.kind = turn[t].kind /\ U.key = turn[t].key /\ U.fits = turn[t].fits
      BY <3>1, <2>1 DEF IsTurn, Kinds
    <3>4. Halfway(U, MapOf(t), world)  BY <3>3, <2>2 DEF Halfway, Found
    <3> QED  BY <2>4, <3>2, <3>3, <3>4 DEF Advanced, Explained, Kinds
  <2> QED  BY <1>1, <2>3, <2>4 DEF Embedding
<1>2. CASE VectorStore(t) /\ ~Undispatched(t, "VectorStore", turn[t].col)
  <2> DEFINE m == Model(t, "VectorStore", turn[t].col)
             docs == Search(world.docs[m], turn[t].query, world.k)
  <2>1. /\ turn[t].stage = "VectorStore" /\ turn[t].stage \in Kinds /\ IsTurn(turn[t])
        /\ Explained(turn[t], MapOf(t), world)
    BY <1>2, RunningTask DEF VectorStore, Dispatched, Kinds
  <2>2. /\ Found(turn[t], MapOf(t), "VectorStore", turn[t].col)
        /\ m = Named(MapOf(t), "VectorStore", turn[t].col)
    BY <1>2 DEF VectorStore, Dispatched, Model, Found, Has, Named
  <2>3. /\ Found(turn[t], MapOf(t), "Embedding", turn[t].key)
        /\ turn[t].query = world.vec[Named(MapOf(t), "Embedding", turn[t].key)]
    BY <2>1 DEF Explained, Halfway
  <2>4. Answers(t, m, docs)  BY <1>2 DEF VectorStore
  <2> HIDE DEF docs, m
  <2>5. /\ UNCHANGED <<world, heap, at, bench>> /\ turn' = [turn EXCEPT ![t] = U]
        /\ IsTurn(U) /\ U.stage = "done" /\ U.result = "ok" /\ U.by = m /\ U.docs = docs
        /\ U.kind = turn[t].kind /\ U.key = turn[t].key
        /\ U.col = turn[t].col /\ U.fits = turn[t].fits
    BY <2>1, <2>4, AnswersStep
  <2>6. U.docs = Search(world.docs[Named(MapOf(t), "VectorStore", U.col)],
                        world.vec[Named(MapOf(t), "Embedding", U.key)], world.k)
    BY <2>2, <2>3, <2>5 DEF docs
  <2>7. RetrieveOver(U, MapOf(t), world)
    BY <2>2, <2>3, <2>5, <2>6 DEF RetrieveOver, Found
  <2> QED  BY <2>5, <2>7 DEF Advanced, Explained, Halfway
<1>3. CASE Undispatched(t, "Embedding", turn[t].key)  BY <1>3, UndispatchedStep DEF Kinds
<1>4. CASE Undispatched(t, "VectorStore", turn[t].col)  BY <1>4, UndispatchedStep DEF Kinds
<1> QED  BY <1>1, <1>2, <1>3, <1>4

LEMMA ExecutorStep ==
  ASSUME RigInv, NEW t \in Turns, Step(t), ~Reply(t)
  PROVE  Advanced(t) /\ Holds(t)
<1> USE DEF Kinds
<1>0. turn[t].stage \in Kinds
  BY DEF Step, Completion, Chat, Structured, Embedding, VectorStore, Undispatched, Dispatched
<1>1. CASE turn[t].kind = "Retrieve"
  <2>1. IsTurn(turn[t])  BY <1>0, RunningTask
  <2>2. turn[t].stage \in {"Embedding", "VectorStore"}  BY <1>0, <1>1, <2>1 DEF IsTurn
  <2>3. Embedding(t) \/ VectorStore(t)
    BY <2>2 DEF Step, Completion, Chat, Structured, Undispatched, Dispatched
  <2> QED  BY <1>0, <1>1, <2>3, RetrieveStep DEF Holds
<1>2. CASE turn[t].kind # "Retrieve"
  <2>1. turn[t].col = turn[t].key  BY <1>0, <1>2, RunningTask DEF IsTurn
  <2>0. Holds(t)  BY <1>0 DEF Holds
  <2>7. ASSUME NEW kind \in Kinds, Undispatched(t, kind, turn[t].key)  PROVE Advanced(t)
    BY <2>1, <2>7, UndispatchedStep
  <2>8. ASSUME NEW kind \in Kinds, NEW docs, Dispatched(t, kind, turn[t].key),
               \/ Answers(t, Model(t, kind, turn[t].key), docs)
               \/ Fails(t, "Failed") \/ Fails(t, "StructuredOutput")
        PROVE  Advanced(t)
    BY <1>2, <2>8, DispatchedStep
  <2>2. CASE Completion(t)
    <3>1. "Completion" \in Kinds  OBVIOUS
    <3> HIDE DEF Kinds
    <3> QED  BY <3>1, <2>0, <2>2, <2>7, <2>8 DEF Completion
  <2>3. CASE Chat(t)
    <3>1. "Chat" \in Kinds  OBVIOUS
    <3> HIDE DEF Kinds
    <3> QED  BY <3>1, <2>0, <2>3, <2>7, <2>8 DEF Chat
  <2>4. CASE Structured(t)
    <3>1. "Structured" \in Kinds  OBVIOUS
    <3> HIDE DEF Kinds
    <3> QED  BY <3>1, <2>0, <2>4, <2>7, <2>8 DEF Structured
  <2>5. CASE Embedding(t)
    <3>1. "Embedding" \in Kinds  OBVIOUS
    <3> HIDE DEF Kinds
    <3> QED  BY <3>1, <2>0, <2>5, <1>2, <2>7, <2>8 DEF Embedding
  <2>6. CASE VectorStore(t)
    <3>1. "VectorStore" \in Kinds  OBVIOUS
    <3> HIDE DEF Kinds
    <3> QED  BY <3>1, <2>0, <2>6, <2>1, <2>7, <2>8 DEF VectorStore
  <2> QED  BY <1>0, <2>2, <2>3, <2>4, <2>5, <2>6 DEF Step, Holds
<1> QED  BY <1>1, <1>2

(***************************************************************************)
(* Who sees what: the effect of a step on the maps.                        *)
(***************************************************************************)

LEMMA SweepKeeps ==
  ASSUME heap \in [Cells -> Map], NEW a \in [Holders -> Cells \cup {Gone}]
  PROVE  /\ Swept(heap, a) \in [Cells -> Map]
         /\ \A h \in Holders : a[h] # Gone => Swept(heap, a)[a[h]] = heap[a[h]]
BY DEF Swept, Nothing, Map

LEMMA Registering ==
  ASSUME RigTypeOK, NEW r \in Runtimes, RegisterExecutor(r)
  PROVE  /\ bench \in Executor /\ bench.kind \in Kinds
         /\ RigTypeOK' /\ UNCHANGED <<world, turn>>
         /\ at[r] # Gone /\ at'[r] # Gone
         /\ heap'[at'[r]] = [heap[at[r]] EXCEPT ![bench.kind] = bench]
         /\ \A h \in Holders \ {r} :
                at'[h] = at[h] /\ (at[h] # Gone => heap'[at[h]] = heap[at[h]])
         /\ \A c \in Cells : \/ heap'[c] = heap[c]
                             \/ heap'[c] = [heap[at[r]] EXCEPT ![bench.kind] = bench]
<1> DEFINE map == [MapOf(r) EXCEPT ![bench.kind] = bench]
<1>1. r \in Holders /\ at[r] \in Cells  BY DEF RegisterExecutor, RigTypeOK, Holders
<1>2. bench \in Executor /\ bench.kind \in Kinds
  BY DEF RegisterExecutor, RigTypeOK, Executor
<1>3. map \in Map /\ map = [heap[at[r]] EXCEPT ![bench.kind] = bench]
  BY <1>1, <1>2 DEF RigTypeOK, Map, MapOf
<1> HIDE DEF map
<1>4. UNCHANGED <<world, turn>> /\ bench' = NoExecutor  BY DEF RegisterExecutor
<1>5. CASE Shared(r)
  <2>1. PICK c \in Cells : /\ \A h \in Holders : at[h] # c
                           /\ heap' = [heap EXCEPT ![c] = map]
                           /\ at' = [at EXCEPT ![r] = c]
    BY <1>5 DEF RegisterExecutor, map
  <2>2. c # Gone  BY DistinctAssumption
  <2>3. /\ heap' \in [Cells -> Map] /\ at' \in [Holders -> Cells \cup {Gone}]
        /\ at'[r] = c /\ heap'[c] = map
    BY <1>1, <1>3, <2>1 DEF RigTypeOK
  <2>4. RigTypeOK'  BY <1>4, <2>3 DEF RigTypeOK
  <2>5. \A h \in Holders \ {r} :
           at'[h] = at[h] /\ (at[h] # Gone => heap'[at[h]] = heap[at[h]])
    BY <1>1, <2>1 DEF RigTypeOK
  <2>6. \A d \in Cells : heap'[d] = heap[d] \/ heap'[d] = map
    BY <2>1 DEF RigTypeOK
  <2> QED  BY <1>1, <1>2, <1>3, <1>4, <2>2, <2>3, <2>4, <2>5, <2>6, DistinctAssumption
<1>6. CASE ~Shared(r)
  <2>1. heap' = [heap EXCEPT ![at[r]] = map] /\ at' = at
    BY <1>6 DEF RegisterExecutor, map
  <2>2. \A h \in Holders \ {r} : at[h] # at[r]  BY <1>6 DEF Shared
  <2>3. heap' \in [Cells -> Map] /\ heap'[at[r]] = map  BY <1>1, <1>3, <2>1 DEF RigTypeOK
  <2>4. RigTypeOK'  BY <1>4, <2>1, <2>3 DEF RigTypeOK
  <2>5. \A h \in Holders \ {r} : at[h] # Gone => heap'[at[h]] = heap[at[h]]
    BY <2>1, <2>2 DEF RigTypeOK
  <2>6. \A d \in Cells : heap'[d] = heap[d] \/ heap'[d] = map
    BY <2>1 DEF RigTypeOK
  <2> QED
    BY <1>1, <1>2, <1>3, <1>4, <2>1, <2>3, <2>4, <2>5, <2>6, DistinctAssumption
<1> QED  BY <1>5, <1>6

\* A runtime that is dropped, or a task that is over.
Leaves(h) ==
    /\ at[h] # Gone /\ at' = [at EXCEPT ![h] = Gone]
    /\ heap' = Swept(heap, at') /\ UNCHANGED <<world, bench>>

LEMMA Leaving ==
  ASSUME RigTypeOK, NEW h \in Holders, Leaves(h)
  PROVE  /\ RigTypeOK' /\ at'[h] = Gone
         /\ \A x \in Holders \ {h} :
                at'[x] = at[x] /\ (at[x] # Gone => heap'[at[x]] = heap[at[x]])
         /\ \A c \in Cells : heap'[c] = heap[c] \/ heap'[c] = Nothing
<1>1. at' \in [Holders -> Cells \cup {Gone}]  BY DEF Leaves, RigTypeOK
<1>2. /\ heap' \in [Cells -> Map]
      /\ \A x \in Holders : at'[x] # Gone => heap'[at'[x]] = heap[at'[x]]
  BY <1>1, SweepKeeps DEF Leaves, RigTypeOK
<1>3. at'[h] = Gone /\ \A x \in Holders \ {h} : at'[x] = at[x]
  BY DEF Leaves, RigTypeOK
<1>4. \A c \in Cells : heap'[c] = heap[c] \/ heap'[c] = Nothing
  BY DEF Leaves, Swept
<1>5. RigTypeOK'  BY <1>1, <1>2 DEF RigTypeOK, Leaves
<1> QED  BY <1>2, <1>3, <1>4, <1>5

\* A runtime is cloned, or a task gets a context.
Joins(r, h) == /\ at[r] # Gone /\ at[h] = Gone /\ at' = [at EXCEPT ![h] = at[r]]
               /\ UNCHANGED <<world, heap, bench>>

LEMMA Joining ==
  ASSUME RigTypeOK, NEW r \in Runtimes, NEW h \in Holders, Joins(r, h)
  PROVE  /\ RigTypeOK' /\ at'[h] = at[r]
         /\ \A x \in Holders \ {h} : at'[x] = at[x]
BY DEF Joins, RigTypeOK, Holders

(***************************************************************************)
(* The steps of the specification, each as one of the above.               *)
(***************************************************************************)

LEMMA Cases ==
  ASSUME RigInv, Next
  PROVE  \/ (\E kind \in Kinds : NewOnBench(kind))
         \/ (\E name \in Names, m \in Models : AddModel(name, m))
         \/ (\E r \in Runtimes : RegisterExecutor(r))
         \/ (\E r \in Runtimes : Leaves(r) /\ UNCHANGED turn)
         \/ (\E r, s \in Runtimes : Joins(r, s) /\ UNCHANGED turn)
         \/ (\E r \in Runtimes, t \in Turns : SpawnIo(r, t) \/ SpawnRetrieve(r, t))
         \/ (\E t \in Turns : Advanced(t) /\ Holds(t))
         \/ (\E t \in Turns : Reply(t))
<1>1. /\ world.kinds \subseteq Kinds /\ world.names \subseteq Names
      /\ world.runtimes \subseteq Runtimes /\ world.turns \subseteq Turns
  BY WorldsAssumption DEF RigInv, RigTypeOK
<1>2. CASE Host
  <2>1. CASE \E kind \in world.kinds : NewOnBench(kind)  BY <1>1, <2>1
  <2>2. CASE \E name \in world.names, m \in Models : AddModel(name, m)  BY <1>1, <2>2
  <2>3. CASE \E r \in Runtimes : RegisterExecutor(r) \/ DropRuntime(r)
    BY <2>3 DEF DropRuntime, Leaves
  <2>4. CASE \E r \in Runtimes, s \in world.runtimes : Clone(r, s)
    BY <1>1, <2>4 DEF Clone, Joins
  <2>5. CASE \E r \in Runtimes, t \in world.turns : SpawnIo(r, t) \/ SpawnRetrieve(r, t)
    BY <1>1, <2>5
  <2> QED  BY <1>2, <2>1, <2>2, <2>3, <2>4, <2>5 DEF Host
<1>3. CASE \E t \in Turns : Step(t)
  <2>1. PICK t \in Turns : Step(t)  BY <1>3
  <2>2. CASE Reply(t)  BY <2>2
  <2>3. CASE ~Reply(t)  BY <2>1, <2>3, ExecutorStep
  <2> QED  BY <2>2, <2>3
<1> QED  BY <1>2, <1>3 DEF Next

LEMMA Spawning ==
  ASSUME RigInv, NEW r \in Runtimes, NEW t \in Turns, SpawnIo(r, t) \/ SpawnRetrieve(r, t)
  PROVE  /\ Joins(r, t) /\ ~Holds(t) /\ turn' = [turn EXCEPT ![t] = turn'[t]]
         /\ IsTurn(turn'[t]) /\ turn'[t].stage \in Kinds
         /\ turn'[t].stage = "VectorStore" => turn'[t].kind # "Retrieve"
<1> DEFINE Asked(kind, key, col, fits, query) ==
        [stage |-> IF kind = "Retrieve" THEN "Embedding" ELSE kind,
         kind |-> kind, key |-> key, col |-> col, fits |-> fits,
         query |-> query, result |-> "none", by |-> NoModel, docs |-> <<>>]
<1>1. PICK kind, key, col, fits, query :
         /\ kind \in Kinds \cup {"Retrieve"} /\ (kind # "Retrieve" => col = key)
         /\ Spawn(r, t, kind, key, col, fits, query)
  <2>1. world.kinds \subseteq Kinds  BY WorldsAssumption DEF RigInv, RigTypeOK
  <2>2. CASE SpawnIo(r, t)
    <3>1. PICK kind \in world.kinds, key \in world.names \cup {Default}, fits \in world.fits :
             Spawn(r, t, kind, key, key, fits,
                   IF kind = "VectorStore" THEN world.query ELSE <<>>)
      BY <2>2 DEF SpawnIo
    <3> QED  BY <2>1, <3>1
  <2>3. CASE SpawnRetrieve(r, t)  BY <2>3 DEF SpawnRetrieve
  <2> QED  BY <2>2, <2>3
<1>2. turn' = [turn EXCEPT ![t] = Asked(kind, key, col, fits, query)]
  BY <1>1 DEF Spawn
<1>3. turn'[t] = Asked(kind, key, col, fits, query)  BY <1>2 DEF RigInv, TurnsInv
<1>4. IsTurn(turn'[t]) /\ turn'[t].stage \in Kinds
  BY <1>1, <1>3 DEF IsTurn, Kinds
<1>5. turn'[t].stage = "VectorStore" => turn'[t].kind # "Retrieve"  BY <1>3
<1>6. turn[t].stage = "free" /\ Joins(r, t)
  <2>1. at[r] # Gone /\ turn[t].stage = "free" /\ at' = [at EXCEPT ![t] = at[r]]
        /\ UNCHANGED <<world, heap, bench>>
    BY <1>1 DEF Spawn
  <2>2. ~Holds(t)  BY <2>1 DEF Holds, Kinds
  <2> QED  BY <2>1, <2>2 DEF Joins, RigInv, TurnsInv
<1> HIDE DEF Asked
<1>7. ~Holds(t)  BY <1>6 DEF Holds, Kinds
<1> QED  BY <1>2, <1>3, <1>4, <1>5, <1>6, <1>7

LEMMA Replying ==
  ASSUME RigInv, NEW t \in Turns, Reply(t)
  PROVE  /\ Leaves(t) /\ turn' = [turn EXCEPT ![t] = turn'[t]]
         /\ IsTurn(turn'[t]) /\ turn'[t].stage = "over"
<1>1. turn[t].stage = "done" /\ Holds(t)  BY DEF Reply, Holds
<1>2. IsTurn(turn[t]) /\ at[t] # Gone  BY <1>1 DEF RigInv, TurnsInv, Free
<1>3. turn = [x \in Turns |-> turn[x]]  BY DEF RigInv, TurnsInv
<1>4. turn' = [turn EXCEPT ![t] = turn'[t]] /\ turn'[t] = [turn[t] EXCEPT !.stage = "over"]
  BY <1>3 DEF Reply
<1>5. IsTurn(turn'[t]) /\ turn'[t].stage = "over"  BY <1>2, <1>4 DEF IsTurn, Kinds
<1> QED  BY <1>2, <1>4, <1>5 DEF Reply, Leaves

\* The tasks a step leaves alone, and the one it does not.
LEMMA TurnsStay ==
  ASSUME RigInv, RigTypeOK', NEW t \in Turns, world' = world,
         turn' = [turn EXCEPT ![t] = turn'[t]],
         \A x \in Turns \ {t} : /\ at'[x] = at[x]
                                /\ at[x] # Gone => heap'[at[x]] = heap[at[x]],
         turn'[t] = Free \/ IsTurn(turn'[t]), at'[t] # Gone <=> Holds(t)',
         Holds(t)' => Explained(turn'[t], heap'[at'[t]], world)
  PROVE  RigInv'
<1>1. turn = [x \in Turns |-> turn[x]]  BY DEF RigInv, TurnsInv
<1>2. \A x \in Turns \ {t} : turn'[x] = turn[x]  BY <1>1
<1>3. turn' = [x \in Turns |-> turn'[x]]  BY <1>1
<1>4. \A x \in Turns \ {t} : Holds(x)' <=> Holds(x)  BY <1>2 DEF Holds
<1>5. TurnsInv'
  <2>1. ASSUME NEW x \in Turns
        PROVE  (turn'[x] = Free \/ IsTurn(turn'[x])) /\ (at'[x] # Gone <=> Holds(x)')
    <3>1. CASE x = t  BY <3>1
    <3>2. CASE x # t
      <4>1. x \in Turns \ {t}  BY <3>2
      <4>2. turn'[x] = turn[x] /\ at'[x] = at[x] /\ (Holds(x)' <=> Holds(x))
        BY <4>1, <1>2, <1>4
      <4>3. (turn[x] = Free \/ IsTurn(turn[x])) /\ (at[x] # Gone <=> Holds(x))
        BY DEF RigInv, TurnsInv
      <4> QED  BY <4>2, <4>3
    <3> QED  BY <3>1, <3>2
  <2> QED  BY <2>1, <1>3 DEF TurnsInv
<1>6. ASSUME NEW x \in Turns, Holds(x)'  PROVE Explained(turn'[x], heap'[at'[x]], world)
  <2>1. CASE x = t  BY <1>6, <2>1
  <2>2. CASE x # t
    <3>1. Holds(x) /\ at[x] # Gone /\ turn'[x] = turn[x]
      BY <1>2, <1>4, <1>6, <2>2 DEF RigInv, TurnsInv
    <3>0. x \in Turns \ {t}  BY <2>2
    <3>2. at'[x] = at[x] /\ heap'[at[x]] = heap[at[x]]  BY <3>0, <3>1
    <3> QED  BY <3>1, <3>2 DEF RigInv, ExplainedInv, MapOf
  <2> QED  BY <2>1, <2>2
<1>7. ExplainedInv'  BY <1>6 DEF ExplainedInv, MapOf
<1> QED  BY <1>5, <1>7 DEF RigInv

\* A step that touches no task.
LEMMA NoTurnMoves ==
  ASSUME RigInv, RigTypeOK', UNCHANGED <<world, turn>>,
         \A x \in Turns : /\ at'[x] = at[x]
                          /\ at[x] # Gone => heap'[at[x]] = heap[at[x]]
  PROVE  RigInv'
<1>1. TurnsInv'  BY DEF RigInv, TurnsInv, Holds
<1>2. ASSUME NEW x \in Turns, Holds(x)'  PROVE Explained(turn'[x], heap'[at'[x]], world)
  <2>1. Holds(x) /\ at[x] # Gone  BY <1>2 DEF RigInv, TurnsInv, Holds
  <2>2. at'[x] = at[x] /\ heap'[at[x]] = heap[at[x]]  BY <2>1
  <2> QED  BY <2>1, <2>2 DEF RigInv, ExplainedInv, MapOf
<1>3. ExplainedInv'  BY <1>2 DEF ExplainedInv, MapOf
<1> QED  BY <1>1, <1>3 DEF RigInv

LEMMA RigInit ==
  ASSUME Init
  PROVE  RigInv /\ HistoryInv
<1>1. RigTypeOK  BY DEF Init, RigTypeOK, Map, Nothing, Holders
<1>2. \A t \in Turns : turn[t] = Free /\ ~Holds(t)
  BY DEF Init, Free, Holds, Kinds
<1>3. \A t \in Turns : at[t] = Gone
  BY DistinctAssumption, WorldsAssumption DEF Init, Holders
<1>4. turn = [t \in Turns |-> turn[t]]  BY DEF Init
<1>5. HistoryInv
  <2>1. bench = NoExecutor /\ \A c \in Cells, k \in Kinds : heap[c][k] = NoExecutor
    BY DEF Init, Nothing
  <2> QED  BY <2>1 DEF HistoryInv
<1> QED  BY <1>1, <1>2, <1>3, <1>4, <1>5 DEF RigInv, TurnsInv, ExplainedInv

LEMMA RigNext ==
  ASSUME RigInv, [Next]_vars
  PROVE  RigInv'
<1>0. CASE UNCHANGED vars
  BY <1>0 DEF vars, RigInv, RigTypeOK, TurnsInv, ExplainedInv, Holds, MapOf
<1>1. CASE \E kind \in Kinds : NewOnBench(kind)
  <2>1. UNCHANGED <<world, heap, at, turn>> /\ bench' \in Executor
    BY <1>1, NewIsExecutor DEF NewOnBench
  <2>2. RigTypeOK'  BY <2>1 DEF RigInv, RigTypeOK
  <2> QED  BY <2>1, <2>2, NoTurnMoves
<1>2. CASE \E name \in Names, m \in Models : AddModel(name, m)
  <2>1. bench \in Executor  BY <1>2 DEF AddModel, RigInv, RigTypeOK
  <2>2. UNCHANGED <<world, heap, at, turn>> /\ bench' \in Executor
    BY <1>2, <2>1, WithModelIsExecutor DEF AddModel
  <2>3. RigTypeOK'  BY <2>2 DEF RigInv, RigTypeOK
  <2> QED  BY <2>2, <2>3, NoTurnMoves
<1>3. CASE \E r \in Runtimes : RegisterExecutor(r)
  <2>1. PICK r \in Runtimes : RegisterExecutor(r)  BY <1>3
  <2>2. \A x \in Turns : x \in Holders \ {r}  BY DistinctAssumption DEF Holders
  <2> QED  BY <2>1, <2>2, Registering, NoTurnMoves DEF RigInv
<1>4. CASE \E r \in Runtimes : Leaves(r) /\ UNCHANGED turn
  <2>1. PICK r \in Runtimes : Leaves(r) /\ UNCHANGED turn  BY <1>4
  <2>2. r \in Holders /\ \A x \in Turns : x \in Holders \ {r}
    BY DistinctAssumption DEF Holders
  <2>3. /\ RigTypeOK' /\ UNCHANGED <<world, turn>>
        /\ \A x \in Turns : at'[x] = at[x] /\ (at[x] # Gone => heap'[at[x]] = heap[at[x]])
    BY <2>1, <2>2, Leaving DEF RigInv, Leaves
  <2> QED  BY <2>3, NoTurnMoves
<1>5. CASE \E r, s \in Runtimes : Joins(r, s) /\ UNCHANGED turn
  <2>1. PICK r \in Runtimes, s \in Runtimes : Joins(r, s) /\ UNCHANGED turn  BY <1>5
  <2>2. s \in Holders /\ \A x \in Turns : x \in Holders \ {s}
    BY DistinctAssumption DEF Holders
  <2>3. /\ RigTypeOK' /\ UNCHANGED <<world, turn, heap>>
        /\ \A x \in Turns : at'[x] = at[x]
    BY <2>1, <2>2, Joining DEF RigInv, Joins
  <2> QED  BY <2>3, NoTurnMoves
<1>6. CASE \E r \in Runtimes, t \in Turns : SpawnIo(r, t) \/ SpawnRetrieve(r, t)
  <2>1. PICK r \in Runtimes, t \in Turns : SpawnIo(r, t) \/ SpawnRetrieve(r, t)  BY <1>6
  <2>2. /\ Joins(r, t) /\ turn' = [turn EXCEPT ![t] = turn'[t]]
        /\ IsTurn(turn'[t]) /\ turn'[t].stage \in Kinds
        /\ turn'[t].stage = "VectorStore" => turn'[t].kind # "Retrieve"
    BY <2>1, Spawning
  <2>3. t \in Holders /\ \A x \in Turns \ {t} : x \in Holders \ {t}  BY DEF Holders
  <2>4. /\ RigTypeOK' /\ UNCHANGED <<world, heap>> /\ at'[t] # Gone
        /\ \A x \in Turns \ {t} : at'[x] = at[x]
    BY <2>2, <2>3, Joining DEF RigInv, Joins
  <2>5. Holds(t)' /\ Explained(turn'[t], heap'[at'[t]], world)
    BY <2>2 DEF Holds, Explained, Halfway, Kinds
  <2> QED  BY <2>2, <2>4, <2>5, TurnsStay
<1>7. CASE \E t \in Turns : Advanced(t) /\ Holds(t)
  <2>1. PICK t \in Turns : Advanced(t) /\ Holds(t)  BY <1>7
  <2>2. /\ UNCHANGED <<world, heap, at, bench>> /\ turn' = [turn EXCEPT ![t] = turn'[t]]
        /\ IsTurn(turn'[t]) /\ Holds(t)' /\ Explained(turn'[t], heap'[at'[t]], world)
    BY <2>1 DEF Advanced, Holds, MapOf
  <2>3. RigTypeOK' /\ at'[t] # Gone  BY <2>1, <2>2 DEF RigInv, RigTypeOK, TurnsInv
  <2> QED  BY <2>2, <2>3, TurnsStay
<1>8. CASE \E t \in Turns : Reply(t)
  <2>1. PICK t \in Turns : Reply(t)  BY <1>8
  <2>2. /\ Leaves(t) /\ turn' = [turn EXCEPT ![t] = turn'[t]]
        /\ IsTurn(turn'[t]) /\ turn'[t].stage = "over"
    BY <2>1, Replying
  <2>3. t \in Holders /\ \A x \in Turns \ {t} : x \in Holders \ {t}  BY DEF Holders
  <2>4. /\ RigTypeOK' /\ world' = world /\ at'[t] = Gone
        /\ \A x \in Turns \ {t} :
              at'[x] = at[x] /\ (at[x] # Gone => heap'[at[x]] = heap[at[x]])
    BY <2>2, <2>3, Leaving DEF RigInv, Leaves
  <2>5. ~Holds(t)'  BY <2>2 DEF Holds, Kinds
  <2> QED  BY <2>2, <2>4, <2>5, TurnsStay
<1> QED  BY <1>0, <1>1, <1>2, <1>3, <1>4, <1>5, <1>6, <1>7, <1>8, Cases

LEMMA HistoryNext ==
  ASSUME RigInv, HistoryInv, [Next]_vars
  PROVE  HistoryInv'
<1>1. CASE UNCHANGED vars  BY <1>1 DEF vars, HistoryInv
<1>2. CASE \E kind \in Kinds : NewOnBench(kind)
  BY <1>2, NewIsExecutor DEF NewOnBench, HistoryInv
<1>3. CASE \E name \in Names, m \in Models : AddModel(name, m)
  <2>1. PICK name \in Names, m \in Models : AddModel(name, m)  BY <1>3
  <2>2. bench \in Executor /\ Follows(bench)
    BY <2>1 DEF AddModel, RigInv, RigTypeOK, HistoryInv
  <2>3. Follows(bench') /\ heap' = heap
    BY <2>1, <2>2, WithModelFollows DEF AddModel
  <2> QED  BY <2>3 DEF HistoryInv
<1>4. CASE \E r \in Runtimes : RegisterExecutor(r)
  <2>1. PICK r \in Runtimes : RegisterExecutor(r)  BY <1>4
  <2>2. bench # NoExecutor /\ bench' = NoExecutor /\ Follows(bench)
    BY <2>1 DEF RegisterExecutor, HistoryInv
  <2>3. /\ bench.kind \in Kinds /\ at[r] \in Cells
        /\ \A c \in Cells : \/ heap'[c] = heap[c]
                            \/ heap'[c] = [heap[at[r]] EXCEPT ![bench.kind] = bench]
    BY <2>1, Registering DEF RigInv, RigTypeOK, Holders
  <2>4. \A c \in Cells, k \in Kinds :
           heap'[c][k] = heap[c][k] \/ heap'[c][k] = heap[at[r]][k] \/ heap'[c][k] = bench
    BY <2>3 DEF RigInv, RigTypeOK, Map
  <2> QED  BY <2>2, <2>3, <2>4 DEF HistoryInv
<1>5. ASSUME NEW h \in Holders, Leaves(h)  PROVE HistoryInv'
  <2>1. bench' = bench /\ \A c \in Cells : heap'[c] = heap[c] \/ heap'[c] = Nothing
    BY <1>5, Leaving DEF RigInv, Leaves
  <2>2. \A c \in Cells, k \in Kinds : heap'[c][k] = heap[c][k] \/ heap'[c][k] = NoExecutor
    BY <2>1 DEF Nothing
  <2> QED  BY <2>1, <2>2 DEF HistoryInv
<1>6. ASSUME UNCHANGED <<heap, bench>>  PROVE HistoryInv'
  BY <1>6 DEF HistoryInv
<1>7. CASE \E r, s \in Runtimes : Joins(r, s) /\ UNCHANGED turn  BY <1>6, <1>7 DEF Joins
<1>8. CASE \E r \in Runtimes, t \in Turns : SpawnIo(r, t) \/ SpawnRetrieve(r, t)
  BY <1>6, <1>8, Spawning DEF Joins
<1>9. CASE \E t \in Turns : Advanced(t) /\ Holds(t)  BY <1>6, <1>9 DEF Advanced
<1>10. CASE \E t \in Turns : Reply(t)  BY <1>5, <1>10, Replying DEF Holders
<1>11. CASE \E r \in Runtimes : Leaves(r) /\ UNCHANGED turn  BY <1>5, <1>11 DEF Holders
<1> QED  BY <1>1, <1>2, <1>3, <1>4, <1>7, <1>8, <1>9, <1>10, <1>11, Cases

(***************************************************************************)
(* The theorems.                                                           *)
(***************************************************************************)

\* The invariant of executors and tasks (nanites-rig/src/lib.rs, and the
\* copy-on-write map of runtime.rs:126-138) holds for every configuration.
THEOREM RigInvariant == Spec => [](RigInv /\ HistoryInv)
<1>1. Init => RigInv /\ HistoryInv  BY RigInit
<1>2. RigInv /\ HistoryInv /\ [Next]_vars => (RigInv /\ HistoryInv)'
  BY RigNext, HistoryNext
<1> QED  BY <1>1, <1>2, PTL DEF Spec

\* How a task ended is explained by the one set of executors it was spawned
\* with (ctx.rs:240-250, nanites-rig/src/lib.rs:1206-1248).
THEOREM OneSetPerTurn == Spec => []OneTurnOneSet
<1>1. ASSUME RigInv, NEW t \in Turns, turn[t].stage = "done"
      PROVE  LET T == turn[t]
                 steps == IF T.kind = "Retrieve" THEN <<"Embedding", "VectorStore">>
                          ELSE <<T.kind>>
                 key(i) == IF i = 2 THEN T.col ELSE T.key
                 has(i) == MapOf(t)[steps[i]] # NoExecutor
                 named(i) == MapOf(t)[steps[i]].models[key(i)]
                 found(i) == has(i) /\ T.fits /\ named(i) # NoModel
                 before(i) == \A j \in 1 .. i - 1 : found(j)
                 n == Len(steps)
             IN /\ T.result \in {"ok", "Failed", "NoVectors", "StructuredOutput"} => found(1)
                /\ T.result = "ok" => (\A i \in 1 .. n : found(i)) /\ T.by = named(n)
                /\ T.result = "ok" /\ T.kind = "Retrieve" =>
                      T.docs = Search(world.docs[named(2)], world.vec[named(1)], world.k)
                /\ T.result = "NoExecutor" => \E i \in 1 .. n : before(i) /\ ~has(i)
                /\ T.result = "NotFound" => \E i \in 1 .. n : before(i) /\ has(i) /\ ~found(i)
  <2> DEFINE T == turn[t]
             map == MapOf(t)
             steps == IF T.kind = "Retrieve" THEN <<"Embedding", "VectorStore">> ELSE <<T.kind>>
             key(i) == IF i = 2 THEN T.col ELSE T.key
             has(i) == map[steps[i]] # NoExecutor
             named(i) == map[steps[i]].models[key(i)]
             found(i) == has(i) /\ T.fits /\ named(i) # NoModel
             before(i) == \A j \in 1 .. i - 1 : found(j)
             n == Len(steps)
  <2>1. Explained(T, map, world)  BY <1>1 DEF RigInv, ExplainedInv, Holds
  <2>2. before(1) /\ (found(1) => before(2))
    <3>1. \A j : ~(j \in 1 .. 0) /\ (j \in 1 .. 1 => j = 1)  OBVIOUS
    <3> HIDE DEF found
    <3> QED  BY <3>1
  <2>3. CASE T.kind = "Retrieve"
    <3>1. RetrieveOver(T, map, world)  BY <1>1, <2>1, <2>3 DEF Explained
    <3>2. steps[1] = "Embedding" /\ steps[2] = "VectorStore" /\ n = 2  BY <2>3
    <3>3. key(1) = T.key /\ key(2) = T.col  OBVIOUS
    <3> HIDE DEF steps, map, key
    <3>4. /\ has(1) <=> Has(map, "Embedding")
          /\ has(2) <=> Has(map, "VectorStore")
          /\ named(1) = Named(map, "Embedding", T.key)
          /\ named(2) = Named(map, "VectorStore", T.col)
      BY <3>2, <3>3 DEF Has, Named
    <3> HIDE DEF has, named
    <3>5. /\ found(1) <=> Found(T, map, "Embedding", T.key)
          /\ found(2) <=> Found(T, map, "VectorStore", T.col)
      BY <3>4 DEF Found
    <3> HIDE DEF found, before, n, T
    <3>6. 1 \in 1 .. n /\ 2 \in 1 .. n /\ \A i \in 1 .. n : i = 1 \/ i = 2  BY <3>2
    <3>7. T.result \in {"ok", "Failed", "NoVectors", "StructuredOutput"} => found(1)
      BY <3>1, <3>5 DEF RetrieveOver
    <3>8. T.result = "ok" => (\A i \in 1 .. n : found(i)) /\ T.by = named(n)
      BY <3>1, <3>2, <3>4, <3>5, <3>6, <3>7 DEF RetrieveOver
    <3>9. T.result = "ok" /\ T.kind = "Retrieve" =>
             T.docs = Search(world.docs[named(2)], world.vec[named(1)], world.k)
      BY <3>1, <3>4 DEF RetrieveOver
    <3>10. T.result = "NoExecutor" => \E i \in 1 .. n : before(i) /\ ~has(i)
      BY <3>1, <3>4, <3>5, <3>6, <2>2 DEF RetrieveOver
    <3>11. T.result = "NotFound" => \E i \in 1 .. n : before(i) /\ has(i) /\ ~found(i)
      BY <3>1, <3>4, <3>5, <3>6, <2>2 DEF RetrieveOver
    <3> QED  BY <3>7, <3>8, <3>9, <3>10, <3>11 DEF found, has, named, key, before, n, steps, T, map
  <2>4. CASE T.kind # "Retrieve"
    <3>1. SingleOver(T, map)  BY <1>1, <2>1, <2>4 DEF Explained
    <3>2. steps[1] = T.kind /\ n = 1 /\ key(1) = T.key  BY <2>4
    <3> HIDE DEF steps, map, key
    <3>3. (has(1) <=> Has(map, T.kind)) /\ named(1) = Named(map, T.kind, T.key)
      BY <3>2 DEF Has, Named
    <3> HIDE DEF has, named
    <3>4. found(1) <=> Found(T, map, T.kind, T.key)  BY <3>3 DEF Found
    <3> HIDE DEF found, before, n, T
    <3>5. 1 \in 1 .. n /\ \A i \in 1 .. n : i = 1  BY <3>2
    <3>6. T.result \in {"ok", "Failed", "NoVectors", "StructuredOutput"} => found(1)
      BY <3>1, <3>4 DEF SingleOver
    <3>7. T.result = "ok" => (\A i \in 1 .. n : found(i)) /\ T.by = named(n)
      BY <3>1, <3>2, <3>3, <3>4, <3>5 DEF SingleOver
    <3>8. T.result = "NoExecutor" => \E i \in 1 .. n : before(i) /\ ~has(i)
      BY <3>1, <3>3, <3>5, <2>2 DEF SingleOver
    <3>9. T.result = "NotFound" => \E i \in 1 .. n : before(i) /\ has(i) /\ ~found(i)
      BY <3>1, <3>3, <3>4, <3>5, <2>2 DEF SingleOver
    <3> QED  BY <2>4, <3>6, <3>7, <3>8, <3>9 DEF found, has, named, key, before, n, steps, T, map
  <2> QED  BY <2>3, <2>4
<1>2. RigInv => OneTurnOneSet  BY <1>1 DEF OneTurnOneSet
<1> QED  BY <1>2, RigInvariant, PTL

\* A name resolves to its last registration, the default of an embedding
\* executor to the first of all (nanites-rig/src/lib.rs:866-905).
THEOREM LookupsFollowRegistrations == Spec => []LookupFollowsHistory
<1>1. ASSUME NEW e \in Executor, Follows(e), NEW n \in Names
      PROVE  e.models[n] = LastNamed(e.regs, n)
  <2> DEFINE named == {i \in DOMAIN e.regs : e.regs[i].name = n}
             last == CHOOSE i \in named : \A j \in named : j <= i
  <2>1. DOMAIN e.regs \subseteq Nat  BY DEF Executor
  <2>2. CASE e.models[n] = NoModel /\ named = {}  BY <2>2 DEF LastNamed
  <2>3. CASE \E i \in named : e.models[n] = e.regs[i].model /\ \A j \in named : j <= i
    <3>1. PICK i \in named : e.models[n] = e.regs[i].model /\ \A j \in named : j <= i
      BY <2>3
    <3>2. last \in named /\ \A j \in named : j <= last  BY <3>1
    <3>3. last = i  BY <2>1, <3>1, <3>2
    <3> QED  BY <3>1, <3>3 DEF LastNamed
  <2> QED  BY <1>1, <2>2, <2>3 DEF Follows
<1>2. RigInv /\ HistoryInv => LookupFollowsHistory
  <2> SUFFICES ASSUME RigInv, HistoryInv,
                      NEW e \in {bench} \cup {heap[c][k] : c \in Cells, k \in Kinds},
                      e # NoExecutor
               PROVE  /\ \A n \in Names : e.models[n] = LastNamed(e.regs, n)
                      /\ e.models[Default] = IF e.kind = "Embedding" /\ e.regs # <<>>
                                             THEN e.regs[1].model ELSE NoModel
    BY DEF LookupFollowsHistory
  <2>1. e \in Executor  BY DEF RigInv, RigTypeOK, Map
  <2>2. Follows(e)  BY DEF HistoryInv
  <2> QED  BY <2>1, <2>2, <1>1 DEF Follows
<1> QED  BY <1>2, RigInvariant, PTL

\* The shared, copied-on-write map behaves as a map of its own for every
\* runtime and every running task (runtime.rs:126, 136).
THEOREM SharedMapsAreValues == Spec => ValueSemantics
<1> DEFINE value == [h \in Holders |-> IF at[h] = Gone THEN Gone ELSE heap[at[h]]]
<1>0. \A h \in Holders : RigTypeOK /\ at[h] # Gone => value[h] # Gone
  BY DistinctAssumption DEF RigTypeOK, Map
<1>1. Init => Values!Init
  <2> SUFFICES ASSUME Init PROVE Values!Init  OBVIOUS
  <2>1. PICK r \in world.runtimes, c \in Cells : at = [h \in Holders |-> IF h = r THEN c ELSE Gone]
    BY DEF Init
  <2>2. r \in Runtimes  BY WorldsAssumption DEF Init
  <2>3. heap[c] = [k \in Kinds |-> NoExecutor] /\ c # Gone
    BY DistinctAssumption DEF Init, Nothing
  <2>4. value = [h \in Holders |-> IF h = r THEN [k \in Kinds |-> NoExecutor] ELSE Gone]
    BY <2>1, <2>3
  <2> QED  BY <2>2, <2>4 DEF Values!Init, Values!Holders, Holders
<1>2. RigInv /\ [Next]_vars => [Values!Next]_value
  <2> SUFFICES ASSUME RigInv, [Next]_vars  PROVE Values!Next \/ value' = value
    OBVIOUS
  <2>0. RigTypeOK  BY DEF RigInv
  <2>1. ASSUME UNCHANGED <<at, heap>>  PROVE value' = value  BY <2>1
  <2>2. CASE UNCHANGED vars  BY <2>1, <2>2 DEF vars
  <2>3. CASE (\E k \in Kinds : NewOnBench(k)) \/ (\E n \in Names, m \in Models : AddModel(n, m))
    BY <2>1, <2>3 DEF NewOnBench, AddModel
  <2>4. CASE \E t \in Turns : Advanced(t) /\ Holds(t)  BY <2>1, <2>4 DEF Advanced
  <2>5. CASE \E r \in Runtimes : RegisterExecutor(r)
    <3>1. PICK r \in Runtimes : RegisterExecutor(r)  BY <2>5
    <3>2. /\ bench.kind \in Kinds /\ RigTypeOK' /\ at[r] # Gone /\ at'[r] # Gone
          /\ heap'[at'[r]] = [heap[at[r]] EXCEPT ![bench.kind] = bench]
          /\ \A h \in Holders \ {r} :
                at'[h] = at[h] /\ (at[h] # Gone => heap'[at[h]] = heap[at[h]])
      BY <2>0, <3>1, Registering
    <3>3. r \in Holders  BY DEF Holders
    <3>4. heap[at[r]] \in Map  BY <2>0, <3>2, <3>3 DEF RigTypeOK
    <3>5. value[r] = heap[at[r]] /\ value'[r] = heap'[at'[r]]  BY <3>2, <3>3
    <3>6. \A h \in Holders \ {r} : value'[h] = value[h]  BY <3>2
    <3>7. value'[r][bench.kind] = bench  BY <3>2, <3>4, <3>5 DEF Map
    <3>8. value'[r] = [value[r] EXCEPT ![bench.kind] = value'[r][bench.kind]]
      BY <3>2, <3>5, <3>7
    <3>9. value[r] # Gone /\ value'[r] # Gone
      BY <3>2, <3>3, <3>4, <3>5, DistinctAssumption DEF Map, RigTypeOK
    <3>10. value' = [value EXCEPT ![r] = value'[r]]  BY <3>3, <3>6
    <3>11. value' = [value EXCEPT ![r] = [value[r] EXCEPT ![bench.kind] = value'[r][bench.kind]]]
      BY <3>8, <3>10
    <3> HIDE DEF value
    <3>12. \E o \in Runtimes, k \in Kinds :
              /\ value[o] # Gone /\ value'[o] # Gone
              /\ value' = [value EXCEPT ![o] = [value[o] EXCEPT ![k] = value'[o][k]]]
      BY <3>2, <3>9, <3>11
    <3>13. Values!Next  BY <3>12, Zenon DEF Values!Next, Values!Register, value
    <3> QED  BY <3>13
  <2>6. ASSUME NEW h \in Holders, Leaves(h)  PROVE Values!Next
    <3>1. /\ RigTypeOK' /\ at[h] # Gone /\ at'[h] = Gone
          /\ \A x \in Holders \ {h} :
                at'[x] = at[x] /\ (at[x] # Gone => heap'[at[x]] = heap[at[x]])
      BY <2>0, <2>6, Leaving DEF Leaves
    <3>2. value[h] # Gone  BY <1>0, <2>0, <3>1
    <3>3. value'[h] = Gone /\ \A x \in Holders \ {h} : value'[x] = value[x]  BY <3>1
    <3>4. value' = [value EXCEPT ![h] = Gone]  BY <3>3
    <3> QED  BY <3>2, <3>4 DEF Values!Next, Values!Drop, Values!Holders, Holders
  <2>7. ASSUME NEW r \in Runtimes, NEW h \in Holders, Joins(r, h)  PROVE Values!Next
    <3>1. /\ at[r] # Gone /\ at[h] = Gone /\ at' = [at EXCEPT ![h] = at[r]] /\ heap' = heap
          /\ r \in Holders /\ at'[h] = at[r]
          /\ \A x \in Holders \ {h} : at'[x] = at[x]
      BY <2>0, <2>7, Joining DEF Joins, Holders
    <3>2. value[r] # Gone /\ value[h] = Gone  BY <1>0, <2>0, <3>1
    <3>3. value'[h] = value[r] /\ \A x \in Holders \ {h} : value'[x] = value[x]  BY <3>1
    <3>4. value' = [value EXCEPT ![h] = value[r]]  BY <3>3
    <3> QED  BY <3>2, <3>4 DEF Values!Next, Values!Share, Values!Holders, Holders
  <2>8. CASE \E r \in Runtimes : Leaves(r) /\ UNCHANGED turn  BY <2>6, <2>8 DEF Holders
  <2>9. CASE \E r, s \in Runtimes : Joins(r, s) /\ UNCHANGED turn
    BY <2>7, <2>9 DEF Holders
  <2>10. CASE \E r \in Runtimes, t \in Turns : SpawnIo(r, t) \/ SpawnRetrieve(r, t)
    BY <2>7, <2>10, Spawning DEF Holders
  <2>11. CASE \E t \in Turns : Reply(t)  BY <2>6, <2>11, Replying DEF Holders
  <2> QED
    BY <2>2, <2>3, <2>4, <2>5, <2>8, <2>9, <2>10, <2>11, Cases
<1>3. Spec => []RigInv  BY RigInvariant, PTL
<1> QED  BY <1>1, <1>2, <1>3, PTL DEF Spec, ValueSemantics, Values!Spec
(***************************************************************************)
(* The cosine. An induction is a set of counterexamples without a least    *)
(* one.                                                                    *)
(***************************************************************************)

LEMMA LeastNat ==
    ASSUME NEW T \in SUBSET Nat, T # {}
    PROVE  \E m \in T : \A k \in T : m <= k
<1> DEFINE R == OpToRel(<, Nat)
<1>1. IsWellFoundedOn(R, Nat)
  BY NatLessThanWellFounded
<1>2. \A k, m \in Nat : k < m => <<k, m>> \in R
  BY DEF OpToRel
<1> HIDE DEF R
<1>3. PICK m \in T : \A k \in T : <<k, m>> \notin R
  BY <1>1, WFMin
<1>4. ASSUME NEW k \in T PROVE m <= k
  <2>1. k \in Nat /\ m \in Nat /\ ~(k < m)
    BY <1>2, <1>3
  <2> QED
    BY <2>1
<1> QED
  BY <1>4

\* DotTo is the function its definition describes: a solution up to every n
\* exists, by induction on n.
LEMMA DotToDef ==
    ASSUME NEW a, NEW b, NEW n \in Nat
    PROVE  DotTo(a, b, n) = [i \in 0 .. n |-> IF i = 0 THEN 0
                                              ELSE DotTo(a, b, n)[i - 1] + a[i] * b[i]]
<1> DEFINE At(g, i) == IF i = 0 THEN 0 ELSE g[i - 1] + a[i] * b[i]
           Solves(g, m) == g = [i \in 0 .. m |-> At(g, i)]
<1>1. \E g : Solves(g, 0)
  <2>1. Solves([i \in 0 .. 0 |-> 0], 0)
    OBVIOUS
  <2> QED
    BY <2>1
<1>2. ASSUME NEW m \in Nat, NEW g, Solves(g, m)
      PROVE  \E h : Solves(h, m + 1)
  <2> DEFINE h == [i \in 0 .. m + 1 |-> At(g, i)]
  <2>1. \A i \in 0 .. m : g[i] = At(g, i)
    BY <1>2
  <2>2. \A i \in 0 .. m + 1 : h[i] = At(g, i)
    OBVIOUS
  <2>3. \A i \in 0 .. m : h[i] = g[i]
    BY <2>1, <2>2
  <2>4. \A i \in 0 .. m + 1 : i # 0 => i - 1 \in 0 .. m
    OBVIOUS
  <2>5. \A i \in 0 .. m + 1 : At(h, i) = At(g, i)
    <3> HIDE DEF h
    <3> QED
      BY <2>3, <2>4
  <2>6. Solves(h, m + 1)
    BY <2>5
  <2> QED
    BY <2>6
<1>3. DotTo(a, b, n) = CHOOSE g : Solves(g, n)
  BY DEF DotTo
<1> HIDE DEF Solves
<1> DEFINE Unsolved == {m \in Nat : ~\E g : Solves(g, m)}
<1>4. Unsolved = {}
  <2> SUFFICES ASSUME Unsolved # {} PROVE FALSE
    OBVIOUS
  <2>1. PICK m \in Unsolved : \A k \in Unsolved : m <= k
    <3>1. Unsolved \subseteq Nat
      OBVIOUS
    <3> QED
      BY <3>1, LeastNat
  <2>2. m # 0
    BY <1>1
  <2>3. m - 1 \in Nat /\ m - 1 \notin Unsolved /\ (m - 1) + 1 = m
    BY <2>1, <2>2
  <2>4. PICK g : Solves(g, m - 1)
    BY <2>3
  <2> QED
    BY <2>1, <2>3, <2>4, <1>2
<1>5. Solves(DotTo(a, b, n), n)
  BY <1>3, <1>4
<1> QED
  BY <1>5 DEF Solves

\* p sums up the products of a and b.
Sums(p, a, b, n) == p[0] = 0 /\ \A i \in 1 .. n : p[i] = p[i - 1] + a[i] * b[i]

LEMMA DotToSums ==
    ASSUME NEW a, NEW b, NEW n \in Nat
    PROVE  Sums(DotTo(a, b, n), a, b, n)
<1> DEFINE p == DotTo(a, b, n)
<1>1. p = [i \in 0 .. n |-> IF i = 0 THEN 0 ELSE p[i - 1] + a[i] * b[i]]
  BY DotToDef
<1> HIDE DEF p
<1>2. p[0] = 0
  <2>1. 0 \in 0 .. n
    OBVIOUS
  <2> QED
    BY <1>1, <2>1
<1>3. ASSUME NEW i \in 1 .. n PROVE p[i] = p[i - 1] + a[i] * b[i]
  <2>1. i \in 0 .. n /\ i # 0
    OBVIOUS
  <2> QED
    BY <1>1, <2>1
<1> QED
  BY <1>2, <1>3 DEF Sums, p

\* The three sums of two vectors, and the square they make for any s and t.
LEMMA SquareOfSums ==
    ASSUME NEW n \in Nat, NEW a, NEW b, \A i \in 1 .. n : a[i] \in Int /\ b[i] \in Int,
           NEW p, Sums(p, a, b, n), NEW q, Sums(q, a, a, n), NEW r, Sums(r, b, b, n),
           NEW s \in Int, NEW t \in Int
    PROVE  \A i \in 0 .. n : /\ p[i] \in Int /\ q[i] \in Int /\ q[i] >= 0 /\ r[i] \in Int
                             /\ s * s * q[i] + 2 * s * t * p[i] + t * t * r[i] >= 0
<1> DEFINE Good(i) == /\ p[i] \in Int /\ q[i] \in Int /\ q[i] >= 0 /\ r[i] \in Int
                      /\ s * s * q[i] + 2 * s * t * p[i] + t * t * r[i] >= 0
           Wrong == {i \in Nat : i <= n /\ ~Good(i)}
<1>1. Good(0)
  BY DEF Sums
<1>2. ASSUME NEW i \in 1 .. n, Good(i - 1) PROVE Good(i)
  <2>1. /\ p[i] = p[i - 1] + a[i] * b[i] /\ q[i] = q[i - 1] + a[i] * a[i]
        /\ r[i] = r[i - 1] + b[i] * b[i] /\ a[i] \in Int /\ b[i] \in Int
    BY DEF Sums
  <2>2. \A P, Q, R, x, y \in Int :
            s * s * Q + 2 * s * t * P + t * t * R >= 0
            => s * s * (Q + x * x) + 2 * s * t * (P + x * y) + t * t * (R + y * y) >= 0
    <3> SUFFICES ASSUME NEW P \in Int, NEW Q \in Int, NEW R \in Int, NEW x \in Int, NEW y \in Int,
                        s * s * Q + 2 * s * t * P + t * t * R >= 0
                 PROVE  s * s * (Q + x * x) + 2 * s * t * (P + x * y) + t * t * (R + y * y) >= 0
      OBVIOUS
    <3>1. \A z \in Int : z * z >= 0
      OBVIOUS
    <3>2. s * x + t * y \in Int
      OBVIOUS
    <3>3. s * s * (Q + x * x) + 2 * s * t * (P + x * y) + t * t * (R + y * y)
          = (s * s * Q + 2 * s * t * P + t * t * R) + (s * x + t * y) * (s * x + t * y)
      OBVIOUS
    <3>4. s * s * Q + 2 * s * t * P + t * t * R \in Int
      OBVIOUS
    <3> QED
      BY <3>1, <3>2, <3>3, <3>4
  <2>3. /\ p[i - 1] \in Int /\ q[i - 1] \in Int /\ q[i - 1] >= 0 /\ r[i - 1] \in Int
        /\ s * s * q[i - 1] + 2 * s * t * p[i - 1] + t * t * r[i - 1] >= 0
    BY <1>2
  <2>4. p[i] \in Int /\ q[i] \in Int /\ q[i] >= 0 /\ r[i] \in Int
    <3>1. \A z \in Int : z * z >= 0 /\ z * z \in Int
      OBVIOUS
    <3> QED
      BY <2>1, <2>3, <3>1
  <2>5. s * s * (q[i - 1] + a[i] * a[i]) + 2 * s * t * (p[i - 1] + a[i] * b[i])
           + t * t * (r[i - 1] + b[i] * b[i]) >= 0
    BY <2>1, <2>2, <2>3
  <2> QED
    BY <2>1, <2>4, <2>5
<1> HIDE DEF Good
<1>3. Wrong = {}
  <2> SUFFICES ASSUME Wrong # {} PROVE FALSE
    OBVIOUS
  <2>1. PICK m \in Wrong : \A k \in Wrong : m <= k
    <3>1. Wrong \subseteq Nat
      OBVIOUS
    <3> QED
      BY <3>1, LeastNat
  <2>2. m # 0 /\ m \in 1 .. n
    BY <1>1, <2>1
  <2>3. m - 1 \in Nat /\ m - 1 \notin Wrong /\ m - 1 <= n
    BY <2>1, <2>2
  <2> QED
    BY <2>1, <2>2, <2>3, <1>2
<1> QED
  BY <1>3 DEF Good

\* A sum of squares does not shrink.
LEMMA SquaresGrow ==
    ASSUME NEW m \in Nat, NEW a, \A i \in 1 .. m : a[i] \in Int, NEW q, Sums(q, a, a, m),
           NEW n \in 0 .. m
    PROVE  \A i \in n .. m : q[i] \in Int /\ q[n] \in Int /\ 0 <= q[n] /\ q[n] <= q[i]
<1>0. \A i \in 0 .. m : q[i] \in Int /\ q[i] >= 0
  BY SquareOfSums, 0 \in Int
<1> DEFINE Wrong == {i \in Nat : n <= i /\ i <= m /\ ~(q[n] <= q[i])}
<1>1. Wrong = {}
  <2> SUFFICES ASSUME Wrong # {} PROVE FALSE
    OBVIOUS
  <2>1. PICK k \in Wrong : \A j \in Wrong : k <= j
    <3>1. Wrong \subseteq Nat
      OBVIOUS
    <3> QED
      BY <3>1, LeastNat
  <2>2. k # n /\ n <= k - 1 /\ k - 1 <= m /\ k - 1 \in Nat /\ k \in 1 .. m
    BY <1>0, <2>1
  <2>3. q[n] <= q[k - 1]
    BY <2>1, <2>2
  <2>4. q[k] = q[k - 1] + a[k] * a[k] /\ a[k] \in Int
    BY <2>2 DEF Sums
  <2>5. \A z \in Int : z * z >= 0
    OBVIOUS
  <2>6. q[k - 1] \in Int /\ a[k] * a[k] \in Int /\ a[k] * a[k] >= 0 /\ q[n] \in Int
    BY <1>0, <2>2, <2>4, <2>5
  <2>7. q[n] <= q[k]
    BY <2>3, <2>4, <2>6
  <2> QED
    BY <2>1, <2>7
<1> QED
  BY <1>0, <1>1

LEMMA CrossIsBounded ==
    ASSUME NEW A \in Int, NEW B \in Int, NEW p \in Int, B > 0,
           B * B * A + 2 * B * (-p) * p + (-p) * (-p) * B >= 0
    PROVE  p * p <= A * B
<1>1. B * B * A + 2 * B * (-p) * p + (-p) * (-p) * B = B * (A * B - p * p)
  OBVIOUS
<1>2. \A z \in Int : B * z >= 0 => z >= 0
  OBVIOUS
<1>3. A * B - p * p \in Int
  OBVIOUS
<1>4. A * B - p * p >= 0
  BY <1>1, <1>2, <1>3
<1> QED
  BY <1>4

LEMMA ProductsGrow ==
    ASSUME NEW x \in Int, NEW y \in Int, NEW X \in Int, NEW Y \in Int,
           0 <= x, x <= X, 0 <= y, y <= Y
    PROVE  x * y <= X * Y
<1>1. x * y <= X * y
  OBVIOUS
<1>2. X * y <= X * Y
  OBVIOUS
<1> QED
  BY <1>1, <1>2

IsScore(s) == s.num \in Int /\ s.den \in Int /\ s.den > 0

\* The inequality of Cauchy and Schwarz, over the shorter of the two vectors.
LEMMA CosineIsBounded ==
    ASSUME NEW a \in Vector, NEW b \in Vector
    PROVE  IsScore(Cosine(a, b)) /\ Cosine(a, b).num * Cosine(a, b).num <= Cosine(a, b).den
<1> DEFINE n == IF Len(a) < Len(b) THEN Len(a) ELSE Len(b)
           p == DotTo(a, b, n)
           q == DotTo(a, a, Len(a))
           r == DotTo(b, b, Len(b))
<1>1. /\ n \in Nat /\ Len(a) \in Nat /\ Len(b) \in Nat /\ n \in 0 .. Len(a) /\ n \in 0 .. Len(b)
      /\ \A i \in 1 .. Len(a) : a[i] \in Int
      /\ \A i \in 1 .. Len(b) : b[i] \in Int
  BY DEF Vector
<1>2. Sums(p, a, b, n) /\ Sums(q, a, a, Len(a)) /\ Sums(r, b, b, Len(b))
  BY <1>1, DotToSums
<1>3. Dot(a, b) = p[n] /\ Dot(a, a) = q[Len(a)] /\ Dot(b, b) = r[Len(b)]
  BY DEF Dot
<1> HIDE DEF p, q, r, n
<1>4. Sums(q, a, a, n) /\ Sums(r, b, b, n) /\ \A i \in 1 .. n : a[i] \in Int /\ b[i] \in Int
  <2>1. \A i \in 1 .. n : i \in 1 .. Len(a) /\ i \in 1 .. Len(b)
    BY <1>1
  <2> QED
    BY <1>1, <1>2, <2>1 DEF Sums
<1>5. /\ q[Len(a)] \in Int /\ q[n] \in Int /\ 0 <= q[n] /\ q[n] <= q[Len(a)]
      /\ r[Len(b)] \in Int /\ r[n] \in Int /\ 0 <= r[n] /\ r[n] <= r[Len(b)]
  <2>1. Len(a) \in n .. Len(a) /\ Len(b) \in n .. Len(b)
    BY <1>1
  <2> QED
    BY <1>1, <1>2, <2>1, SquaresGrow
<1>6. p[n] \in Int
  <2>1. n \in 0 .. n
    BY <1>1
  <2>2. \A i \in 0 .. n : p[i] \in Int
    BY <1>1, <1>2, <1>4, SquareOfSums, 0 \in Int
  <2> QED
    BY <2>1, <2>2
<1>7. p[n] * p[n] <= q[n] * r[n]
  <2>1. n \in 0 .. n
    BY <1>1
  <2>2. ASSUME NEW s \in Int, NEW t \in Int
        PROVE  s * s * q[n] + 2 * s * t * p[n] + t * t * r[n] >= 0
    <3>1. \A i \in 0 .. n : s * s * q[i] + 2 * s * t * p[i] + t * t * r[i] >= 0
      BY <1>1, <1>2, <1>4, SquareOfSums
    <3> QED
      BY <2>1, <3>1
  <2>3. CASE r[n] > 0
    <3>1. -p[n] \in Int
      BY <1>6
    <3>2. r[n] * r[n] * q[n] + 2 * r[n] * (-p[n]) * p[n] + (-p[n]) * (-p[n]) * r[n] >= 0
      BY <1>5, <2>2, <3>1
    <3> QED
      BY <1>5, <1>6, <2>3, <3>2, CrossIsBounded
  <2>4. CASE r[n] = 0 /\ q[n] > 0
    <3>1. -p[n] \in Int
      BY <1>6
    <3>2. (-p[n]) * (-p[n]) * q[n] + 2 * (-p[n]) * q[n] * p[n] + q[n] * q[n] * r[n] >= 0
      BY <1>5, <2>2, <3>1
    <3>3. q[n] * q[n] * r[n] + 2 * q[n] * (-p[n]) * p[n] + (-p[n]) * (-p[n]) * q[n] >= 0
      <4>1. \A P, Q, R \in Int :
               (-P) * (-P) * Q + 2 * (-P) * Q * P + Q * Q * R
               = Q * Q * R + 2 * Q * (-P) * P + (-P) * (-P) * Q
        OBVIOUS
      <4> QED
        BY <1>5, <1>6, <3>2, <4>1
    <3>4. p[n] * p[n] <= r[n] * q[n]
      BY <1>5, <1>6, <2>4, <3>3, CrossIsBounded
    <3> QED
      BY <1>5, <2>4, <3>4
  <2>5. CASE r[n] = 0 /\ q[n] = 0
    <3>1. /\ 1 * 1 * q[n] + 2 * 1 * 1 * p[n] + 1 * 1 * r[n] >= 0
          /\ 1 * 1 * q[n] + 2 * 1 * (-1) * p[n] + (-1) * (-1) * r[n] >= 0
      BY <2>2
    <3>2. p[n] = 0
      BY <1>6, <2>5, <3>1
    <3> QED
      BY <2>5, <3>2
  <2> QED
    BY <1>5, <2>3, <2>4, <2>5
<1>8. CASE Dot(a, a) = 0 \/ Dot(b, b) = 0
  BY <1>8 DEF Cosine, IsScore
<1>9. CASE ~(Dot(a, a) = 0 \/ Dot(b, b) = 0)
  <2> DEFINE A == q[Len(a)]
             B == r[Len(b)]
  <2>1. A \in Int /\ A > 0 /\ B \in Int /\ B > 0
    BY <1>3, <1>5, <1>9
  <2>2. q[n] * r[n] <= A * B
    BY <1>5, ProductsGrow
  <2>3. A * B \in Int /\ A * B > 0 /\ p[n] * p[n] \in Int /\ q[n] * r[n] \in Int
    BY <1>5, <1>6, <2>1
  <2>4. p[n] * p[n] <= A * B
    BY <1>7, <2>2, <2>3
  <2>5. Cosine(a, b) = [num |-> p[n], den |-> A * B]
    BY <1>3, <1>9 DEF Cosine
  <2> HIDE DEF A, B
  <2> QED
    BY <1>6, <2>3, <2>4, <2>5 DEF IsScore
<1> QED
  BY <1>8, <1>9

(***************************************************************************)
(* Ranking                                                                 *)
(***************************************************************************)

\* Cross-multiplied fractions compare as the fractions do.
LEMMA CrossTransitive ==
    ASSUME NEW s \in Int, NEW t \in Int, NEW u \in Int,
           NEW ds \in Int, NEW dt \in Int, NEW du \in Int, ds > 0, dt > 0, du > 0,
           s * dt <= t * ds, t * du <= u * dt
    PROVE  s * du <= u * ds
<1>1. \A v, w, z \in Int : z > 0 /\ v <= w => v * z <= w * z
  OBVIOUS
<1>2. s * dt \in Int /\ t * ds \in Int /\ t * du \in Int /\ u * dt \in Int
      /\ s * du \in Int /\ u * ds \in Int
  OBVIOUS
<1>3. (s * dt) * du <= (t * ds) * du /\ (t * du) * ds <= (u * dt) * ds
  BY <1>1, <1>2
<1>4. /\ (s * du) * dt = (s * dt) * du /\ (t * ds) * du = (t * du) * ds
      /\ (u * ds) * dt = (u * dt) * ds
  OBVIOUS
<1>5. (s * du) * dt <= (u * ds) * dt
  BY <1>2, <1>3, <1>4
<1>6. \A v, w, z \in Int : z > 0 /\ v * z <= w * z => v <= w
  OBVIOUS
<1> QED
  BY <1>2, <1>5, <1>6

\* Less is a strict weak order.
LEMMA LessOrders ==
    ASSUME NEW x, NEW y, NEW z, IsScore(x), IsScore(y), IsScore(z)
    PROVE  /\ ~(Less(x, y) /\ Less(y, x)) /\ ~Less(x, x)
           /\ ~Less(y, x) /\ ~Less(z, y) => ~Less(z, x)
           /\ ~Less(y, x) /\ Less(y, z) => Less(x, z)
           /\ Less(x, y) /\ ~Less(z, y) => Less(x, z)
<1> DEFINE s == Signed(x.num)
           t == Signed(y.num)
           u == Signed(z.num)
<1>1. s \in Int /\ t \in Int /\ u \in Int
  BY DEF Signed, IsScore
<1>2. /\ x.den \in Int /\ y.den \in Int /\ z.den \in Int
      /\ x.den > 0 /\ y.den > 0 /\ z.den > 0
  BY DEF IsScore
<1>3. /\ Less(x, y) <=> s * y.den < t * x.den
      /\ Less(y, x) <=> t * x.den < s * y.den
      /\ Less(y, z) <=> t * z.den < u * y.den
      /\ Less(z, y) <=> u * y.den < t * z.den
      /\ Less(x, z) <=> s * z.den < u * x.den
      /\ Less(z, x) <=> u * x.den < s * z.den
      /\ Less(x, x) <=> s * x.den < s * x.den
  BY DEF Less
<1> HIDE DEF s, t, u
<1>4. /\ s * y.den \in Int /\ t * x.den \in Int /\ t * z.den \in Int /\ u * y.den \in Int
      /\ s * z.den \in Int /\ u * x.den \in Int /\ s * x.den \in Int
  BY <1>1, <1>2
<1>5. s * y.den <= t * x.den /\ t * z.den <= u * y.den => s * z.den <= u * x.den
  BY <1>1, <1>2, CrossTransitive
<1>6. u * x.den <= s * z.den /\ s * y.den <= t * x.den => u * y.den <= t * z.den
  BY <1>1, <1>2, CrossTransitive
<1>7. t * z.den <= u * y.den /\ u * x.den <= s * z.den => t * x.den <= s * y.den
  BY <1>1, <1>2, CrossTransitive
<1> QED
  BY <1>3, <1>4, <1>5, <1>6, <1>7

IsScoring(scores, n) == DOMAIN scores = 1 .. n /\ \A i \in 1 .. n : IsScore(scores[i])

\* Before orders the documents totally.
LEMMA BeforeOrders ==
    ASSUME NEW n \in Nat, NEW scores, IsScoring(scores, n)
    PROVE  /\ \A i \in 1 .. n : ~Before(scores, i, i)
           /\ \A i, j \in 1 .. n : i # j => Before(scores, i, j) \/ Before(scores, j, i)
           /\ \A i, j, k \in 1 .. n :
                 Before(scores, i, j) /\ Before(scores, j, k) => Before(scores, i, k)
<1>1. \A i \in 1 .. n : IsScore(scores[i])
  BY DEF IsScoring
<1>2. ASSUME NEW i \in 1 .. n PROVE ~Before(scores, i, i)
  BY <1>1, LessOrders DEF Before
<1>3. ASSUME NEW i \in 1 .. n, NEW j \in 1 .. n, i # j
      PROVE  Before(scores, i, j) \/ Before(scores, j, i)
  BY <1>3 DEF Before
<1>4. ASSUME NEW i \in 1 .. n, NEW j \in 1 .. n, NEW k \in 1 .. n,
             Before(scores, i, j), Before(scores, j, k)
      PROVE  Before(scores, i, k)
  <2> DEFINE x == scores[k]
             y == scores[j]
             z == scores[i]
  <2>1. IsScore(x) /\ IsScore(y) /\ IsScore(z)
    BY <1>1
  <2>2. Less(y, z) \/ (~Less(z, y) /\ i < j)
    BY <1>4 DEF Before
  <2>3. Less(x, y) \/ (~Less(y, x) /\ j < k)
    BY <1>4 DEF Before
  <2> HIDE DEF x, y, z
  <2>4. ~(Less(x, y) /\ Less(y, x)) /\ ~(Less(y, z) /\ Less(z, y))
    BY <2>1, LessOrders
  <2>5. /\ ~Less(y, x) /\ ~Less(z, y) => ~Less(z, x)
        /\ ~Less(y, x) /\ Less(y, z) => Less(x, z)
        /\ Less(x, y) /\ ~Less(z, y) => Less(x, z)
    BY <2>1, LessOrders
  <2>6. Less(x, z) \/ (~Less(z, x) /\ i < k)
    BY <2>2, <2>3, <2>4, <2>5
  <2> QED
    BY <2>6 DEF Before, x, z
<1> QED
  BY <1>2, <1>3, <1>4

\* Ranks are the positions 1 to n, each taken once, in the order of Before.
LEMMA Ranking ==
    ASSUME NEW n \in Nat, NEW scores, IsScoring(scores, n)
    PROVE  /\ \A i \in 1 .. n : Rank(scores, i) \in 1 .. n
           /\ \A i, j \in 1 .. n : Before(scores, i, j) => Rank(scores, i) < Rank(scores, j)
           /\ \A i, j \in 1 .. n : Rank(scores, i) = Rank(scores, j) => i = j
           /\ \A r \in 1 .. n : \E i \in 1 .. n : Rank(scores, i) = r
<1> DEFINE D == 1 .. n
           Ahead(i) == {j \in D : Before(scores, j, i)}
<1>1. \A i \in D : Rank(scores, i) = 1 + Cardinality(Ahead(i))
  BY DEF Rank, IsScoring
<1>2. IsFiniteSet(D) /\ Cardinality(D) = n
  BY FS_Interval
<1>3. ASSUME NEW i \in D
      PROVE  IsFiniteSet(Ahead(i)) /\ Cardinality(Ahead(i)) \in Nat /\ i \notin Ahead(i)
  <2>1. Ahead(i) \in SUBSET D
    OBVIOUS
  <2>2. i \notin Ahead(i)
    BY BeforeOrders
  <2> HIDE DEF Ahead
  <2> QED
    BY <1>2, <2>1, <2>2, FS_Subset, FS_CardinalityType
<1>4. ASSUME NEW i \in D, NEW S, Ahead(i) \cup {i} \subseteq S, IsFiniteSet(S)
      PROVE  Cardinality(Ahead(i)) + 1 <= Cardinality(S)
  <2> HIDE DEF Ahead
  <2>1. Cardinality(Ahead(i) \cup {i}) = Cardinality(Ahead(i)) + 1
    BY <1>3, FS_AddElement
  <2>2. Cardinality(Ahead(i) \cup {i}) <= Cardinality(S)
    BY <1>4, FS_Subset
  <2> QED
    BY <2>1, <2>2
<1>5. ASSUME NEW i \in D PROVE Rank(scores, i) \in D
  <2>1. Ahead(i) \cup {i} \subseteq D
    OBVIOUS
  <2> HIDE DEF Ahead
  <2>2. Cardinality(Ahead(i)) + 1 <= n
    BY <1>2, <1>4, <2>1
  <2> QED
    BY <1>1, <1>3, <2>2
<1>6. ASSUME NEW i \in D, NEW j \in D, Before(scores, i, j)
      PROVE  Rank(scores, i) < Rank(scores, j)
  <2>1. Ahead(i) \cup {i} \subseteq Ahead(j)
    BY <1>6, BeforeOrders
  <2> HIDE DEF Ahead
  <2>2. Cardinality(Ahead(i)) + 1 <= Cardinality(Ahead(j))
    BY <1>3, <1>4, <2>1
  <2> QED
    BY <1>1, <1>3, <2>2
<1> HIDE DEF Ahead
<1>7. ASSUME NEW i \in D, NEW j \in D, Rank(scores, i) = Rank(scores, j) PROVE i = j
  <2>1. Rank(scores, i) \in Int /\ Rank(scores, j) \in Int
    BY <1>5
  <2> QED
    BY <1>6, <1>7, <2>1, BeforeOrders
<1>8. ASSUME NEW r \in D PROVE \E i \in D : Rank(scores, i) = r
  <2> DEFINE f == [i \in D |-> Rank(scores, i)]
  <2>1. f \in Injection(D, D)
    BY <1>5, <1>7 DEF Injection, IsInjective
  <2>2. f \in Surjection(D, D)
    BY <1>2, <2>1, FS_Injection
  <2> QED
    BY <2>2 DEF Surjection
<1> QED
  BY <1>5, <1>6, <1>7, <1>8

\* What a search lists at a place is the document of that rank, with its score.
LEMMA SearchByRank ==
    ASSUME NEW docs \in Seq(Vector), NEW query \in Vector, NEW k \in Nat
    PROVE  LET scores == Scores(docs, query)
               size == IF k < Len(docs) THEN k ELSE Len(docs)
               got == Search(docs, query, k)
           IN /\ IsScoring(scores, Len(docs)) /\ size \in Nat
              /\ \A i \in DOMAIN docs : scores[i] = Cosine(query, docs[i])
              /\ DOMAIN got = 1 .. size /\ Len(got) = size
              /\ \A r \in 1 .. size :
                    /\ got[r].id \in DOMAIN docs /\ Rank(scores, got[r].id) = r
                    /\ got[r].score = scores[got[r].id]
<1> DEFINE scores == Scores(docs, query)
           n == Len(docs)
           size == IF k < n THEN k ELSE n
           got == Search(docs, query, k)
           place(r) == CHOOSE i \in DOMAIN docs : Rank(scores, i) = r
<1>1. n \in Nat /\ DOMAIN docs = 1 .. n /\ \A i \in 1 .. n : docs[i] \in Vector
  OBVIOUS
<1>2. size \in Nat /\ size <= n
  BY <1>1
<1>3. DOMAIN scores = 1 .. n /\ \A i \in 1 .. n : scores[i] = Cosine(query, docs[i])
  BY <1>1 DEF Scores
<1>4. IsScoring(scores, n)
  BY <1>1, <1>3, CosineIsBounded DEF IsScoring
<1>5. got = [r \in 1 .. size |-> [id |-> place(r), score |-> scores[place(r)]]]
  BY DEF Search
<1> HIDE DEF scores, got, size
<1>6. ASSUME NEW r \in 1 .. size
      PROVE  place(r) \in DOMAIN docs /\ Rank(scores, place(r)) = r
  <2>1. r \in 1 .. n
    BY <1>1, <1>2
  <2>2. \E i \in DOMAIN docs : Rank(scores, i) = r
    BY <1>1, <1>4, <2>1, Ranking
  <2> QED
    BY <2>2
<1> HIDE DEF place
<1>7. DOMAIN got = 1 .. size /\ Len(got) = size
  BY <1>2, <1>5
<1>8. \A r \in 1 .. size : got[r].id = place(r) /\ got[r].score = scores[place(r)]
  BY <1>5
<1>9. /\ IsScoring(scores, n) /\ size \in Nat
      /\ \A i \in DOMAIN docs : scores[i] = Cosine(query, docs[i])
      /\ DOMAIN got = 1 .. size /\ Len(got) = size
      /\ \A r \in 1 .. size :
            /\ got[r].id \in DOMAIN docs /\ Rank(scores, got[r].id) = r
            /\ got[r].score = scores[got[r].id]
  BY <1>1, <1>2, <1>3, <1>4, <1>6, <1>7, <1>8
<1> QED
  BY <1>9 DEF scores, got, size

\* For every collection, query and k. A document left out, or listed later, comes
\* after in the order of Before.
LEMMA SearchReturnsTopK ==
    ASSUME NEW docs \in Seq(Vector), NEW query \in Vector, NEW k \in Nat
    PROVE  IsTopK(Search(docs, query, k), docs, query, k)
<1> DEFINE scores == Scores(docs, query)
           n == Len(docs)
           size == IF k < n THEN k ELSE n
           got == Search(docs, query, k)
           ids == {got[i].id : i \in DOMAIN got}
           score(d) == Cosine(query, docs[d])
<1>1. n \in Nat /\ DOMAIN docs = 1 .. n /\ \A i \in 1 .. n : docs[i] \in Vector
  OBVIOUS
<1>2. /\ IsScoring(scores, n) /\ size \in Nat
      /\ \A i \in 1 .. n : scores[i] = score(i)
      /\ DOMAIN got = 1 .. size /\ Len(got) = size
      /\ \A r \in 1 .. size :
            /\ got[r].id \in 1 .. n /\ Rank(scores, got[r].id) = r
            /\ got[r].score = scores[got[r].id]
  BY <1>1, SearchByRank
<1>3. size <= n /\ size <= k /\ (size = k \/ size = n)
  BY <1>1
<1> HIDE DEF scores, got, size
<1>4. ASSUME NEW i \in 1 .. n, NEW j \in 1 .. n, Before(scores, i, j)
      PROVE  ~Less(score(i), score(j)) /\ (docs[i] = docs[j] => i < j)
  <2>1. IsScore(scores[i]) /\ IsScore(scores[j])
    BY <1>2 DEF IsScoring
  <2>2. ~Less(scores[i], scores[j])
    BY <1>4, <2>1, LessOrders DEF Before
  <2>3. docs[i] = docs[j] => scores[i] = scores[j]
    BY <1>2
  <2>4. scores[i] = scores[j] => ~Less(scores[j], scores[i])
    BY <2>1, LessOrders
  <2> HIDE DEF score
  <2> QED
    BY <1>2, <1>4, <2>2, <2>3, <2>4 DEF Before
<1>5. Len(got) = Cardinality(ids) /\ ids \subseteq DOMAIN docs
  <2> DEFINE f == [r \in 1 .. size |-> got[r].id]
  <2>1. f \in Surjection(1 .. size, ids)
    BY <1>2 DEF Surjection
  <2>2. f \in Injection(1 .. size, ids)
    BY <1>2, <2>1 DEF Injection, IsInjective, Surjection
  <2>3. IsFiniteSet(1 .. size) /\ Cardinality(1 .. size) = size
    BY <1>2, FS_Interval
  <2>4. Cardinality(ids) = size
    <3> HIDE DEF f, ids
    <3> QED
      BY <2>1, <2>2, <2>3, FS_Surjection
  <2> QED
    BY <1>1, <1>2, <2>4
<1>6. ASSUME NEW d \in 1 .. n
      PROVE  d \in ids <=> Rank(scores, d) <= size
  <2>1. Rank(scores, d) \in 1 .. n
    BY <1>1, <1>2, Ranking
  <2>2. ASSUME d \in ids PROVE Rank(scores, d) <= size
    <3>1. PICK r \in 1 .. size : d = got[r].id
      BY <1>2, <2>2
    <3> QED
      BY <1>2, <3>1
  <2>3. ASSUME Rank(scores, d) <= size PROVE d \in ids
    <3> DEFINE r == Rank(scores, d)
    <3>1. r \in 1 .. size
      BY <1>2, <2>1, <2>3
    <3>2. got[r].id \in 1 .. n /\ Rank(scores, got[r].id) = r
      BY <1>2, <3>1
    <3>3. \A i, j \in 1 .. n : Rank(scores, i) = Rank(scores, j) => i = j
      BY <1>1, <1>2, Ranking
    <3>4. got[r].id = d
      BY <3>2, <3>3
    <3> QED
      BY <1>2, <3>1, <3>4
  <2> QED
    BY <2>2, <2>3
<1>7. Len(got) = k \/ (Len(got) < k /\ ids = DOMAIN docs)
  <2>1. CASE size = k
    BY <1>2, <2>1
  <2>2. CASE size # k
    <3>1. size < k /\ size = n
      BY <1>2, <1>3, <2>2
    <3>2. \A d \in 1 .. n : Rank(scores, d) <= n
      BY <1>1, <1>2, Ranking
    <3>3. ids = 1 .. n
      BY <1>1, <1>5, <1>6, <3>1, <3>2
    <3> QED
      BY <1>1, <1>2, <3>1, <3>3
  <2> QED
    BY <2>1, <2>2
<1>8. ASSUME NEW d \in DOMAIN docs \ ids, NEW i \in ids
      PROVE  ~Less(score(i), score(d)) /\ (docs[i] = docs[d] => i < d)
  <2>1. i \in 1 .. n /\ d \in 1 .. n
    BY <1>1, <1>5
  <2>2. Rank(scores, i) <= size /\ ~(Rank(scores, d) <= size)
    BY <1>6, <1>8, <2>1
  <2>3. Rank(scores, i) \in 1 .. n /\ Rank(scores, d) \in 1 .. n
    BY <1>1, <1>2, <2>1, Ranking
  <2>4. ~(Rank(scores, d) < Rank(scores, i)) /\ i # d
    BY <1>2, <2>2, <2>3
  <2>5. Before(scores, i, d)
    BY <1>1, <1>2, <2>1, <2>4, Ranking, BeforeOrders
  <2> QED
    BY <1>4, <2>1, <2>5
<1>9. ASSUME NEW i \in DOMAIN got, NEW j \in DOMAIN got, i < j
      PROVE  /\ ~Less(got[i].score, got[j].score)
             /\ docs[got[i].id] = docs[got[j].id] => got[i].id < got[j].id
  <2> DEFINE x == got[i].id
             y == got[j].id
  <2>1. x \in 1 .. n /\ y \in 1 .. n /\ Rank(scores, x) = i /\ Rank(scores, y) = j
    BY <1>2
  <2>2. got[i].score = score(x) /\ got[j].score = score(y)
    BY <1>2
  <2>3. i \in Int /\ j \in Int /\ ~(j < i) /\ i # j
    BY <1>2, <1>9
  <2> HIDE DEF x, y
  <2>4. Before(scores, x, y)
    BY <1>1, <1>2, <2>1, <2>3, Ranking, BeforeOrders
  <2> HIDE DEF score
  <2>5. ~Less(score(x), score(y)) /\ (docs[x] = docs[y] => x < y)
    BY <1>4, <2>1, <2>4
  <2> QED
    BY <2>2, <2>5 DEF x, y
<1>10. ASSUME NEW i \in DOMAIN got
       PROVE  got[i].score.num * got[i].score.num <= got[i].score.den
  <2>1. got[i].score = Cosine(query, docs[got[i].id]) /\ docs[got[i].id] \in Vector
    BY <1>1, <1>2
  <2> QED
    BY <2>1, CosineIsBounded
<1> QED
  BY <1>5, <1>7, <1>8, <1>9, <1>10 DEF IsTopK, got

(***************************************************************************)
(* The tasks that search.                                                  *)
(***************************************************************************)

\* What a task asks for exists in its world; what a search has returned is that
\* of the collection it found.
Searched(T, w) ==
    /\ T.key \in Keys /\ T.col \in Keys /\ T.query \in Vector
    /\ T.stage = "done" /\ T.result = "ok" /\ T.kind \in {"VectorStore", "Retrieve"} =>
          T.by \in Models /\ T.docs = Search(w.docs[T.by], T.query, w.k)

SearchedInv == \A t \in Turns : Holds(t) => Searched(turn[t], world)

LEMMA NamedIsModel ==
  ASSUME RigInv, NEW t \in Turns, NEW kind \in Kinds, NEW key \in Keys, turn[t].stage = kind,
         Dispatched(t, kind, key)
  PROVE  Model(t, kind, key) \in Models
<1>1. MapOf(t) \in Map  BY RunningTask
<1>2. MapOf(t)[kind] \in Executor  BY <1>1 DEF Map, Dispatched
<1> QED  BY <1>2 DEF Dispatched, Model, Executor

LEMMA SearchedStep ==
  ASSUME RigInv, SearchedInv, NEW t \in Turns, Step(t), ~Reply(t)
  PROVE  Searched(turn'[t], world)
<1> DEFINE T == turn[t]
           U == turn'[t]
<1>0. T.stage \in Kinds
  BY DEF Step, Completion, Chat, Structured, Embedding, VectorStore, Undispatched, Dispatched, Kinds
<1>1. IsTurn(T) /\ Searched(T, world)
  BY <1>0, RunningTask DEF SearchedInv, Holds
<1>2. world \in Worlds  BY DEF RigInv, RigTypeOK
<1>3. ASSUME NEW error, error # "ok", Fails(t, error)  PROVE Searched(U, world)
  BY <1>0, <1>1, <1>3, FailsStep DEF Searched
<1>4. ASSUME NEW kind, NEW key, Undispatched(t, kind, key)  PROVE Searched(U, world)
  BY <1>3, <1>4 DEF Undispatched
<1>5. ASSUME NEW m, NEW docs, Answers(t, m, docs), T.kind \notin {"VectorStore", "Retrieve"}
      PROVE  Searched(U, world)
  BY <1>0, <1>1, <1>5, AnswersStep DEF Searched
<1>6. ASSUME T.stage \in {"Completion", "Chat", "Structured"}
      PROVE  T.kind \notin {"VectorStore", "Retrieve"}
  BY <1>0, <1>1, <1>6 DEF IsTurn
<1>7. CASE Completion(t) \/ Chat(t) \/ Structured(t)
  <2>1. CASE Completion(t)
    BY <2>1, <1>3, <1>4, <1>5, <1>6 DEF Completion, Dispatched
  <2>2. CASE Chat(t)
    BY <2>2, <1>3, <1>4, <1>5, <1>6 DEF Chat, Dispatched
  <2>3. CASE Structured(t)
    BY <2>3, <1>3, <1>4, <1>5, <1>6 DEF Structured, Dispatched
  <2> QED  BY <1>7, <2>1, <2>2, <2>3
<1>8. CASE Embedding(t)
  <2> DEFINE m == Model(t, "Embedding", T.key)
  <2>1. ASSUME Dispatched(t, "Embedding", T.key),
               turn' = [turn EXCEPT ![t].stage = "VectorStore", ![t].query = world.vec[m]],
               UNCHANGED <<world, heap, at, bench, budget>>
        PROVE  Searched(U, world)
    <3>1. "Embedding" \in Kinds  BY DEF Kinds
    <3>2. m \in Models
      BY <1>1, <2>1, <3>1, NamedIsModel DEF Searched, Dispatched
    <3>3. world.vec[m] \in Vector  BY <1>2, <3>2, WorldsAssumption
    <3>4. turn = [x \in Turns |-> turn[x]]  BY DEF RigInv, TurnsInv
    <3>5. U = [T EXCEPT !.stage = "VectorStore", !.query = world.vec[m]]
      BY <2>1, <3>4
    <3>6. U.query = world.vec[m] /\ U.stage = "VectorStore" /\ U.key = T.key /\ U.col = T.col
      BY <1>1, <3>5 DEF IsTurn
    <3> QED  BY <1>1, <3>3, <3>6 DEF Searched
  <2>2. ASSUME Dispatched(t, "Embedding", T.key), T.kind = "Embedding", Answers(t, m, <<>>)
        PROVE  Searched(U, world)
    BY <1>5, <2>2
  <2>3. CASE Undispatched(t, "Embedding", T.key)  BY <1>4, <2>3
  <2>4. CASE Fails(t, "Failed") \/ Fails(t, "NoVectors")  BY <1>3, <2>4
  <2> QED  BY <1>8, <2>1, <2>2, <2>3, <2>4 DEF Embedding
<1>9. CASE VectorStore(t)
  <2> DEFINE m == Model(t, "VectorStore", T.col)
             docs == Search(world.docs[m], T.query, world.k)
  <2>1. CASE Undispatched(t, "VectorStore", T.col)  BY <1>4, <2>1
  <2>2. ASSUME Dispatched(t, "VectorStore", T.col), Answers(t, m, docs)
        PROVE  Searched(U, world)
    <3>1. "VectorStore" \in Kinds  BY DEF Kinds
    <3>2. m \in Models
      BY <1>1, <2>2, <3>1, NamedIsModel DEF Searched, Dispatched
    <3> HIDE DEF docs, m
    <3>3. /\ U.by = m /\ U.docs = docs /\ U.query = T.query
          /\ U.key = T.key /\ U.col = T.col
      BY <1>0, <2>2, AnswersStep
    <3>4. U.docs = Search(world.docs[U.by], U.query, world.k)  BY <3>3 DEF docs
    <3> QED  BY <1>1, <3>2, <3>3, <3>4 DEF Searched
  <2> QED  BY <1>9, <2>1, <2>2 DEF VectorStore
<1> QED  BY <1>7, <1>8, <1>9 DEF Step

LEMMA SearchedSpawn ==
  ASSUME RigInv, NEW r \in Runtimes, NEW t \in Turns, SpawnIo(r, t) \/ SpawnRetrieve(r, t)
  PROVE  Searched(turn'[t], world)
<1>1. /\ world.names \subseteq Names /\ world.query \in Vector
  BY WorldsAssumption DEF RigInv, RigTypeOK
<1>2. PICK kind, key, col, fits, query :
         /\ key \in Keys /\ col \in Keys /\ query \in Vector
         /\ Spawn(r, t, kind, key, col, fits, query)
  <2>1. <<>> \in Vector  BY DEF Vector
  <2>2. CASE SpawnIo(r, t)
    <3>1. PICK kind \in world.kinds, key \in world.names \cup {Default}, fits \in world.fits :
             Spawn(r, t, kind, key, key, fits,
                   IF kind = "VectorStore" THEN world.query ELSE <<>>)
      BY <2>2 DEF SpawnIo
    <3>2. key \in Keys  BY <1>1 DEF Keys
    <3> QED  BY <1>1, <2>1, <3>1, <3>2
  <2>3. CASE SpawnRetrieve(r, t)
    <3>1. PICK key \in world.names \cup {Default}, col \in world.names :
             Spawn(r, t, "Retrieve", key, col, TRUE, <<>>)
      BY <2>3 DEF SpawnRetrieve
    <3>2. key \in Keys /\ col \in Keys  BY <1>1 DEF Keys
    <3> QED  BY <2>1, <3>1, <3>2
  <2> QED  BY <2>2, <2>3
<1>3. turn = [x \in Turns |-> turn[x]]  BY DEF RigInv, TurnsInv
<1>4. /\ turn'[t].key = key /\ turn'[t].col = col /\ turn'[t].query = query
      /\ turn'[t].result = "none"
  BY <1>2, <1>3 DEF Spawn
<1> QED  BY <1>2, <1>4 DEF Searched

LEMMA SearchedInit == ASSUME Init PROVE SearchedInv
<1>1. \A t \in Turns : ~Holds(t)  BY DEF Init, Free, Holds, Kinds
<1> QED  BY <1>1 DEF SearchedInv

LEMMA SearchedNext ==
  ASSUME RigInv, SearchedInv, [Next]_vars
  PROVE  SearchedInv'
<1>1. ASSUME UNCHANGED <<world, turn>>  PROVE SearchedInv'
  BY <1>1 DEF SearchedInv, Holds
<1>2. ASSUME NEW t \in Turns, world' = world, turn' = [turn EXCEPT ![t] = turn'[t]],
             Holds(t)' => Searched(turn'[t], world)
      PROVE  SearchedInv'
  <2>1. turn = [x \in Turns |-> turn[x]]  BY DEF RigInv, TurnsInv
  <2>2. \A x \in Turns \ {t} : turn'[x] = turn[x]  BY <1>2, <2>1
  <2>3. ASSUME NEW x \in Turns, Holds(x)'  PROVE Searched(turn'[x], world')
    <3>1. CASE x = t  BY <1>2, <2>3, <3>1
    <3>2. CASE x # t
      <4>1. turn'[x] = turn[x] /\ Holds(x)  BY <2>2, <2>3, <3>2 DEF Holds
      <4> QED  BY <1>2, <4>1 DEF SearchedInv
    <3> QED  BY <3>1, <3>2
  <2> QED  BY <2>3 DEF SearchedInv
<1>3. CASE UNCHANGED vars  BY <1>1, <1>3 DEF vars
<1>4. CASE Host
  <2>1. CASE \E r \in Runtimes, t \in world.turns : SpawnIo(r, t) \/ SpawnRetrieve(r, t)
    <3>1. PICK r \in Runtimes, t \in world.turns : SpawnIo(r, t) \/ SpawnRetrieve(r, t)
      BY <2>1
    <3>2. t \in Turns  BY WorldsAssumption DEF RigInv, RigTypeOK
    <3>3. world' = world /\ turn' = [turn EXCEPT ![t] = turn'[t]]
      BY <3>1, <3>2, Spawning DEF Joins
    <3> QED  BY <1>2, <3>1, <3>2, <3>3, SearchedSpawn
  <2>2. CASE ~\E r \in Runtimes, t \in world.turns : SpawnIo(r, t) \/ SpawnRetrieve(r, t)
    BY <1>1, <1>4, <2>2 DEF Host, NewOnBench, AddModel, RegisterExecutor, DropRuntime, Clone
  <2> QED  BY <2>1, <2>2
<1>5. CASE \E t \in Turns : Step(t)
  <2>1. PICK t \in Turns : Step(t)  BY <1>5
  <2>2. CASE Reply(t)
    <3>1. /\ world' = world /\ turn' = [turn EXCEPT ![t] = turn'[t]]
          /\ turn'[t].stage = "over"
      BY <2>2, Replying DEF Leaves
    <3>2. ~Holds(t)'  BY <3>1 DEF Holds, Kinds
    <3> QED  BY <1>2, <3>1, <3>2
  <2>3. CASE ~Reply(t)
    <3>1. world' = world /\ turn' = [turn EXCEPT ![t] = turn'[t]]
      BY <2>1, <2>3, ExecutorStep DEF Advanced
    <3> QED  BY <1>2, <2>1, <2>3, <3>1, SearchedStep
  <2> QED  BY <2>2, <2>3
<1> QED  BY <1>3, <1>4, <1>5 DEF Next

\* nanites-rig/src/lib.rs:1128-1180: for every collection, of any size and of
\* vectors of any lengths, every query and every k, a task that searched has the
\* top k of the collection: no two documents out of order, ties as they were
\* added, none missing that scores higher, and no cosine out of range.
THEOREM SearchesAreTopK == Spec => []SearchIsTopK
<1>1. RigInv /\ SearchedInv => SearchIsTopK
  <2> SUFFICES ASSUME RigInv, SearchedInv, NEW t \in Turns, turn[t].stage = "done",
                      turn[t].result = "ok", turn[t].kind \in {"VectorStore", "Retrieve"}
               PROVE  IsTopK(turn[t].docs, world.docs[turn[t].by], turn[t].query, world.k)
    BY DEF SearchIsTopK
  <2>1. Searched(turn[t], world)  BY DEF SearchedInv, Holds
  <2>2. turn[t].by \in Models /\ turn[t].query \in Vector
        /\ turn[t].docs = Search(world.docs[turn[t].by], turn[t].query, world.k)
    BY <2>1 DEF Searched
  <2>3. world \in Worlds  BY DEF RigInv, RigTypeOK
  <2>4. world.docs[turn[t].by] \in Seq(Vector) /\ world.k \in Nat
    BY <2>2, <2>3, WorldsAssumption
  <2> QED  BY <2>2, <2>4, SearchReturnsTopK
<1>2. Init => SearchedInv  BY SearchedInit
<1>3. RigInv /\ SearchedInv /\ [Next]_vars => SearchedInv'  BY SearchedNext
<1> QED  BY <1>1, <1>2, <1>3, RigInvariant, PTL DEF Spec
=============================================================================
