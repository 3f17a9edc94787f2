------------------------------- MODULE MCRig -------------------------------
(***************************************************************************)
(* Worlds for Rig. In the first four, executors are built, registered,     *)
(* cloned and used: RetrieveTask while its executors are replaced, two     *)
(* clones with two tasks, a provider with two models and a default, and    *)
(* the executors of prompts. The others hold every small collection, query *)
(* and k, with just enough executors for one search.                       *)
(***************************************************************************)
EXTENDS Rig, TLC

CONSTANTS MaxDocs, MaxK, First

Vectors == {<<0, 0>>, <<1, 0>>, <<2, 0>>, <<0, 1>>, <<1, 1>>, <<-1, 0>>, <<1>>}
Queries == {<<0, 0>>, <<1, 0>>, <<1, 1>>, <<1>>}
Both(x, y) == [m \in Models |-> IF m = First THEN x ELSE y]

\* The embedding of the query by either model, and the collection made with it.
Base == [vec |-> Both(<<1, 0>>, <<0, 1>>), query |-> <<1, 0>>, k |-> 1,
         docs |-> Both(<<<<1, 0>>, <<0, 1>>>>, <<<<0, 1>>>>)]

World(base, kinds, names, runtimes, turns, fits, built, regs) ==
    [vec |-> base.vec, query |-> base.query, k |-> base.k, docs |-> base.docs,
     kinds |-> kinds, names |-> names, runtimes |-> runtimes, turns |-> turns,
     fits |-> fits, budget |-> built, regs |-> regs]

SomeIn(S, n) == CHOOSE T \in SUBSET S : Cardinality(T) = n
Name == SomeIn(Names, 1)
Runtime1 == SomeIn(Runtimes, 1)
Turn1 == SomeIn(Turns, 1)

OneSearch(docs, query, k) ==
    World([vec |-> Both(query, query), query |-> query, k |-> k, docs |-> Both(docs, docs)],
          {"VectorStore"}, Name, Runtime1, Turn1, {TRUE}, 1, 1)

Collections == UNION {[1 .. n -> Vectors] : n \in 0 .. MaxDocs}

MCWorlds ==
    {World(Base, {"Embedding", "VectorStore"}, Name, Runtime1, Turn1, {TRUE}, 3, 1),
     World(Base, {"VectorStore"}, Name, Runtimes, Turns, {TRUE}, 2, 1),
     World(Base, {"Embedding"}, Names, Runtime1, Turn1, {TRUE}, 1, 3),
     World(Base, {"Completion", "Chat", "Structured"}, Name, Runtime1, Turn1, BOOLEAN, 2, 1)}
    \cup {OneSearch(d, q, k) : d \in Collections, q \in Queries, k \in 0 .. MaxK}

\* Nothing distinguishes one cell from another.
CellSymmetry == Permutations(Cells)
=============================================================================
