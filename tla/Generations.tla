---------------------------- MODULE Generations ----------------------------
(***************************************************************************)
(* What a task is through checkpoints and restores: how it was erased,     *)
(* what of it and of its input a checkpoint holds, how the registry makes  *)
(* it again, which executor the new runtime has for it by then, and what   *)
(* the frontier's tools and the scaffolds change of it meanwhile.          *)
(*                                                                         *)
(* The host has one runtime at a time. What it does after its checkpoint   *)
(* cannot be seen in the restored one, so it stops there. All tasks are    *)
(* roots and no cache is attached: both are in Runtime. The two snapshots  *)
(* of a checkpoint are one step: the gap, and the execution graph, are in  *)
(* Checkpoint.                                                             *)
(***************************************************************************)
EXTENDS Naturals, Sequences, FiniteSets

CONSTANTS
    PureTypes, IoTypes,  \* types that implement Task and IoTask
    JsonTypes,           \* types whose Input is serde_json::Value
    Wrapper,             \* the type a scaffold wraps tasks in
    Values, Null,        \* inputs
    Unserializable,      \* ... that serde_json refuses; a JSON value is none of them
    MaxNodes, MaxGenerations,            \* bounds: ids, restores,
    MaxSetup, MaxReplaced                \* settings of a runtime, tasks replaced at once

ASSUME TypesAssumption == PureTypes \cap IoTypes = {} /\ Wrapper \notin PureTypes \cup IoTypes
ASSUME InputsAssumption == Null \notin Values /\ Unserializable \subseteq Values
ASSUME BoundsAssumption == MaxNodes \in Nat

Types == PureTypes \cup IoTypes
NodeId == 0 .. MaxNodes - 1
Absent == [status |-> "Absent"]

VARIABLES
    generation,  \* restores so far
    nextId,
    frontier,    \* id -> task, serialized input and status
    closure,     \* id -> what tokio got: task, input, executor, where it stands
    executors,   \* the types with an executor
    scaffolds,
    cancelled,
    saved,       \* <<>> or the checkpoint of this runtime
    given        \* (history) id -> the input the host gave, whether it fitted the task
                 \* and the task was replaced since, and how it was registered when
                 \* it was rebuilt

runtime == <<generation, nextId, frontier, closure, executors, scaffolds, cancelled, given>>
vars == <<runtime, saved>>

(***************************************************************************)
(* Erased tasks. `wrap` is what made the trait object: "plain" for erase,  *)
(* "memo" for erase_serializable, "io" for erase_io.                       *)
(***************************************************************************)

Takes(type) == IF type \in JsonTypes THEN "json" ELSE "own"
Erase(type) == [type |-> type, wrap |-> "plain", takes |-> Takes(type)]
EraseSerializable(type) == [type |-> type, wrap |-> "memo", takes |-> Takes(type)]
EraseIo(type) == [type |-> type, wrap |-> "io", takes |-> Takes(type)]

Tasks == {Erase(t) : t \in PureTypes} \cup {EraseSerializable(t) : t \in PureTypes}
         \cup {EraseIo(t) : t \in IoTypes}

\* MUTANT of TaskType: the Rust name stands in, as in the execution graph.
RustName(task) == task.type

\* serializable_info, or "opaque".
TaskType(task) == IF task.wrap = "memo" THEN task.type ELSE "opaque"

\* downcast_ref to T::Input, then to_value(..).ok(); unwrap_or(Null).
SerializeInput(task, input) ==
    IF /\ task.wrap = "memo" /\ input.as = task.takes
       /\ Takes(task.type) = "own" => input.val \notin Unserializable
    THEN input.val ELSE Null

\* The task's own body, if it has one and takes this input.
CanRun(task, input) == task.wrap # "io" /\ input.as = task.takes

(***************************************************************************)
(* The registry                                                            *)
(***************************************************************************)

\* The names a registry knows, and how each was registered. A factory that fails
\* is left out with the unknown names: restore makes the same error of both.
Registries == UNION {[names -> {"with_name", "factory"}] : names \in SUBSET PureTypes}

\* MUTANT of Deserialize: register_with_name keeps the task serializable.
KeepSerializable(entry, name) == EraseSerializable(name)

\* register_with_name rebuilds with erase; the factories here are the ones
\* written to be restored from again.
Deserialize(entry, name) == IF entry = "factory" THEN EraseSerializable(name) ELSE Erase(name)

(***************************************************************************)
(* Scaffolds                                                               *)
(***************************************************************************)

\* Logging or retrying, a wrapper is erased on its own and hides what it wraps.
Apply(scaffold, task) ==
    IF scaffold = "identity" THEN task
    ELSE [type |-> Wrapper, wrap |-> "plain", takes |-> task.takes]

Scaffolded(task) ==
    LET after[i \in 0 .. Len(scaffolds)] ==
            IF i = 0 THEN task ELSE Apply(scaffolds[i], after[i - 1])
    IN after[Len(scaffolds)]

(***************************************************************************)
(* Spawning                                                                *)
(***************************************************************************)

Node(status, task, input) == [status |-> status, task |-> task, input |-> input]
Closure(status, task, input, withExecutor, by) ==
    [status |-> status, task |-> task, input |-> input, executor |-> withExecutor, by |-> by]
Given(val, fits, replaced, entries) ==
    [status |-> "given", val |-> val, fits |-> fits, replaced |-> replaced, entries |-> entries]

\* What spawn_erased_internal registers and what it moves into the closure.
Registered(task, input) == Node("Pending", task, SerializeInput(task, input))
Queued(task, input, withExecutor) == Closure("queued", task, input, withExecutor, "none")

Init ==
    /\ generation = 0 /\ nextId = 0
    /\ frontier = [n \in NodeId |-> Absent] /\ closure = [n \in NodeId |-> Absent]
    /\ given = [n \in NodeId |-> Absent]
    /\ executors = {} /\ scaffolds = <<>> /\ cancelled = FALSE /\ saved = <<>>

\* spawn_dyn, with an input that may not be the task's. The scaffolds are applied
\* and the executor is looked up now.
Spawn(t, as, v) ==
    LET task == Scaffolded(t)
        input == [as |-> as, val |-> v]
    IN /\ nextId < MaxNodes /\ nextId' = nextId + 1
       /\ frontier' = [frontier EXCEPT ![nextId] = Registered(task, input)]
       /\ closure' = [closure EXCEPT ![nextId] = Queued(task, input, task.type \in executors)]
       /\ given' = [given EXCEPT ![nextId] = Given(v, as = task.takes, FALSE, <<>>)]
       /\ UNCHANGED <<generation, executors, scaffolds, cancelled, saved>>

Cancel == /\ ~cancelled /\ cancelled' = TRUE
          /\ UNCHANGED <<generation, nextId, frontier, closure, executors, scaffolds,
                         given, saved>>

Settings == Cardinality(executors) + Len(scaffolds)

WithExecutor(type) ==
    /\ Settings < MaxSetup /\ type \notin executors /\ executors' = executors \cup {type}
    /\ UNCHANGED <<generation, nextId, frontier, closure, scaffolds, cancelled,
                   given, saved>>

WithScaffold(s) ==
    /\ Settings < MaxSetup /\ scaffolds' = Append(scaffolds, s)
    /\ UNCHANGED <<generation, nextId, frontier, closure, executors, cancelled,
                   given, saved>>

(***************************************************************************)
(* The closure of a task                                                   *)
(***************************************************************************)

\* remove_terminal; the closure is over.
Close(n) ==
    /\ closure' = [closure EXCEPT ![n] = Absent]
    /\ given' = [given EXCEPT ![n] = Absent]
    /\ frontier' = [frontier EXCEPT ![n] = Absent]
    /\ UNCHANGED <<generation, nextId, executors, scaffolds, cancelled, saved>>

\* MUTANT of Dispatch: the executor is looked up when the task starts.
DispatchLate(n) == IF closure[n].task.type \in executors THEN "executor"
                   ELSE IF CanRun(closure[n].task, closure[n].input) THEN "body" ELSE "nobody"

\* Who executes the task; "nobody" is NoExecutor or InputTypeMismatch.
Dispatch(n) == IF closure[n].executor THEN "executor"
               ELSE IF CanRun(closure[n].task, closure[n].input) THEN "body" ELSE "nobody"

Begin(n) ==
    /\ closure[n].status = "queued"
    /\ \/ cancelled /\ Close(n)
       \/ /\ ~cancelled
          /\ closure' = [closure EXCEPT ![n] = Closure("running", @.task, @.input, @.executor,
                                                       Dispatch(n))]
          /\ frontier' = IF frontier[n] = Absent THEN frontier
                         ELSE [frontier EXCEPT ![n] = Node("Running", @.task, @.input)]
          /\ UNCHANGED <<generation, nextId, executors, scaffolds, cancelled, given,
                         saved>>

\* However the task ended.
End(n) == closure[n].status = "running" /\ Close(n)

(***************************************************************************)
(* The frontier's tools                                                    *)
(***************************************************************************)

Replaced == {n \in NodeId : given[n] # Absent /\ given[n].replaced}

ReplaceTask(n, t) ==
    /\ n \in Replaced \/ Cardinality(Replaced) < MaxReplaced
    /\ frontier[n].status = "Pending" /\ t # frontier[n].task
    /\ frontier' = [frontier EXCEPT ![n] = Node(@.status, t, @.input)]
    /\ given' = [given EXCEPT ![n] = Given(@.val, @.fits, TRUE, @.entries)]
    /\ UNCHANGED <<generation, nextId, closure, executors, scaffolds, cancelled, saved>>

Remove(n) ==
    /\ frontier[n] # Absent
    /\ frontier' = [frontier EXCEPT ![n] = Absent]
    /\ UNCHANGED <<generation, nextId, closure, executors, scaffolds, cancelled, given,
                   saved>>

(***************************************************************************)
(* Checkpoint and restore                                                  *)
(***************************************************************************)

FrontierSnapshot(node) == [name |-> TaskType(node.task), input |-> node.input]

\* A captured node and what becomes of it.
Rebuilt(snap, registry) == Deserialize(registry[snap.name], snap.name)
Reinput(snap) == [as |-> "json", val |-> snap.input]
RestoredOnce(g, entry) == Given(g.val, g.fits, g.replaced, Append(g.entries, entry))

Captured == {n \in NodeId : frontier[n] # Absent}

TakeCheckpoint ==
    /\ saved' = <<[frontier |-> [n \in Captured |-> FrontierSnapshot(frontier[n])],
                   given |-> [n \in Captured |-> given[n]]]>>
    /\ UNCHANGED runtime

\* The captured tasks are spawned in the order of a HashMap, from id 0 again,
\* without executors or scaffolds. restore consumes the checkpoint.
Restore(registry, order) ==
    LET C == saved[1]
        respawned(n) == n < Len(order)
        snap(n) == C.frontier[order[n + 1]]
        task(n) == Rebuilt(snap(n), registry)
    IN /\ generation < MaxGenerations
       /\ \A n \in DOMAIN C.frontier : /\ C.frontier[n].name # "opaque"
                                        /\ C.frontier[n].name \in DOMAIN registry
       /\ generation' = generation + 1 /\ nextId' = Len(order)
       /\ frontier' = [n \in NodeId |-> IF respawned(n) THEN Registered(task(n), Reinput(snap(n)))
                                        ELSE Absent]
       /\ closure' = [n \in NodeId |-> IF respawned(n) THEN Queued(task(n), Reinput(snap(n)), FALSE)
                                       ELSE Absent]
       /\ given' = [n \in NodeId |-> IF respawned(n)
                                     THEN RestoredOnce(C.given[order[n + 1]], registry[snap(n).name])
                                     ELSE Absent]
       /\ executors' = {} /\ scaffolds' = <<>> /\ cancelled' = FALSE
       /\ saved' = <<>>

Orders(S) == {o \in [1 .. Cardinality(S) -> S] : \A i, j \in DOMAIN o : o[i] = o[j] => i = j}

\* A refused restore changes nothing here; what it leaves running is in
\* Checkpoint.
Host ==
    \/ \E t \in Tasks, as \in {"own", "json"}, v \in Values : Spawn(t, as, v)
    \/ \E t \in Types : WithExecutor(t)
    \/ \E s \in {"identity", "wrap"} : WithScaffold(s)
    \/ \E n \in NodeId : Remove(n)
    \/ \E n \in NodeId, t \in Tasks : ReplaceTask(n, t)
    \/ Cancel \/ TakeCheckpoint

Next ==
    \/ saved = <<>> /\ Host
    \/ saved = <<>> /\ \E n \in NodeId : Begin(n) \/ End(n)
    \/ /\ saved # <<>>
       /\ \E registry \in Registries, order \in Orders(DOMAIN saved[1].frontier) :
             Restore(registry, order)

Spec == Init /\ [][Next]_vars

(***************************************************************************)
(* Properties                                                              *)
(***************************************************************************)

\* In whatever generation a task runs, it runs on the input the host once gave
\* it: where the input could not be captured (checkpoint.rs:242, Null), restore
\* refuses or the task rejects it. Only a node whose task was replaced while it
\* was pending, or was to reject what the host gave, can run on Null later.
RunsOnItsInput ==
    \A n \in NodeId :
        closure[n] # Absent /\ closure[n].by \in {"body", "executor"} =>
            closure[n].input.val = given[n].val \/ given[n].replaced \/ ~given[n].fits

\* registry.rs:193: register_with_name restores a task once. What has been
\* through two restores was rebuilt, the first time, by a factory that erases it
\* as serializable again, or was replaced in the frontier meanwhile.
SecondRestoreNeedsAFactory ==
    \A n \in NodeId : given[n] # Absent =>
        \A i \in DOMAIN given[n].entries :
            i < Len(given[n].entries) => given[n].entries[i] = "factory" \/ given[n].replaced

\* ctx.rs:240 and checkpoint.rs:361: restore spawns before the caller has the
\* runtime, and executors are looked up at the spawn. A restored task is never
\* given to an executor, however soon all of them are registered again; so it
\* runs at all only if it has a body and takes JSON.
RestoredTasksRunThemselves ==
    \A n \in NodeId : given[n] # Absent /\ given[n].entries # <<>> =>
        /\ closure[n].by # "executor"
        /\ closure[n].by = "body" => closure[n].task.type \in JsonTypes
=============================================================================
