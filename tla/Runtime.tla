------------------------------ MODULE Runtime ------------------------------
(***************************************************************************)
(* The task runtime of nanites-core: the frontier (live tree of tasks),    *)
(* the execution graph (audit log), the optional result cache, the         *)
(* cancellation flag and, for every spawned task, the life of the closure  *)
(* `Ctx::spawn_erased_internal` hands to tokio.                            *)
(*                                                                         *)
(* Every structure is behind a mutex of its own and is touched once per    *)
(* action, so an action is one critical section of the code (or the code   *)
(* up to the next one); anything may happen between two of them.           *)
(***************************************************************************)
EXTENDS Naturals

CONSTANTS
    MaxNodes,     \* bound: how many tasks a behaviour may spawn
    Keys,         \* cache keys: (type name, params, input hash)
    NoKey,        \* the task is not serializable, so it has no cache key
    Types,        \* output types
    Unit,         \* the type `()`, in which a lost output is replaced
    Requests,     \* the spawn calls callers may make
    NoNode,       \* `None` for a parent, and "awaits nothing"
    NoVal,        \* no value: `None`, a cache miss
    CacheOn,      \* the runtime was built `with_cache`
    MayPanic,     \* task code (a body, an output's Clone or Serialize) may panic
    MayShutDown   \* the tokio runtime may be dropped under the tasks

NodeId == 0 .. MaxNodes - 1

\* A spawn call. body: "run" is the task's own `run`, "executor" a registered
\* executor (which may return another type than the task declares), "reject"
\* a task that fails before any user code, with InputTypeMismatch or NoExecutor.
\* dyn: the caller asked for an untyped output (`spawn_dyn`).
Request == [body : {"run", "executor", "reject"}, key : Keys \cup {NoKey},
            declared : Types, yields : Types, dyn : BOOLEAN]

Values == [by : NodeId, type : Types]

ASSUME MaxNodesAssumption == MaxNodes \in Nat \ {0}
ASSUME SentinelAssumption == /\ NoKey \notin Keys
                             /\ NoNode \notin NodeId
                             /\ NoVal \notin Values
                             /\ Unit \in Types
ASSUME SwitchAssumption == {CacheOn, MayPanic, MayShutDown} \subseteq BOOLEAN
\* Task::run returns its own Output; only an executor is untyped. A key holds
\* the task's stable type name, so equal keys mean equal declared outputs.
\* A mismatched input has no hash and an IoTask no type name: no key.
ASSUME RequestAssumption ==
    /\ Requests \subseteq Request /\ Requests # {}
    /\ \A r \in Requests : /\ r.body = "run" => r.yields = r.declared
                           /\ r.body = "reject" => r.key = NoKey
    /\ \A r, s \in Requests : 
          r.key = s.key /\ r.key # NoKey => r.declared = s.declared

VARIABLES
    nextId,         \* FrontierInner.next_id
    status,         \* frontier: TaskNode.status, "Absent" when not in the map
    frontChildren,  \* frontier: TaskNode.children
    parent,         \* parent id, the same in TaskNode and ExecNode
    terminal,       \* audit: ExecNode.terminal, "Unrecorded" when not in the map
    recChildren,    \* audit: ExecNode.children
    recOutput,      \* audit: ExecNode.output
    cancelled,      \* the AtomicBool of the CancellationToken
    cache,          \* MemoryCache: what is stored under each key
    poisoned,       \* the cache's mutex is poisoned
    down,           \* the tokio runtime is being dropped
    pc,             \* where the task's closure stands
    req,            \* the spawn call that created the task
    outcome,        \* which way the closure is about to end
    value,          \* the output it carries
    waits,          \* the child whose handle the body last awaited
    handle          \* what the TaskHandle resolves to

frontierVars == <<nextId, status, frontChildren, parent>>
auditVars    == <<terminal, recChildren, recOutput>>
cacheVars    == <<cache, poisoned>>
envVars      == <<cancelled, down>>
closureVars  == <<outcome, value>>
vars == <<frontierVars, auditVars, cacheVars, envVars, closureVars,
          pc, req, waits, handle>>

LiveStatus     == {"Pending", "Running"}
TerminalStatus == {"Completed", "Failed", "Cancelled"}
Outcomes       == {"none", "cancelled", "hit", "ok", "err"}
Stages == {"absent", "registered", "queued", "lookup", "hit", "start",
           "executing", "mark", "unlink", "output", "insert", "seal",
           "deliver", "done", "dead"}
Replies == [tag : {"Pending", "Ok", "TaskPanicked", "Cancelled"},
            val : Values \cup {NoVal}]

Unanswered == [tag |-> "Pending", val |-> NoVal]
Answered(n) == handle[n].tag # "Pending"

NoRequest == CHOOSE r \in Requests : TRUE

Init ==
    /\ nextId = 0
    /\ status = [n \in NodeId |-> "Absent"]
    /\ frontChildren = [n \in NodeId |-> {}]
    /\ parent = [n \in NodeId |-> NoNode]
    /\ terminal = [n \in NodeId |-> "Unrecorded"]
    /\ recChildren = [n \in NodeId |-> {}]
    /\ recOutput = [n \in NodeId |-> NoVal]
    /\ cancelled = FALSE
    /\ cache = [k \in Keys |-> NoVal]
    /\ poisoned = FALSE
    /\ down = FALSE
    /\ pc = [n \in NodeId |-> "absent"]
    /\ req = [n \in NodeId |-> NoRequest]
    /\ outcome = [n \in NodeId |-> "none"]
    /\ value = [n \in NodeId |-> NoVal]
    /\ waits = [n \in NodeId |-> NoNode]
    /\ handle = [n \in NodeId |-> Unanswered]

\* The closure of n moves from stage a to stage b.
Move(n, a, b) == pc[n] = a /\ pc' = [pc EXCEPT ![n] = b]

\* Frontier::set_*: a no-op on a node that has been removed.
SetStatus(n, s) == status' = [status EXCEPT ![n] = IF @ = "Absent" THEN @ ELSE s]

UsesCache(n) == CacheOn /\ req[n].key # NoKey

(***************************************************************************)
(* Spawning: synchronous, on the thread of the caller.                     *)
(***************************************************************************)

\* MUTANT of InBody: a body may end or be dropped inside its own spawn call.
InBodyOrSpawning(n) == pc[n] = "executing" /\ req[n].body # "reject"

\* The body of n is past its dispatch and not inside a spawn call of its own
\* (spawn does not await). A rejected task has no body.
InBody(n) ==
    /\ pc[n] = "executing"
    /\ req[n].body # "reject"
    /\ \A c \in NodeId : parent[c] = n => pc[c] # "registered"

\* MUTANT of Active: an await that does not suspend the body.
ActiveWithoutWaiting(n) == InBody(n)

\* ... and is not suspended on the handle of a child.
Active(n) == InBody(n) /\ (waits[n] # NoNode => Answered(waits[n]))

\* Frontier::register, called with the Runtime's root context (p = NoNode) or
\* by the body of task p.
Register(p, r) ==
    /\ nextId \in NodeId                       \* bound: MaxNodes
    /\ p = NoNode \/ (p \in NodeId /\ Active(p))
    /\ LET id == nextId IN
       /\ pc' = [pc EXCEPT ![id] = "registered"]
       /\ req' = [req EXCEPT ![id] = r]
       /\ status' = [status EXCEPT ![id] = "Pending"]
       /\ parent' = [parent EXCEPT ![id] = p]
       /\ frontChildren' = IF p # NoNode /\ status[p] # "Absent"
                           THEN [frontChildren EXCEPT ![p] = @ \cup {id}]
                           ELSE frontChildren
    /\ nextId' = nextId + 1
    /\ UNCHANGED <<auditVars, cacheVars, envVars, closureVars, waits, handle>>

\* MUTANT of RecordSpawn: the parent's list is replaced instead of extended.
RecordOnlyChild(n) ==
    /\ Move(n, "registered", "queued")
    /\ terminal' = [terminal EXCEPT ![n] = "None"]
    /\ recChildren' = IF parent[n] = NoNode THEN recChildren
                      ELSE [recChildren EXCEPT ![parent[n]] = {n}]
    /\ UNCHANGED <<frontierVars, recOutput, cacheVars, envVars, closureVars,
                   req, waits, handle>>

\* MUTANT of RecordSpawn: a record that is already there is kept.
RecordOnce(n) ==
    /\ Move(n, "registered", "queued")
    /\ terminal' = [terminal EXCEPT ![n] = IF @ = "Unrecorded" THEN "None" ELSE @]
    /\ LET p == parent[n] IN
       recChildren' = IF p = NoNode THEN recChildren
                      ELSE [recChildren EXCEPT ![p] = @ \cup {n}]
    /\ UNCHANGED <<frontierVars, recOutput, cacheVars, envVars, closureVars,
                   req, waits, handle>>

\* ExecGraph::record_spawn inserts a fresh node (over an older one, if the id
\* has one), then the closure is handed to tokio::spawn.
RecordSpawn(n) ==
    /\ Move(n, "registered", "queued")
    /\ terminal' = [terminal EXCEPT ![n] = "None"]
    /\ recOutput' = [recOutput EXCEPT ![n] = NoVal]
    /\ LET p     == parent[n]
           empty == [recChildren EXCEPT ![n] = {}]
       IN  recChildren' = IF p # NoNode /\ terminal[p] # "Unrecorded"
                          THEN [empty EXCEPT ![p] = @ \cup {n}]
                          ELSE empty
    /\ UNCHANGED <<frontierVars, cacheVars, envVars, closureVars,
                   req, waits, handle>>

(***************************************************************************)
(* The closure, up to the task's body.                                     *)
(***************************************************************************)

\* MUTANT of CheckCancel: the first poll does not look at the flag.
StartUnchecked(n) ==
    /\ Move(n, "queued", IF UsesCache(n) THEN "lookup" ELSE "start")
    /\ UNCHANGED <<frontierVars, auditVars, cacheVars, envVars, closureVars,
                   req, waits, handle>>

\* MUTANT of CheckCancel: the cancel path returns with the sender kept alive.
CancelSilently(n) ==
    /\ Move(n, "queued", IF cancelled THEN "done"
                         ELSE IF UsesCache(n) THEN "lookup" ELSE "start")
    /\ UNCHANGED <<frontierVars, auditVars, cacheVars, envVars, closureVars,
                   req, waits, handle>>

\* First poll: the only look the runtime itself takes at the cancel flag.
CheckCancel(n) ==
    /\ pc[n] = "queued"
    /\ IF cancelled
       THEN /\ pc' = [pc EXCEPT ![n] = "mark"]
            /\ outcome' = [outcome EXCEPT ![n] = "cancelled"]
       ELSE /\ pc' = [pc EXCEPT ![n] = IF UsesCache(n) THEN "lookup" ELSE "start"]
            /\ UNCHANGED outcome
    /\ UNCHANGED <<frontierVars, auditVars, cacheVars, envVars, value,
                   req, waits, handle>>

\* MUTANT of LookupMiss: a hit may be taken for a miss.
MissAnyway(n) ==
    /\ Move(n, "lookup", "start")
    /\ UNCHANGED <<frontierVars, auditVars, cacheVars, envVars, closureVars,
                   req, waits, handle>>

\* TaskCache::get. A poisoned mutex is a miss. On a hit the entry's clone
\* function (user code) runs under the lock.
LookupMiss(n) ==
    /\ Move(n, "lookup", "start")
    /\ poisoned \/ cache[req[n].key] = NoVal
    /\ UNCHANGED <<frontierVars, auditVars, cacheVars, envVars, closureVars,
                   req, waits, handle>>

LookupHit(n) ==
    /\ Move(n, "lookup", "hit")
    /\ ~poisoned /\ cache[req[n].key] # NoVal
    /\ outcome' = [outcome EXCEPT ![n] = "hit"]
    /\ value' = [value EXCEPT ![n] = cache[req[n].key]]
    /\ UNCHANGED <<frontierVars, auditVars, cacheVars, envVars, req, waits, handle>>

\* MUTANT of HitSetOutput: a hit's output is not logged.
HitUnlogged(n) ==
    /\ Move(n, "hit", "mark")
    /\ UNCHANGED <<frontierVars, auditVars, cacheVars, envVars, closureVars,
                   req, waits, handle>>

\* On a hit the audit log gets the output first.
HitSetOutput(n) ==
    /\ Move(n, "hit", "mark")
    /\ recOutput' = [recOutput EXCEPT ![n] = value[n]]
    /\ UNCHANGED <<frontierVars, terminal, recChildren, cacheVars, envVars,
                   closureVars, req, waits, handle>>

SetRunning(n) ==
    /\ Move(n, "start", "executing")
    /\ SetStatus(n, "Running")
    /\ UNCHANGED <<nextId, frontChildren, parent, auditVars, cacheVars, envVars,
                   closureVars, req, waits, handle>>

(***************************************************************************)
(* The body, as the runtime sees it: it spawns (Register), awaits the      *)
(* handles of its children and ends.                                       *)
(***************************************************************************)

Await(n, c) ==
    /\ Active(n)
    /\ parent[c] = n
    /\ ~Answered(c)
    /\ waits' = [waits EXCEPT ![n] = c]
    /\ UNCHANGED <<frontierVars, auditVars, cacheVars, envVars, closureVars,
                   pc, req, handle>>

Succeed(n) ==
    /\ Active(n)
    /\ pc' = [pc EXCEPT ![n] = "mark"]
    /\ outcome' = [outcome EXCEPT ![n] = "ok"]
    /\ value' = [value EXCEPT ![n] = [by |-> n, type |-> req[n].yields]]
    /\ UNCHANGED <<frontierVars, auditVars, cacheVars, envVars, req, waits, handle>>

\* Err from the body or the executor, or a rejection before it.
Fail(n) ==
    /\ Active(n) \/ (pc[n] = "executing" /\ req[n].body = "reject")
    /\ pc' = [pc EXCEPT ![n] = "mark"]
    /\ outcome' = [outcome EXCEPT ![n] = "err"]
    /\ UNCHANGED <<frontierVars, auditVars, cacheVars, envVars, value,
                   req, waits, handle>>
(***************************************************************************)
(* The closure, from the outcome to the reply. The frontier lets go of the *)
(* node before the audit log learns how it ended.                          *)
(***************************************************************************)

\* MUTANT of StatusOf: an error on the path of success.
StatusOfErrIsCompleted(o) == IF o = "cancelled" THEN "Cancelled" ELSE "Completed"

StatusOf(o) == IF o \in {"hit", "ok"} THEN "Completed"
               ELSE IF o = "err" THEN "Failed" ELSE "Cancelled"

Mark(n) ==
    /\ Move(n, "mark", "unlink")
    /\ SetStatus(n, StatusOf(outcome[n]))
    /\ UNCHANGED <<nextId, frontChildren, parent, auditVars, cacheVars, envVars,
                   closureVars, req, waits, handle>>

\* serialize_output_erased succeeds: a serializable task, and the type it declares.
Serializes(n) == req[n].key # NoKey /\ req[n].yields = req[n].declared

NextStage(n) == IF outcome[n] # "ok"  THEN "seal"
                ELSE IF Serializes(n) THEN "output"
                ELSE IF UsesCache(n)  THEN "insert" ELSE "seal"

RemoveIf(n, removed) ==
    /\ status' = IF removed THEN [status EXCEPT ![n] = "Absent"] ELSE status
    /\ frontChildren' = IF removed THEN [frontChildren EXCEPT ![n] = {}]
                                   ELSE frontChildren
    /\ UNCHANGED <<nextId, parent, auditVars, cacheVars, envVars, closureVars,
                   req, waits, handle>>

\* MUTANT of Unlink: remove_terminal does not count Failed as terminal.
UnlinkNotFailed(n) == /\ Move(n, "unlink", NextStage(n))
                      /\ RemoveIf(n, status[n] \in {"Completed", "Cancelled"})

\* MUTANT of Unlink: the cancel path forgets ExecGraph::set_cancelled.
UnlinkAndSkipSeal(n) ==
    /\ Move(n, "unlink", IF outcome[n] = "cancelled" THEN "deliver"
                         ELSE NextStage(n))
    /\ RemoveIf(n, TRUE)

\* Frontier::remove_terminal.
Unlink(n) == /\ Move(n, "unlink", NextStage(n))
             /\ RemoveIf(n, status[n] \in TerminalStatus)

\* ExecGraph::set_output with the output's JSON.
SetOutput(n) ==
    /\ Move(n, "output", IF UsesCache(n) THEN "insert" ELSE "seal")
    /\ recOutput' = [recOutput EXCEPT ![n] = value[n]]
    /\ UNCHANGED <<frontierVars, terminal, recChildren, cacheVars, envVars,
                   closureVars, req, waits, handle>>

\* MUTANT of CacheInsert: the output is stored without a downcast.
CacheInsertUnchecked(n) ==
    /\ Move(n, "insert", "seal")
    /\ cache' = IF poisoned THEN cache
                ELSE [cache EXCEPT ![req[n].key] = value[n]]
    /\ UNCHANGED <<frontierVars, auditVars, poisoned, envVars, closureVars,
                   req, waits, handle>>

\* make_cached_erased takes the output and TaskCache::insert stores it; the
\* insert is dropped if the mutex is poisoned.
CacheInsert(n) ==
    /\ Move(n, "insert", "seal")
    /\ req[n].yields = req[n].declared
    /\ cache' = IF poisoned THEN cache
                ELSE [cache EXCEPT ![req[n].key] = value[n]]
    /\ UNCHANGED <<frontierVars, auditVars, poisoned, envVars, closureVars,
                   req, waits, handle>>

\* An output of another type is lost: `()` goes on in its place.
CachePlaceholder(n) ==
    /\ Move(n, "insert", "seal")
    /\ req[n].yields # req[n].declared
    /\ value' = [value EXCEPT ![n] = [by |-> n, type |-> Unit]]
    /\ UNCHANGED <<frontierVars, auditVars, cacheVars, envVars, outcome,
                   req, waits, handle>>

\* MUTANT of Seal: a task that ends closes the records of its children too.
SealFamily(n) ==
    /\ Move(n, "seal", "deliver")
    /\ terminal' = [m \in NodeId |-> IF m = n THEN StatusOf(outcome[n])
                       ELSE IF parent[m] = n THEN "Cancelled" ELSE terminal[m]]
    /\ UNCHANGED <<frontierVars, recChildren, recOutput, cacheVars, envVars,
                   closureVars, req, waits, handle>>

\* ExecGraph::set_completed, set_failed or set_cancelled.
Seal(n) ==
    /\ Move(n, "seal", "deliver")
    /\ terminal' = [terminal EXCEPT ![n] = StatusOf(outcome[n])]
    /\ UNCHANGED <<frontierVars, recChildren, recOutput, cacheVars, envVars,
                   closureVars, req, waits, handle>>

\* on_done and TaskHandle::poll. A typed caller downcasts the output; every
\* error that was sent, cancellation included, is seen as TaskPanicked.
Deliver(n) ==
    /\ Move(n, "deliver", "done")
    /\ LET fits == req[n].dyn \/ value[n].type = req[n].declared
           ok   == outcome[n] \in {"hit", "ok"} /\ fits
       IN handle' = [handle EXCEPT ![n] =
                       IF ok THEN [tag |-> "Ok", val |-> value[n]]
                             ELSE [tag |-> "TaskPanicked", val |-> NoVal]]
    /\ UNCHANGED <<frontierVars, auditVars, cacheVars, envVars, closureVars,
                   req, waits>>

(***************************************************************************)
(* A closure that ends early. Its sender is dropped, so the handle reads   *)
(* Cancelled; nothing else is cleaned up.                                  *)
(***************************************************************************)

Die(n) ==
    /\ pc' = [pc EXCEPT ![n] = "dead"]
    /\ handle' = [handle EXCEPT ![n] = [tag |-> "Cancelled", val |-> NoVal]]
    /\ UNCHANGED <<frontierVars, auditVars, cache, envVars, closureVars, req, waits>>

\* A panic in the body, in the Serialize of its output or of a hit's, or in the
\* Clone of the output before it is cached.
Panic(n) ==
    /\ MayPanic
    /\ \/ Active(n)
       \/ pc[n] = "hit"
       \/ pc[n] = "mark" /\ outcome[n] = "ok" /\ Serializes(n)
       \/ pc[n] = "insert" /\ req[n].yields = req[n].declared
    /\ Die(n)
    /\ UNCHANGED poisoned

\* A panic in the Clone of a cached output, with the cache locked.
PanicUnderLock(n) ==
    /\ MayPanic
    /\ pc[n] = "lookup" /\ ~poisoned /\ cache[req[n].key] # NoVal
    /\ Die(n)
    /\ poisoned' = TRUE

\* tokio drops the tasks of a runtime that shuts down at their next await.
ShutDown ==
    /\ MayShutDown /\ ~down
    /\ down' = TRUE
    /\ UNCHANGED <<frontierVars, auditVars, cacheVars, cancelled, closureVars,
                   pc, req, waits, handle>>

Drop(n) ==
    /\ down
    /\ pc[n] = "queued" \/ InBody(n)
    /\ Die(n)
    /\ UNCHANGED poisoned

(***************************************************************************)
(* The cancellation token, which any holder may set and reset.             *)
(***************************************************************************)

Cancel ==
    /\ ~cancelled
    /\ cancelled' = TRUE
    /\ UNCHANGED <<frontierVars, auditVars, cacheVars, down, closureVars,
                   pc, req, waits, handle>>

Reset ==
    /\ cancelled
    /\ cancelled' = FALSE
    /\ UNCHANGED <<frontierVars, auditVars, cacheVars, down, closureVars,
                   pc, req, waits, handle>>

(***************************************************************************)

Spawn == \E p \in NodeId \cup {NoNode}, r \in Requests : Register(p, r)

\* What the scheduler runs on behalf of task n once it has been spawned.
Step(n) ==
    \/ RecordSpawn(n) \/ CheckCancel(n)
    \/ LookupMiss(n) \/ LookupHit(n) \/ HitSetOutput(n)
    \/ SetRunning(n) \/ Succeed(n) \/ Fail(n)
    \/ Mark(n) \/ Unlink(n) \/ SetOutput(n)
    \/ CacheInsert(n) \/ CachePlaceholder(n) \/ Seal(n) \/ Deliver(n)
    \/ Drop(n)

Next ==
    \/ Spawn
    \/ \E n \in NodeId : \/ Step(n) \/ Panic(n) \/ PanicUnderLock(n)
                         \/ \E c \in NodeId : Await(n, c)
    \/ ShutDown \/ Cancel \/ Reset

Spec == Init /\ [][Next]_vars

\* tokio polls every woken task, and task code returns: `Step(n)` ends a body.
\* Nobody is obliged to spawn, to await, to cancel or to reset.
FairSpec == Spec /\ \A n \in NodeId : WF_vars(Step(n))
=============================================================================
