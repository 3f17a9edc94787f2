------------------------- MODULE RuntimeProperties -------------------------
(***************************************************************************)
(* What the runtime must get right, stated over Runtime's variables.       *)
(***************************************************************************)
EXTENDS Runtime

\* Every variable stays within its type, at every bound (the shapes of
\* FrontierInner, ExecGraphInner, MemoryCache and of the spawned closures).
TypeOK ==
    /\ nextId \in 0 .. MaxNodes
    /\ status \in [NodeId -> LiveStatus \cup TerminalStatus \cup {"Absent"}]
    /\ frontChildren \in [NodeId -> SUBSET NodeId]
    /\ parent \in [NodeId -> NodeId \cup {NoNode}]
    /\ terminal \in [NodeId -> TerminalStatus \cup {"Unrecorded", "None"}]
    /\ recChildren \in [NodeId -> SUBSET NodeId]
    /\ recOutput \in [NodeId -> Values \cup {NoVal}]
    /\ cancelled \in BOOLEAN
    /\ cache \in [Keys -> Values \cup {NoVal}]
    /\ poisoned \in BOOLEAN
    /\ down \in BOOLEAN
    /\ pc \in [NodeId -> Stages]
    /\ req \in [NodeId -> Requests]
    /\ outcome \in [NodeId -> Outcomes]
    /\ value \in [NodeId -> Values \cup {NoVal}]
    /\ waits \in [NodeId -> NodeId \cup {NoNode}]
    /\ handle \in [NodeId -> Replies]

Recorded(n) == terminal[n] # "Unrecorded"
Sealed(n)   == terminal[n] \in TerminalStatus

\* The audit log's tree is the spawn tree: a parent lists exactly the tasks it
\* spawned, as soon as they are recorded and for ever, and while a task is in
\* the frontier its node there lists them too, including one not recorded yet.
\* It rests on a body never spawning after its own node has left the frontier.
LineageComplete ==
    \A p, c \in NodeId :
        /\ c \in recChildren[p] <=> parent[c] = p /\ Recorded(c)
        /\ status[p] # "Absent" => (c \in frontChildren[p] <=> parent[c] = p)

\* The caller and the audit log tell the same story: an output only from a
\* Completed record; an error from a closed one, which is Completed only if
\* the output had another type than the caller asked for; Cancelled exactly
\* for a closure that was dropped, whose record is open.
ReplyMatchesRecord ==
    \A n \in NodeId :
        /\ handle[n].tag = "Ok" => terminal[n] = "Completed"
        /\ handle[n].tag = "TaskPanicked" =>
              /\ Sealed(n)
              /\ terminal[n] = "Completed" =>
                    ~req[n].dyn /\ req[n].yields # req[n].declared
        /\ handle[n].tag = "Cancelled" => terminal[n] = "None"

\* A cache entry is the output of a task that ran to an Ok end, for that very
\* key and of the type its key's tasks declare ("errors are never stored"); a
\* runtime without a cache stores nothing.
CacheSound ==
    \A k \in Keys : cache[k] # NoVal =>
        LET w == cache[k].by IN
        /\ req[w].key = k
        /\ outcome[w] = "ok"
        /\ cache[k].type = req[w].declared
        /\ CacheOn

\* A caller gets the output of its own task, or of an earlier task of the same
\* key that succeeded; and what the audit log holds as the output is that one.
ReplyProvenance ==
    \A n \in NodeId : handle[n].tag = "Ok" =>
        LET v == handle[n].val IN
        /\ \/ v.by = n
           \/ /\ req[v.by].key = req[n].key
              /\ req[n].key # NoKey
              /\ outcome[v.by] = "ok"
        /\ recOutput[n] \in {v, NoVal}
        /\ recOutput[n] = NoVal => v.by = n

\* Awaiting a handle is a dependency edge: a task is not recorded as ended
\* while the child it awaits is, unless that child was lost.
DependencyOrder ==
    \A n \in NodeId : Sealed(n) /\ waits[n] # NoNode =>
        Sealed(waits[n]) \/ pc[waits[n]] = "dead"

KeepsHistory ==
    \A n \in NodeId :
        /\ Sealed(n) => terminal'[n] = terminal[n]
        /\ Recorded(n) => /\ recChildren[n] \subseteq recChildren'[n]
                          /\ parent'[n] = parent[n]
        /\ recOutput[n] # NoVal => recOutput'[n] = recOutput[n]
        /\ Answered(n) => handle'[n] = handle[n]
        /\ pc[n] # "absent" /\ status[n] = "Absent" => status'[n] = "Absent"

\* History is not rewritten: a closed record, a recorded output, a parent link
\* and a resolved handle are final, a recorded child stays recorded, and a
\* node that has left the frontier never comes back.
HistoryIsFinal == [][KeepsHistory]_vars

\* Cancelling stops every task that has not passed its first poll: if the flag
\* is set then and stays set, the task's body never starts.
CancelStopsNewWork ==
    \A n \in NodeId :
        []( cancelled /\ pc[n] \in {"absent", "registered", "queued"}
            => ([]cancelled => [](pc[n] # "executing")) )

\* Once a key's output is cached, a task of that key that is spawned later
\* never runs, unless a panic under the lock has disabled the cache.
MemoizedWorkIsNotRepeated ==
    \A n \in NodeId, k \in Keys :
        []( cache[k] # NoVal /\ pc[n] = "absent"
            => [](pc[n] = "executing" /\ req[n].key = k => poisoned) )

\* Every handle resolves, whatever panics, is dropped or is cancelled: no
\* caller waits for ever.
EveryHandleResolves ==
    \A n \in NodeId : pc[n] # "absent" ~> Answered(n)

\* Every task that is not lost leaves the frontier and is closed in the audit
\* log: the live tree drains.
FrontierDrains ==
    \A n \in NodeId :
        pc[n] # "absent" ~> (status[n] = "Absent" /\ Sealed(n)) \/ pc[n] = "dead"

(***************************************************************************)
(* The runtime implements TaskLifecycle.                                   *)
(***************************************************************************)

LogOf(n) == IF terminal[n] = "Unrecorded" THEN "unborn"
            ELSE IF terminal[n] = "None" THEN "open" ELSE terminal[n]

ReplyOf(n) == IF handle[n].tag = "TaskPanicked" THEN "Error"
              ELSE IF handle[n].tag = "Cancelled" THEN "Dropped"
              ELSE handle[n].tag

Lifecycle == INSTANCE TaskLifecycle WITH
                Task <- NodeId,
                log <- [n \in NodeId |-> LogOf(n)],
                reply <- [n \in NodeId |-> ReplyOf(n)]

\* The detailed runtime, read through its audit log and its handles, is the
\* abstract lifecycle.
ImplementsLifecycle == Lifecycle!Spec

(***************************************************************************)
(* What the repository says and the code does not do.                      *)
(***************************************************************************)

\* exec_graph.rs: the terminal state is "`None` while the task is still
\* running", and running_nodes are those "still running (no terminal state
\* recorded yet)".
OpenMeansRunning ==
    \A n \in NodeId : terminal[n] = "None" => ~Answered(n)
=============================================================================
