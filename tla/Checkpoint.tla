----------------------------- MODULE Checkpoint -----------------------------
(***************************************************************************)
(* Checkpoint and restore of a running runtime. `Runtime::checkpoint`      *)
(* copies the frontier and then the execution graph, each under a lock of  *)
(* its own, while the tasks of the runtime go on. `Runtime::restore`       *)
(* builds a new runtime: it writes the records back and spawns the         *)
(* captured tasks again.                                                   *)
(*                                                                         *)
(* The variables of Runtime are those of the runtime being watched: the    *)
(* old one until the restore, the new one from then on. What the old one   *)
(* does after the checkpoint cannot be seen in the new one, so it stops    *)
(* there. One checkpoint and one restore are modelled.                     *)
(***************************************************************************)
EXTENDS Runtime

CONSTANTS
    Known,      \* requests whose task is not "opaque" and in the TaskRegistry
    TakesJson,  \* ... whose rebuilt task takes its input as JSON
    ByFactory   \* ... rebuilt by a factory that keeps it serializable

ASSUME RegistryAssumption ==
    /\ TakesJson \cup ByFactory \subseteq Known
    /\ Known \subseteq Requests

VARIABLES
    stage,     \* how far the checkpoint or the restore has come
    copied,    \* Checkpoint.frontier: the status of each captured node
    calls,     \* ... and its task_type, task_params and input
    log,       \* Checkpoint.exec_graph: the terminal state of each record
    outputs,   \* ... its output
    links,     \* ... and its parent
    gapStart,  \* (history) next_id when the frontier was copied
    audited,   \* (history) the tasks whose record was closed then
    owed,      \* (history) who has to run again for no work to be lost
    todo,      \* captured nodes restore has not spawned again yet
    origin     \* (history) the captured node a new task redoes

checkpointVars == <<copied, log, outputs, links, calls, gapStart, audited, owed>>
ckVars == <<stage, checkpointVars, todo, origin>>
allVars == <<vars, ckVars>>

CheckpointStages == {"none", "copying", "saved", "restoring", "restored", "refused"}
InLog(n) == log[n] # "Unrecorded"
Captured == {n \in NodeId : copied[n] # "Absent"}

CkInit ==
    /\ Init
    /\ stage = "none"
    /\ copied = [n \in NodeId |-> "Absent"]
    /\ log = [n \in NodeId |-> "Unrecorded"]
    /\ outputs = [n \in NodeId |-> NoVal]
    /\ links = [n \in NodeId |-> NoNode]
    /\ calls = [n \in NodeId |-> NoRequest]
    /\ gapStart = 0
    /\ audited = {}
    /\ owed = {}
    /\ todo = {}
    /\ origin = [n \in NodeId |-> NoNode]

(***************************************************************************)
(* Runtime::checkpoint                                                     *)
(***************************************************************************)

\* MUTANT of CopyFrontier: only what is running is captured.
CopyRunning ==
    /\ stage = "none" /\ stage' = "copying"
    /\ copied' = [n \in NodeId |-> IF status[n] = "Running" THEN status[n] ELSE "Absent"]
    /\ calls' = [n \in NodeId |-> IF copied'[n] = "Absent" THEN NoRequest ELSE req[n]]
    /\ gapStart' = nextId
    /\ audited' = {n \in NodeId : terminal[n] \in TerminalStatus}
    /\ UNCHANGED <<vars, log, outputs, links, owed, todo, origin>>

\* Frontier::snapshot. Whatever is in the map is taken, ended or not.
CopyFrontier ==
    /\ stage = "none" /\ stage' = "copying"
    /\ copied' = status
    /\ calls' = [n \in NodeId |-> IF copied'[n] = "Absent" THEN NoRequest ELSE req[n]]
    /\ gapStart' = nextId
    /\ audited' = {n \in NodeId : terminal[n] \in TerminalStatus}
    /\ UNCHANGED <<vars, log, outputs, links, owed, todo, origin>>

Unfinished == {n \in NodeId : pc[n] # "absent" /\ outcome[n] = "none"}

\* The unfinished tasks of the first copy, and the tasks in it that spawned an
\* unfinished one since (and would spawn it again).
Owing ==
    {n \in NodeId : /\ n < gapStart
                    /\ \/ n \in Unfinished
                       \/ \E c \in Unfinished : c >= gapStart /\ parent[c] = n}

\* ExecGraph::snapshot.
CopyLog ==
    /\ stage = "copying" /\ stage' = "saved"
    /\ log' = terminal
    /\ outputs' = recOutput
    /\ links' = [n \in NodeId |-> IF InLog(n)' THEN parent[n] ELSE NoNode]
    /\ owed' = Owing
    /\ UNCHANGED <<vars, copied, calls, gapStart, audited, todo, origin>>

(***************************************************************************)
(* Runtime::restore                                                        *)
(***************************************************************************)

\* The record of n is closed the way the checkpoint says.
Reterminal(n) == log[n]

\* set_output is part of the Completed arm only.
Reoutput(n) == IF log[n] = "Completed" THEN outputs[n] ELSE NoVal

\* record_spawn links a record to its parent if the parent's is already there;
\* behind are the records written after their parent's.
Relink(behind) == [p \in NodeId |-> {c \in behind : links[c] = p}]

\* The second loop goes through the frontier part, whatever the status.
ToRespawn == Captured

\* Runtime::new and the first loop. The records come in the order of a
\* HashMap: any set of them may come after their parents. Nobody sees the new
\* runtime yet, so this is one step.
RebuildLog ==
    /\ stage = "saved" /\ stage' = "restoring"
    /\ nextId' = 0
    /\ status' = [n \in NodeId |-> "Absent"]
    /\ frontChildren' = [n \in NodeId |-> {}]
    /\ parent' = [n \in NodeId |-> NoNode]
    /\ terminal' = [n \in NodeId |-> Reterminal(n)]
    /\ recOutput' = [n \in NodeId |-> Reoutput(n)]
    /\ \E behind \in SUBSET {n \in NodeId : InLog(n) /\ links[n] # NoNode} :
          recChildren' = Relink(behind)
    /\ cancelled' = FALSE /\ poisoned' = FALSE /\ down' = FALSE
    /\ cache' = [k \in Keys |-> NoVal]
    /\ pc' = [n \in NodeId |-> "absent"]
    /\ req' = [n \in NodeId |-> NoRequest]
    /\ outcome' = [n \in NodeId |-> "none"]
    /\ value' = [n \in NodeId |-> NoVal]
    /\ waits' = [n \in NodeId |-> NoNode]
    /\ handle' = [n \in NodeId |-> Unanswered]
    /\ todo' = ToRespawn
    /\ gapStart' = 0
    /\ UNCHANGED <<copied, log, outputs, links, calls, audited, owed, origin>>

\* The spawn call restore makes for a captured call r: spawn_dyn with the input
\* as a JSON value, which a task of another input type rejects. No executor is
\* registered yet, so the task's own `run` is used. A task rebuilt by
\* register_with_name is no longer serializable.
Revived(r) ==
    [body |-> IF r \in TakesJson THEN "run" ELSE "reject",
     key  |-> IF r \in TakesJson \cap ByFactory THEN r.key ELSE NoKey,
     declared |-> r.declared, yields |-> r.declared, dyn |-> TRUE]

\* spawn_dyn returns to restore's loop when its task is recorded.
NotSpawning == \A n \in NodeId : pc[n] # "registered" \/ parent[n] # NoNode

\* The second loop spawns captured node n again.
Respawn(n) ==
    /\ stage = "restoring" /\ n \in todo /\ NotSpawning
    /\ calls[n] \in Known
    /\ Register(NoNode, Revived(calls[n]))
    /\ todo' = todo \ {n}
    /\ origin' = [origin EXCEPT ![nextId] = n]
    /\ UNCHANGED <<stage, checkpointVars>>

\* MUTANT of Refuse: an opaque task is skipped, as the comment above it says.
SkipOpaque(n) ==
    /\ stage = "restoring" /\ n \in todo /\ NotSpawning
    /\ calls[n] \notin Known
    /\ todo' = todo \ {n}
    /\ UNCHANGED <<vars, stage, checkpointVars, origin>>

\* MUTANT of Refuse: the error is not returned.
RefuseNever(n) == FALSE /\ SkipOpaque(n)

\* Err(OpaqueTask) or Err(UnknownTaskType): restore stops at the first such
\* node. The tasks it has spawned by then are not stopped.
Refuse(n) ==
    /\ stage = "restoring" /\ n \in todo /\ NotSpawning
    /\ calls[n] \notin Known
    /\ stage' = "refused"
    /\ UNCHANGED <<vars, checkpointVars, todo, origin>>

\* Ok(runtime).
Return ==
    /\ stage = "restoring" /\ todo = {} /\ NotSpawning
    /\ stage' = "restored"
    /\ UNCHANGED <<vars, checkpointVars, todo, origin>>

(***************************************************************************)

Restoring ==
    \/ RebuildLog \/ Return
    \/ \E n \in NodeId : Respawn(n) \/ Refuse(n)

Running == stage # "saved"

\* The tasks run on. bound: new work, and cancellation, is left to the old
\* runtime; Runtime shows what they do, and the ids are for the captured tasks.
RuntimeStep ==
    /\ Running
    /\ \/ \E n \in NodeId : \/ Step(n) \/ Panic(n) \/ PanicUnderLock(n)
                            \/ \E c \in NodeId : Await(n, c)
       \/ /\ stage \in {"none", "copying"}
          /\ Spawn \/ Cancel
    /\ UNCHANGED ckVars

CkNext == RuntimeStep \/ CopyFrontier \/ CopyLog \/ Restoring

CkSpec == CkInit /\ [][CkNext]_allVars

\* The tasks as in Runtime; restore is a function that nobody interrupts.
CkFairSpec ==
    /\ CkSpec
    /\ \A n \in NodeId : WF_allVars(Running /\ Step(n) /\ UNCHANGED ckVars)
    /\ WF_allVars(Restoring)

(***************************************************************************)
(* Properties                                                              *)
(***************************************************************************)

\* The parts of a checkpoint and of a restore have the types of
\* FrontierNodeSnapshot and ExecNodeSnapshot, and the new runtime stays within
\* the types of the old one.
CkTypeOK ==
    /\ stage \in CheckpointStages
    /\ copied \in [NodeId -> LiveStatus \cup TerminalStatus \cup {"Absent"}]
    /\ log \in [NodeId -> TerminalStatus \cup {"None", "Unrecorded"}]
    /\ outputs \in [NodeId -> Values \cup {NoVal}]
    /\ links \in [NodeId -> NodeId \cup {NoNode}]
    /\ calls \in [NodeId -> Requests]
    /\ gapStart \in 0 .. MaxNodes
    /\ audited \subseteq NodeId /\ owed \subseteq NodeId
    /\ todo \subseteq Captured
    /\ origin \in [NodeId -> NodeId \cup {NoNode}]
    /\ req \in [NodeId -> Request]
    /\ terminal \in [NodeId -> TerminalStatus \cup {"None", "Unrecorded"}]
    /\ recChildren \in [NodeId -> SUBSET NodeId]

\* In the checkpoint's log and open there, but not captured: restore will not
\* run the task again.
Forgotten(n) == log[n] = "None" /\ n \notin Captured

\* A checkpoint (two snapshots, checkpoint.rs:271-272) forgets no unfinished
\* work but what was spawned between them; and then, unless a captured parent
\* will spawn it again, its parent too was spawned between them (or a caller).
OnlyTheGapIsForgotten ==
    stage = "saved" =>
        \A n \in NodeId :
            Forgotten(n) /\ outcome[n] = "none" =>
                /\ n >= gapStart
                /\ \/ links[n] = NoNode
                   \/ links[n] \in Captured
                   \/ links[n] >= gapStart

\* A restore that returns Ok (checkpoint.rs:341-364) has taken up all the work
\* that was unfinished when the checkpoint was complete, but for what nobody in
\* the first copy stands for; and it spawns no captured task twice.
RestoreRedoesUnfinishedWork ==
    /\ \A m, n \in NodeId : origin[m] = origin[n] /\ origin[m] # NoNode => m = n
    /\ stage = "restored" => \A n \in owed : \E m \in NodeId : origin[m] = n

\* The second loop of restore spawns whatever the frontier part holds, also a node
\* copied with a terminal status (checkpoint.rs:343). Such a node was on its way
\* out of the frontier: nothing is done again that was closed in the audit log
\* when the checkpoint began, whatever the log part says of it by now.
NothingAuditedIsRepeated == \A m \in NodeId : origin[m] \notin audited

\* The record with n's id is that of a task of the new runtime.
Rewritten(n) == pc[n] \notin {"absent", "registered"}

\* Restored tasks take the ids of old records (checkpoint.rs:298-362). A record
\* is never a mixture: it is wholly the captured one, and so are the records of
\* all the children it lists, or it says only what the new task has done.
RecordsAreNotMixed ==
    stage \in {"restoring", "restored", "refused"} =>
        \A n \in NodeId :
            IF Rewritten(n)
            THEN /\ recChildren[n] = {}
                 /\ recOutput[n] # NoVal => outcome[n] # "none"
                 /\ terminal[n] # "None" => terminal[n] = StatusOf(outcome[n])
            ELSE /\ terminal[n] = log[n]
                 /\ log[n] = "Completed" => recOutput[n] = outputs[n]
                 /\ \A c \in recChildren[n] :
                       links[c] = n /\ InLog(c) /\ ~Rewritten(c)

\* A restore comes to an end, and every task it spawned does, also if the
\* restore was refused half-way (tokio::spawn detaches them).
RestoreAndItsTasksEnd ==
    stage = "saved" ~> /\ stage \in {"restored", "refused"}
                       /\ \A n \in NodeId : origin[n] # NoNode => Answered(n)

\* (violated) "if restored they will be re-executed from their original input"
\* (checkpoint.rs:268-269): a task that had a body when it was captured has one
\* when it runs again.
ReexecutedFromInput ==
    \A n \in NodeId : origin[n] # NoNode /\ calls[origin[n]].body = "run"
                        => req[n].body = "run"

\* (violated) "Rebuilds the execution graph from historical records"
\* (checkpoint.rs:279): the closed records of the checkpoint are in the new log.
ClosedRecordsAreRebuilt ==
    stage = "restored" =>
        \A n \in NodeId : log[n] \in TerminalStatus => terminal[n] = log[n]
=============================================================================
