-------------------------- MODULE RuntimeInvariant --------------------------
(***************************************************************************)
(* The inductive invariant of the runtime: what each stage of a closure    *)
(* knows about the shared structures, and what the closures of a family    *)
(* and of a cache key know about each other.                               *)
(***************************************************************************)
EXTENDS RuntimeProperties

\* Ids are handed out in order.
BirthOrder == \A n \in NodeId : pc[n] = "absent" <=> n >= nextId

Undecided == {"absent", "registered", "queued", "lookup", "start", "executing"}
Ending    == {"seal", "output", "insert"}

\* The stage of a closure and the frontier's status of its node.
StatusPhase(n) ==
    /\ pc[n] \in {"absent", "deliver", "done"} \cup Ending => status[n] = "Absent"
    /\ pc[n] \in {"registered", "queued", "lookup", "hit", "start"}
          => status[n] = "Pending"
    /\ pc[n] = "executing" => status[n] = "Running"
    /\ pc[n] = "mark" => status[n] \in LiveStatus
    /\ pc[n] = "unlink" => status[n] = StatusOf(outcome[n])

\* ... and the audit log's record of it.
RecordPhase(n) ==
    /\ pc[n] \in {"absent", "registered"} <=> terminal[n] = "Unrecorded"
    /\ pc[n] \in {"deliver", "done"} <=> Sealed(n)
    /\ Sealed(n) => terminal[n] = StatusOf(outcome[n])

\* ... and its handle.
HandlePhase(n) ==
    /\ pc[n] = "dead" <=> handle[n].tag = "Cancelled"
    /\ pc[n] = "done" <=> handle[n].tag \in {"Ok", "TaskPanicked"}

\* ... and the way it ends.
OutcomePhase(n) ==
    /\ pc[n] \in Undecided => outcome[n] = "none" /\ recOutput[n] = NoVal
    /\ pc[n] \notin Undecided \cup {"dead"} => outcome[n] # "none"
    /\ pc[n] = "hit" => outcome[n] = "hit"
    /\ pc[n] \in {"output", "insert"} => outcome[n] = "ok"
    /\ pc[n] = "output" => Serializes(n)
    /\ pc[n] \in {"lookup", "insert"} => UsesCache(n)

\* ... and what the reply says, which follows from what the closure carried.
DeliveryPhase(n) ==
    /\ handle[n].tag = "Ok" =>
          outcome[n] \in {"hit", "ok"} /\ handle[n].val = value[n]
    /\ handle[n].tag = "TaskPanicked" /\ outcome[n] \in {"hit", "ok"} =>
          ~req[n].dyn /\ value[n].type # req[n].declared

NodePhase(n) == /\ StatusPhase(n) /\ RecordPhase(n)
                /\ HandlePhase(n) /\ OutcomePhase(n) /\ DeliveryPhase(n)

Phases == \A n \in NodeId : NodePhase(n)

\* A parent is in its body, and stays there, while a child of it is being
\* recorded; it was born before the child.
FamilyPhase ==
    \A c \in NodeId : parent[c] # NoNode =>
        /\ pc[c] # "absent"
        /\ pc[parent[c]] \notin {"absent", "registered"}
        /\ pc[c] = "registered" => /\ pc[parent[c]] = "executing"
                                   /\ req[parent[c]].body # "reject"

\* A node that is not in the frontier has no children there.
NoStaleChildren == \A n \in NodeId : status[n] = "Absent" => frontChildren[n] = {}

\* What a closure carries: its own output, or the placeholder that replaced it,
\* or on a hit the output of a successful task of its key. The audit log's
\* output is the one carried.
Carries(n) ==
    /\ outcome[n] = "ok" =>
          /\ value[n] # NoVal /\ value[n].by = n
          /\ req[n].yields = req[n].declared
                => value[n].type = req[n].declared
          /\ \/ value[n].type = req[n].yields
             \/ req[n].yields # req[n].declared
    /\ outcome[n] = "hit" =>
          /\ value[n] # NoVal
          /\ req[n].key # NoKey
          /\ req[value[n].by].key = req[n].key
          /\ outcome[value[n].by] = "ok"
          /\ value[n].type = req[n].declared
          /\ pc[n] \notin {"hit", "dead"} => recOutput[n] = value[n]
    /\ recOutput[n] # NoVal =>
          /\ recOutput[n] = value[n]
          /\ outcome[n] = "hit" \/ (outcome[n] = "ok" /\ Serializes(n))

Carried == \A n \in NodeId : Carries(n)

\* A body that awaited a child went on only when the child had answered.
WaitsOK ==
    \A n \in NodeId : waits[n] # NoNode =>
        /\ pc[n] # "absent" /\ req[n].body # "reject"
        /\ pc[n] \in {"executing", "dead"} \/ Answered(waits[n])

\* The inductive invariant.
IInv == /\ TypeOK
        /\ BirthOrder
        /\ Phases
        /\ FamilyPhase
        /\ NoStaleChildren
        /\ LineageComplete
        /\ Carried
        /\ CacheSound
        /\ WaitsOK
=============================================================================
