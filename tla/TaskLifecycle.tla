--------------------------- MODULE TaskLifecycle ---------------------------
(***************************************************************************)
(* What the runtime promises of each task, to the holder of its handle and *)
(* to the reader of the execution graph, with none of the machinery: a     *)
(* task is recorded once, its record is closed at most once and before the *)
(* caller hears anything, and a caller who hears nothing more (`Dropped`)  *)
(* belongs to a record that stays open.                                    *)
(***************************************************************************)
CONSTANT Task

VARIABLES
    log,     \* the audit record: "unborn", "open" or how the task ended
    reply    \* what the handle resolves to

vars == <<log, reply>>

Ends == {"Completed", "Failed", "Cancelled"}

Init ==
    /\ log = [t \in Task |-> "unborn"]
    /\ reply = [t \in Task |-> "Pending"]

\* The task appears in the audit log.
Open(t) ==
    /\ log[t] = "unborn"
    /\ log' = [log EXCEPT ![t] = "open"]
    /\ UNCHANGED reply

\* How it ended is recorded, while its caller still waits.
Close(t, e) ==
    /\ log[t] = "open" /\ reply[t] = "Pending"
    /\ log' = [log EXCEPT ![t] = e]
    /\ UNCHANGED reply

\* The caller gets the output, which only a completed task has.
Return(t) ==
    /\ log[t] = "Completed" /\ reply[t] = "Pending"
    /\ reply' = [reply EXCEPT ![t] = "Ok"]
    /\ UNCHANGED log

\* The caller gets an error; the output of a completed task may not fit it.
Throw(t) ==
    /\ log[t] \in Ends /\ reply[t] = "Pending"
    /\ reply' = [reply EXCEPT ![t] = "Error"]
    /\ UNCHANGED log

\* The task is lost (panic, shutdown): the caller is told, the log is not.
Lose(t) ==
    /\ log[t] = "open" /\ reply[t] = "Pending"
    /\ reply' = [reply EXCEPT ![t] = "Dropped"]
    /\ UNCHANGED log

Next == \E t \in Task : \/ Open(t) \/ Return(t) \/ Throw(t) \/ Lose(t)
                        \/ \E e \in Ends : Close(t, e)

Spec == Init /\ [][Next]_vars
=============================================================================
