---------------------------- MODULE ExecutorMaps ----------------------------
(***************************************************************************)
(* What an executor map promises: every holder, a runtime or the context   *)
(* of a running task, has a map of its own. Registering an executor with   *)
(* one runtime is seen by no other holder, whatever they were cloned from, *)
(* and the map of a task never changes while it runs.                      *)
(***************************************************************************)
CONSTANTS
    Owners,       \* runtimes
    Borrowers,    \* tasks
    Kinds,        \* types of task
    NoExecutor, Gone

VARIABLE value    \* holder -> its map, kind -> executor; or Gone

Holders == Owners \cup Borrowers

Init == \E o \in Owners :
           value = [h \in Holders |->
                       IF h = o THEN [k \in Kinds |-> NoExecutor] ELSE Gone]

\* A runtime is cloned, or spawns a task.
Share(o, h) == /\ value[o] # Gone /\ value[h] = Gone
               /\ value' = [value EXCEPT ![h] = value[o]]

\* A runtime gets some executor for one kind.
Register(o, k) ==
    /\ value[o] # Gone /\ value'[o] # Gone
    /\ value' = [value EXCEPT ![o] = [value[o] EXCEPT ![k] = value'[o][k]]]

Drop(h) == value[h] # Gone /\ value' = [value EXCEPT ![h] = Gone]

Next == \/ \E o \in Owners, h \in Holders : Share(o, h)
        \/ \E o \in Owners, k \in Kinds : Register(o, k)
        \/ \E h \in Holders : Drop(h)

Spec == Init /\ [][Next]_value
=============================================================================
