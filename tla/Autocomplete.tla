---------------------------- MODULE Autocomplete ----------------------------
(***************************************************************************)
(* The example program interactive_tool.rs: one runtime per keystroke, the *)
(* one before it cancelled and its outer tokio task aborted, a shared list *)
(* of records the outer tasks fill in, and a last pass that completes the  *)
(* list from the execution graphs.                                         *)
(*                                                                         *)
(* Keystroke i has three actors: main, an outer task (`tokio::spawn` in    *)
(* main) that awaits `runtime.run`, and the closure the runtime spawned    *)
(* for SuggestTask, whose stages are those of Runtime (seal, then reply).  *)
(***************************************************************************)
EXTENDS Naturals

CONSTANTS
    Last,    \* bound: number of keystrokes (10 in the code)
    Looks    \* bound: how often the body looks at the flag (8 in the code)

ASSUME LastAssumption == Last \in Nat \ {0}
ASSUME LooksAssumption == Looks \in Nat \ {0}

VARIABLES
    stage,       \* where main stands
    typed,       \* keystrokes typed, the length of doc.text
    at,          \* index of main's last two loops
    token,       \* the flag of runtime i
    abort,       \* whether JoinHandle::abort was called on outer task i, and when
    outer,       \* the outer task
    closure,     \* the closure of SuggestTask in runtime i
    looked,      \* looks at the flag its body has taken
    result,      \* how it is about to end
    node,        \* its record in the execution graph of runtime i
    reply,       \* what its handle resolves to
    outcome,     \* records[i].outcome
    suggestion,  \* records[i].suggestion: the text it was made for, or 0
    counted      \* what the summary found in the graph of runtime i

mainVars == <<stage, typed, at>>
taskVars == <<closure, looked, result, node, reply>>
listVars == <<outcome, suggestion>>
vars == <<mainVars, token, abort, outer, taskVars, listVars, counted>>

Keystroke == 1 .. Last
Ends == {"Completed", "Failed", "Cancelled"}
Everywhere(x) == [i \in Keystroke |-> x]

Init ==
    /\ stage = "key" /\ typed = 0 /\ at = 1
    /\ token = Everywhere(FALSE)
    /\ abort = Everywhere("none")
    /\ outer = Everywhere("absent")
    /\ closure = Everywhere("absent")
    /\ looked = Everywhere(0)
    /\ result = Everywhere("none")
    /\ node = Everywhere("absent")
    /\ reply = Everywhere("none")
    /\ outcome = Everywhere("absent")
    /\ suggestion = Everywhere(0)
    /\ counted = Everywhere("absent")

Main(a, b) == stage = a /\ stage' = b

(***************************************************************************)
(* main, for each keystroke: push it, cancel the runtime before, abort its *)
(* outer task, add a record and spawn the new outer task.                  *)
(***************************************************************************)

Type ==
    /\ Main("key", "cancel") /\ typed < Last
    /\ typed' = typed + 1
    /\ UNCHANGED <<at, token, abort, outer, taskVars, listVars, counted>>

CancelPrevious ==
    /\ Main("cancel", "abort")
    /\ token' = [i \in Keystroke |-> token[i] \/ i + 1 = typed]
    /\ UNCHANGED <<typed, at, abort, outer, taskVars, listVars, counted>>

\* A poll of the outer task is under way: it is not at an await.
InPoll(i) == outer[i] \in {"polling", "spawned", "recording"}

\* JoinHandle::abort on outer task i. tokio drops the task at once, or when the
\* poll under way returns without having finished it.
AbortOuter(i) == abort' = [abort EXCEPT ![i] = IF InPoll(i) THEN "midpoll" ELSE "resting"]

\* MUTANT of AbortPrevious: the handle that is aborted is the newest one.
AbortNewest ==
    /\ Main("abort", "dispatch")
    /\ AbortOuter(typed)
    /\ UNCHANGED <<typed, at, token, outer, taskVars, listVars, counted>>

AbortPrevious ==
    /\ Main("abort", "dispatch")
    /\ IF typed = 1 THEN UNCHANGED abort ELSE AbortOuter(typed - 1)
    /\ UNCHANGED <<typed, at, token, outer, taskVars, listVars, counted>>

Dispatch ==
    /\ Main("dispatch", "key")
    /\ outcome' = [outcome EXCEPT ![typed] = "pending"]
    /\ outer' = [outer EXCEPT ![typed] = "queued"]
    /\ UNCHANGED <<typed, at, token, abort, taskVars, suggestion, counted>>

(***************************************************************************)
(* main, after the last keystroke: await the last outer task, complete the *)
(* list from the graphs, count what the graphs hold, report.               *)
(***************************************************************************)

AwaitLast ==
    /\ Main("key", "crossref") /\ typed = Last
    /\ outer[Last] \in {"done", "dropped"}
    /\ UNCHANGED <<typed, at, token, abort, outer, taskVars, listVars, counted>>

\* A loop of main over all keystrokes, from stage a on to stage b.
Loop(a, b) ==
    /\ stage = a
    /\ IF at = Last THEN stage' = b /\ at' = 1 ELSE at' = at + 1 /\ UNCHANGED stage

\* MUTANT of FromGraph: a task without an end is taken for a cancelled one.
FromGraphGuess(n) == IF n = "Completed" THEN "completed" ELSE "cancelled"

\* The outcome a graph suggests. An empty graph suggests none.
FromGraph(n) == IF n = "absent" THEN "pending"
                ELSE IF n = "running" THEN "aborted"
                ELSE IF n = "Completed" THEN "completed" ELSE "cancelled"

CrossReference ==
    /\ Loop("crossref", "summary")
    /\ outcome' = [outcome EXCEPT ![at] = IF @ = "pending" THEN FromGraph(node[at])
                                          ELSE @]
    /\ UNCHANGED <<typed, token, abort, outer, taskVars, suggestion, counted>>

Summarise ==
    /\ Loop("summary", "report")
    /\ counted' = [counted EXCEPT ![at] = node[at]]
    /\ UNCHANGED <<typed, token, abort, outer, taskVars, listVars>>

\* The table and the assertions; when main returns, tokio drops what is left.
Report ==
    /\ Main("report", "ended")
    /\ UNCHANGED <<typed, at, token, abort, outer, taskVars, listVars, counted>>

MainStep == \/ Type \/ CancelPrevious \/ AbortPrevious \/ Dispatch
            \/ AwaitLast \/ CrossReference \/ Summarise \/ Report

(***************************************************************************)
(* The outer task. An abort takes it at an await, or before its first      *)
(* poll; it stops neither a poll under way nor the closure it waits for.   *)
(***************************************************************************)

Alive == stage # "ended"
OuterMoves(i, a, b) == Alive /\ outer[i] = a /\ outer' = [outer EXCEPT ![i] = b]

\* tokio starts the first poll, unless the task has been aborted.
Poll(i) ==
    /\ OuterMoves(i, "queued", "polling") /\ abort[i] = "none"
    /\ UNCHANGED <<mainVars, token, abort, taskVars, listVars, counted>>

\* In that poll, Runtime::spawn: the task is recorded and handed to tokio.
Run(i) ==
    /\ OuterMoves(i, "polling", "spawned")
    /\ closure' = [closure EXCEPT ![i] = "queued"]
    /\ node' = [node EXCEPT ![i] = "running"]
    /\ UNCHANGED <<mainVars, token, abort, looked, result, reply, listVars, counted>>

\* Still in that poll, the first look at the handle; on an answer the poll goes
\* on to the list.
AwaitReply(i) ==
    /\ OuterMoves(i, "spawned", IF reply[i] = "none" THEN "awaiting" ELSE "recording")
    /\ UNCHANGED <<mainVars, token, abort, taskVars, listVars, counted>>

\* A later poll, once the handle has an answer.
Wake(i) ==
    /\ OuterMoves(i, "awaiting", "recording") /\ abort[i] = "none"
    /\ reply[i] # "none"
    /\ UNCHANGED <<mainVars, token, abort, taskVars, listVars, counted>>

\* main holds the lock of the list while it completes it and while it reports.
ListIsFree == stage \notin {"crossref", "report"}

Write(i) ==
    /\ OuterMoves(i, "recording", "done") /\ ListIsFree
    /\ outcome' = [outcome EXCEPT ![i] =
                      IF reply[i] = "ok" THEN "completed" ELSE "cancelled"]
    /\ suggestion' = [suggestion EXCEPT ![i] = IF reply[i] = "ok" THEN i ELSE @]
    /\ UNCHANGED <<mainVars, token, abort, taskVars, counted>>

DropOuter(i) ==
    /\ Alive /\ abort[i] # "none" /\ outer[i] \in {"queued", "awaiting"}
    /\ outer' = [outer EXCEPT ![i] = "dropped"]
    /\ UNCHANGED <<mainVars, token, abort, taskVars, listVars, counted>>

(***************************************************************************)
(* The closure. Its body sleeps between looks at the flag, which here is   *)
(* the turn of any other actor. The message of an error is "cancelled"     *)
(* whether the runtime or the body saw the flag.                           *)
(***************************************************************************)

Conclude(i, r) == /\ closure' = [closure EXCEPT ![i] = "seal"]
                  /\ result' = [result EXCEPT ![i] = r]

\* First poll, by the runtime.
Start(i) ==
    /\ Alive /\ closure[i] = "queued"
    /\ IF token[i] THEN Conclude(i, "Cancelled")
       ELSE closure' = [closure EXCEPT ![i] = "body"] /\ UNCHANGED result
    /\ UNCHANGED <<mainVars, token, abort, outer, looked, node, reply, listVars, counted>>

Look(i) ==
    /\ Alive /\ closure[i] = "body" /\ looked[i] < Looks
    /\ IF token[i] THEN Conclude(i, "Failed") /\ UNCHANGED looked
       ELSE looked' = [looked EXCEPT ![i] = @ + 1] /\ UNCHANGED <<closure, result>>
    /\ UNCHANGED <<mainVars, token, abort, outer, node, reply, listVars, counted>>

Suggest(i) ==
    /\ Alive /\ closure[i] = "body" /\ looked[i] = Looks
    /\ Conclude(i, "Completed")
    /\ UNCHANGED <<mainVars, token, abort, outer, looked, node, reply, listVars, counted>>

Answer(i) == reply' = [reply EXCEPT ![i] = IF result[i] = "Completed" THEN "ok" ELSE "err"]

\* MUTANT of Seal: the caller is answered before the record is closed.
AnswerThenSeal(i) ==
    /\ Alive /\ closure[i] = "seal"
    /\ IF reply[i] = "none"
       THEN Answer(i) /\ UNCHANGED <<closure, node>>
       ELSE /\ closure' = [closure EXCEPT ![i] = "done"]
            /\ node' = [node EXCEPT ![i] = result[i]]
            /\ UNCHANGED reply
    /\ UNCHANGED <<mainVars, token, abort, outer, looked, result, listVars, counted>>

Seal(i) ==
    /\ Alive /\ closure[i] = "seal"
    /\ closure' = [closure EXCEPT ![i] = "deliver"]
    /\ node' = [node EXCEPT ![i] = result[i]]
    /\ UNCHANGED <<mainVars, token, abort, outer, looked, result, reply, listVars, counted>>

\* MUTANT of Deliver: the answer is dropped with the sender kept alive.
KeepTheSender(i) ==
    /\ Alive /\ closure[i] = "deliver"
    /\ closure' = [closure EXCEPT ![i] = "done"]
    /\ UNCHANGED <<mainVars, token, abort, outer, looked, result, node, reply, listVars, counted>>

Deliver(i) ==
    /\ Alive /\ closure[i] = "deliver"
    /\ closure' = [closure EXCEPT ![i] = "done"]
    /\ Answer(i)
    /\ UNCHANGED <<mainVars, token, abort, outer, looked, result, node, listVars, counted>>

TaskStep(i) == \/ Poll(i) \/ Run(i) \/ AwaitReply(i) \/ Wake(i) \/ Write(i) \/ DropOuter(i)
               \/ Start(i) \/ Look(i) \/ Suggest(i) \/ Seal(i) \/ Deliver(i)

Next == MainStep \/ \E i \in Keystroke : TaskStep(i)

Spec == Init /\ [][Next]_vars

\* tokio polls every woken task; main runs on.
FairSpec == Spec /\ WF_vars(MainStep) /\ \A i \in Keystroke : WF_vars(TaskStep(i))

(***************************************************************************)
(* Properties                                                              *)
(***************************************************************************)

\* Types (a part of AcInv).
TypeOK ==
    /\ stage \in {"key", "cancel", "abort", "dispatch", "crossref", "summary",
                  "report", "ended"}
    /\ typed \in 0 .. Last /\ at \in Keystroke
    /\ token \in [Keystroke -> BOOLEAN]
    /\ abort \in [Keystroke -> {"none", "resting", "midpoll"}]
    /\ outer \in [Keystroke -> {"absent", "queued", "polling", "spawned", "awaiting",
                                "recording", "done", "dropped"}]
    /\ closure \in [Keystroke -> {"absent", "queued", "body", "seal", "deliver", "done"}]
    /\ looked \in [Keystroke -> 0 .. Looks]
    /\ result \in [Keystroke -> Ends \cup {"none"}]
    /\ node \in [Keystroke -> Ends \cup {"absent", "running"}]
    /\ reply \in [Keystroke -> {"none", "ok", "err"}]
    /\ outcome \in [Keystroke -> {"absent", "pending", "completed", "cancelled", "aborted"}]
    /\ suggestion \in [Keystroke -> 0 .. Last]
    /\ counted \in [Keystroke -> Ends \cup {"absent", "running"}]

Over == stage \in {"crossref", "summary", "report", "ended"}
MainInv ==
    /\ Over => typed = Last /\ outer[Last] = "done"
    /\ stage \in {"cancel", "abort", "dispatch"} => typed > 0
    /\ stage \notin {"crossref", "summary"} => at = 1

\* The flag and the abort of a keystroke, against where main stands.
SupersededInv(i) ==
    /\ token[i] => i < typed
    /\ i < typed => token[i] \/ (i + 1 = typed /\ stage = "cancel")
    /\ abort[i] # "none" => i < typed
    /\ i < typed => abort[i] # "none" \/ (i + 1 = typed /\ stage \in {"cancel", "abort"})
    /\ InPoll(i) => abort[i] # "resting"
    /\ outer[i] = "absent" <=>
          typed < i \/ (i = typed /\ stage \in {"cancel", "abort", "dispatch"})

\* The closure, its record and its handle.
ClosureInv(i) ==
    /\ outer[i] \in {"absent", "queued", "polling"} => closure[i] = "absent"
    /\ closure[i] = "absent" => outer[i] \in {"absent", "queued", "polling", "dropped"}
    /\ outer[i] = "dropped" => abort[i] # "none"
    /\ closure[i] \in {"absent", "queued", "body"} <=> result[i] = "none"
    /\ result[i] \in {"Failed", "Cancelled"} => token[i]
    /\ node[i] = IF closure[i] = "absent" THEN "absent"
                 ELSE IF closure[i] \in {"queued", "body", "seal"} THEN "running"
                 ELSE result[i]
    /\ reply[i] = IF closure[i] # "done" THEN "none"
                  ELSE IF result[i] = "Completed" THEN "ok" ELSE "err"

\* main is past keystroke i in its loop over a stage, and in all stages after.
Past(i, s, later) == stage \in later \/ (stage = s /\ i < at)
Completing(i) == Past(i, "crossref", {"summary", "report", "ended"})
Counting(i) == Past(i, "summary", {"report", "ended"})

\* The task was recorded after its flag was set, or not at all: it never runs.
NeverRuns(i) == /\ token[i]
                /\ closure[i] \in {"absent", "queued"} \/ result[i] = "Cancelled"

\* The list: who wrote an outcome, and what the graph says of it.
ListInv(i) ==
    /\ outer[i] = "absent" <=> outcome[i] = "absent"
    /\ outer[i] \in {"recording", "done"} => reply[i] # "none"
    /\ outer[i] = "done" => /\ outcome[i] = IF reply[i] = "ok" THEN "completed" ELSE "cancelled"
                            /\ suggestion[i] = IF reply[i] = "ok" THEN i ELSE 0
    /\ outer[i] # "done" => suggestion[i] = 0
    /\ outcome[i] = "completed" => node[i] = "Completed"
    /\ outcome[i] = "cancelled" => node[i] \in {"Failed", "Cancelled"}
    /\ outcome[i] = "aborted" => node[i] # "absent"
    /\ outcome[i] \notin {"absent", "pending"} => outer[i] = "done" \/ Completing(i)
    /\ Completing(i) =>
          /\ outcome[i] = "pending" => NeverRuns(i)
          /\ abort[i] # "midpoll" => (outcome[i] = "pending" <=> node[i] = "absent")
    /\ Counting(i) =>
          /\ counted[i] \in Ends => counted[i] = node[i]
          /\ counted[i] = "absent" => NeverRuns(i) /\ outcome[i] # "aborted"
          /\ outcome[i] = "pending" /\ node[i] = "absent" => counted[i] = "absent"
          /\ abort[i] # "midpoll" => /\ counted[i] = "running" => outcome[i] = "aborted"
                                     /\ counted[i] = "absent" <=> node[i] = "absent"

\* The inductive invariant: what the position of main and of the two tasks of a
\* keystroke imply for its flag, its record, its handle and its line in the list.
AcInv == /\ TypeOK /\ MainInv
         /\ \A i \in Keystroke : SupersededInv(i) /\ ClosureInv(i) /\ ListInv(i)

\* interactive_tool.rs:341-345 asserts that the last task completed with a
\* suggestion. It holds under every schedule, as main awaits that task, nobody
\* cancels it, and the reply comes with the output; and the suggestion is for
\* the whole document.
LastTaskCompletes ==
    Over => outcome[Last] = "completed" /\ suggestion[Last] = Last /\ typed = Last

\* At most one suggestion in flight is still wanted: all others know, or will
\* at their next look, that they were superseded.
OneIsWanted ==
    \A i, j \in Keystroke :
        closure[i] \in {"queued", "body"} /\ closure[j] \in {"queued", "body"}
        /\ ~token[i] /\ ~token[j] => i = j

\* The report agrees with itself although list and graphs are read at different
\* moments, with tasks running. If the abort found the outer task at rest: what
\* is listed as completed or cancelled is counted so, what is counted as aborted
\* is listed so, and what has no record in a graph stays "pending". If it came in
\* the middle of a poll the list may be ahead of the count (an end counted as
\* aborted, a cancelled task not counted) or behind it (a task counted, but
\* listed as pending); it never names another end than the task has, and a task
\* recorded behind the back of either has not run.
ReportAgrees ==
    stage \in {"report", "ended"} => \A i \in Keystroke :
        /\ abort[i] # "midpoll" =>
              /\ outcome[i] = "completed" => counted[i] = "Completed"
              /\ outcome[i] = "cancelled" => counted[i] \in {"Failed", "Cancelled"}
              /\ counted[i] = "running" => outcome[i] = "aborted"
              /\ counted[i] = "absent" <=> outcome[i] = "pending"
        /\ outcome[i] = "completed" => counted[i] \in {"Completed", "running"}
        /\ outcome[i] = "cancelled" => counted[i] # "Completed"
        /\ outcome[i] = "pending" => counted[i] \in {"absent", "running", "Cancelled"}
        /\ counted[i] = "absent" => outcome[i] \in {"pending", "cancelled"}

\* How the outer task of a closed record reports it.
Told(n) == IF n = "Completed" THEN "completed" ELSE "cancelled"

\* Once an outcome is in the list it stays, but for one case: main has filled in
\* "aborted" for a task whose abort found it in the middle of a poll, and that
\* poll goes on to say how the task did end.
OutcomeStays ==
    [][\A i \in Keystroke :
          outcome[i] \notin {"absent", "pending"} /\ outcome'[i] # outcome[i] =>
             /\ outcome[i] = "aborted" /\ abort[i] = "midpoll"
             /\ node[i] \in Ends /\ outcome'[i] = Told(node[i])]_vars

\* The program ends: the last task is awaited, so it must be answered.
ProgramEnds == <>(stage = "ended")
=============================================================================
