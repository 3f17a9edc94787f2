---------------------------- MODULE Combinators ----------------------------
(***************************************************************************)
(* The tasks of the workspace whose bodies spawn other tasks: the          *)
(* combinators Map, Refine and Retry of nanites-core, and the two-step     *)
(* chains RetrieveTask (nanites-rig) and HandleMessageTask (nanites-chat). *)
(*                                                                         *)
(* Task 0 of the runtime is one of them. Its body, free in Runtime, is     *)
(* their `run`; its children are leaves, whose closures go through all the *)
(* steps of Runtime while it spawns, awaits and looks at the cancel flag.  *)
(* An await changes no state, so it is the guard of what comes after.      *)
(***************************************************************************)
EXTENDS Runtime

CONSTANTS
    Kinds,   \* the bodies to try
    Outer,   \* the spawn call of the combinator
    Inner,   \* the spawn call of its children
    Io       \* spawn calls of the later step of a chain (erase_io, spawn_dyn)

ASSUME KindsAssumption == Kinds \subseteq {"map", "refine", "retry", "chain"}
ASSUME CallsAssumption == {Outer, Inner} \cup Io \subseteq Requests

VARIABLES
    kind,    \* which body task 0 has
    limit,   \* inputs.len(), max_iterations, max_attempts, or steps of the chain
    at,      \* where the body stands
    answer,  \* what it returned: a child's result, or an error of its own
    late     \* (history) children spawned since the flag was last set

combVars == <<kind, limit, at, answer, late>>
allVars == <<vars, combVars>>

Root == 0
Spawned == IF nextId = 0 THEN 0 ELSE nextId - 1    \* ids 1, 2, ... in order
Kids == 1 .. Spawned
Last == Spawned

\* How an awaited handle resolved.
Good(c) == handle[c].tag = "Ok"
Bad(c)  == handle[c].tag \in {"TaskPanicked", "Cancelled"}

OwnErrors == {"Cancelled", "Exhausted", "Unusable"}
NoAnswer == [tag |-> "none", from |-> NoNode]
Own(e) == [tag |-> e, from |-> NoNode]
Of(c) == [tag |-> "child", from |-> c]

CombInit ==
    /\ Init
    /\ kind \in Kinds
    /\ limit \in 0 .. MaxNodes - 1
    /\ kind = "chain" => limit = 2
    /\ at = "head"
    /\ answer = NoAnswer
    /\ late = 0

(***************************************************************************)
(* Parts of a body                                                         *)
(***************************************************************************)

Begin == /\ nextId = 0 /\ Register(NoNode, Outer)
         /\ UNCHANGED combVars

\* `return Ok(..)` and `return Err(..)`.
Returns(a) == Succeed(Root) /\ answer' = a /\ UNCHANGED <<kind, limit, at, late>>
Errs(a)    == Fail(Root) /\ answer' = a /\ UNCHANGED <<kind, limit, at, late>>

Goto(a, b) == at = a /\ at' = b

Spawns(r) ==
    /\ Register(Root, r)
    /\ late' = IF cancelled THEN late + 1 ELSE 0
    /\ UNCHANGED <<kind, limit, answer>>

Jump(a, b) == /\ Active(Root) /\ Goto(a, b)
              /\ UNCHANGED <<vars, kind, limit, answer, late>>

\* The body was waiting for the last child, and is polled.
Awaited == at = "await" /\ Active(Root)

(***************************************************************************)
(* Retry::run. The loop's index is the number of children spawned.         *)
(***************************************************************************)

RetryExhausted ==
    /\ kind = "retry" /\ at = "head" /\ Spawned = limit
    /\ Errs(IF limit = 0 THEN Own("Exhausted") ELSE Of(Last))

RetryCancelled ==
    /\ kind = "retry" /\ at = "head" /\ Spawned < limit
    /\ cancelled
    /\ Errs(Own("Cancelled"))

\* MUTANT of RetryGo: the flag is not looked at.
RetryGoUnchecked == kind = "retry" /\ Spawned < limit /\ Jump("head", "spawn")

RetryGo == kind = "retry" /\ Spawned < limit /\ ~cancelled /\ Jump("head", "spawn")

RetrySpawn == kind = "retry" /\ Goto("spawn", "await") /\ Spawns(Inner)

RetryOk == kind = "retry" /\ Awaited /\ Good(Last) /\ Returns(Of(Last))

\* MUTANT of RetryAgain: the next attempt does not wait for this one.
RetryImpatient == kind = "retry" /\ Jump("await", "head")

RetryAgain == kind = "retry" /\ Awaited /\ Bad(Last) /\ Jump("await", "head")

Retry == RetryExhausted \/ RetryCancelled \/ RetryGo \/ RetrySpawn
         \/ RetryOk \/ RetryAgain

(***************************************************************************)
(* Refine::run. into_step says Done or Continue, as the task's author      *)
(* decides.                                                                *)
(***************************************************************************)

RefineExhausted ==
    /\ kind = "refine" /\ at = "head" /\ Spawned = limit
    /\ Errs(Own("Exhausted"))

RefineSpawn ==
    /\ kind = "refine" /\ Spawned < limit
    /\ Goto("head", "await") /\ Spawns(Inner)

\* MUTANT of RefineError: an error ends the refinement with what there is.
RefineSettle == kind = "refine" /\ Awaited /\ Bad(Last) /\ Returns(Of(Last))

RefineError == kind = "refine" /\ Awaited /\ Bad(Last) /\ Errs(Of(Last))

RefineDone == kind = "refine" /\ Awaited /\ Good(Last) /\ Returns(Of(Last))

RefineContinue == kind = "refine" /\ Awaited /\ Good(Last) /\ Jump("await", "check")

RefineCancelled ==
    /\ kind = "refine" /\ at = "check"
    /\ cancelled
    /\ Errs(Own("Cancelled"))

RefineGoOn == kind = "refine" /\ ~cancelled /\ Jump("check", "head")

Refine == RefineExhausted \/ RefineSpawn \/ RefineError \/ RefineDone
          \/ RefineContinue \/ RefineCancelled \/ RefineGoOn

(***************************************************************************)
(* Map::run: spawn_all, join_all, then the results in the order of inputs. *)
(***************************************************************************)

MapSpawn == /\ kind = "map" /\ at = "head" /\ Spawned < limit
            /\ Spawns(Inner) /\ UNCHANGED at

Joined == kind = "map" /\ Spawned = limit /\ \A c \in Kids : Answered(c)

MapOk == Joined /\ (\A c \in Kids : Good(c)) /\ Returns(Own("all"))

\* MUTANT of MapError: the error that is met last is returned.
MapLastError ==
    /\ Joined
    /\ \E c \in Kids : /\ Bad(c) /\ \A d \in Kids : d > c => Good(d)
                       /\ Errs(Of(c))

\* MUTANT of MapError: the join waits for results, not for answers.
MapIgnoresError == FALSE /\ Errs(NoAnswer)

MapError ==
    /\ Joined
    /\ \E c \in Kids : /\ Bad(c) /\ \A d \in Kids : d < c => Good(d)
                       /\ Errs(Of(c))

Map == MapSpawn \/ MapOk \/ MapError

(***************************************************************************)
(* RetrieveTask::run and HandleMessageTask::run: two steps, the output of  *)
(* the first being the input of the second. Outputs of I/O tasks are       *)
(* untyped, so the body downcasts them (and takes one vector out of a list *)
(* that may be empty).                                                     *)
(***************************************************************************)

ChainSpawn ==
    /\ kind = "chain" /\ Spawned < limit
    /\ Goto("head", "await")
    /\ \E r \in Io \cup {Inner} : (r = Inner => Spawned = 0) /\ Spawns(r)

Usable(c) == handle[c].val.type = req[c].declared

ChainError == kind = "chain" /\ Awaited /\ Bad(Last) /\ Errs(Of(Last))

ChainUnusable ==
    /\ kind = "chain" /\ Awaited /\ Good(Last)
    /\ ~Usable(Last)
    /\ Errs(Own("Unusable"))

ChainNext ==
    /\ kind = "chain" /\ Awaited /\ Good(Last)
    /\ Usable(Last) /\ Spawned < limit
    /\ Jump("await", "head")

ChainOk ==
    /\ kind = "chain" /\ Awaited /\ Good(Last)
    /\ Usable(Last) /\ Spawned = limit
    /\ Returns(Of(Last))

Chain == ChainSpawn \/ ChainError \/ ChainUnusable \/ ChainNext \/ ChainOk

(***************************************************************************)

Body == Retry \/ Refine \/ Map \/ Chain

\* The runtime's steps. How task 0's body ends is for Body to say.
Scheduled(n) ==
    /\ Step(n)
    /\ ~(n = Root /\ pc[n] = "executing" /\ pc'[n] = "mark")
    /\ UNCHANGED combVars

Flag == /\ Cancel \/ Reset
        /\ late' = 0
        /\ UNCHANGED <<kind, limit, at, answer>>

CombNext ==
    \/ Begin \/ Body \/ Flag
    \/ \E n \in NodeId : \/ Scheduled(n)
                         \/ Panic(n) /\ UNCHANGED combVars
    \/ ShutDown /\ UNCHANGED combVars

CombSpec == CombInit /\ [][CombNext]_allVars

\* As in Runtime; a body that is polled goes on to its next await.
CombFairSpec == /\ CombSpec
                /\ WF_allVars(Body)
                /\ \A n \in NodeId : WF_allVars(Scheduled(n))

(***************************************************************************)
(* Properties                                                              *)
(***************************************************************************)

\* The body stays within its states, and never spawns more children than
\* inputs, iterations, attempts or steps.
CombTypeOK ==
    /\ kind \in Kinds
    /\ limit \in 0 .. MaxNodes - 1
    /\ at \in {"head", "spawn", "await", "check"}
    /\ answer \in [tag : {"none", "child", "all"} \cup OwnErrors,
                   from : NodeId \cup {NoNode}]
    /\ late \in 0 .. MaxNodes
    /\ Spawned <= limit

\* Retry, Refine and the chains work one child at a time: when a child is
\* spawned, the records of those before it are closed, or lost by a panic.
OneChildAtATime ==
    kind # "map" =>
        \A c \in Kids : c # Last => terminal[c] \in TerminalStatus \/ pc[c] = "dead"

Ended(o) == answer # NoAnswer /\ outcome[Root] = o

\* An Ok of a combinator has the children it needs behind it.
OkIsEarned ==
    Ended("ok") =>
        /\ kind = "retry"  => Good(Last) /\ \A c \in Kids : c # Last => Bad(c)
        /\ kind = "refine" => Spawned > 0 /\ \A c \in Kids : Good(c)
        /\ kind \in {"map", "chain"} =>
              Spawned = limit /\ \A c \in Kids : Good(c)

\* An Err of a combinator names its cause: the last attempt after all of them
\* failed, the first failed input of a Map once all have ended, the failed
\* step, the cancel flag between two attempts, or an exhausted loop.
ErrHasItsCause ==
    Ended("err") =>
        LET c == answer.from
            goodBefore == \A d \in Kids : d < c => Good(d)
        IN
        \/ answer.tag = "child" /\ Bad(c) /\ kind = "retry"
              /\ c = limit /\ \A d \in Kids : Bad(d)
        \/ answer.tag = "child" /\ Bad(c) /\ goodBefore
              /\ IF kind = "map" THEN \A d \in 1 .. limit : Answered(d)
                                 ELSE kind # "retry" /\ c = Last
        \/ answer.tag = "Cancelled" /\ kind = "retry"
              /\ Spawned < limit /\ \A d \in Kids : Bad(d)
        \/ answer.tag = "Cancelled" /\ kind = "refine"
              /\ Spawned > 0 /\ \A d \in Kids : Good(d)
        \/ answer.tag = "Exhausted" /\ Spawned = limit
              /\ IF kind = "refine" THEN \A d \in Kids : Good(d) ELSE limit = 0
        \/ answer.tag = "Unusable" /\ kind = "chain" /\ Spawned > 0

\* Once the flag is set, and as long as it is, a loop or a chain spawns at most
\* one more child.
CancelEndsTheLoop == kind # "map" => late <= 1

\* Whoever awaits a combinator is answered.
CombinatorAnswers == pc[Root] # "absent" ~> Answered(Root)
=============================================================================
