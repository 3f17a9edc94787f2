------------------------- MODULE CombinatorsProofs -------------------------
(***************************************************************************)
(* Proofs about the combinators, for every number of inputs, iterations or *)
(* attempts, every call they make and every schedule of their children.    *)
(*                                                                         *)
(* A step of a combinator is a step of the runtime, so the runtime's       *)
(* invariant holds of it (RuntimeInvariantHolds). What the body knows of   *)
(* its children is stable, since answers are final: steps of others keep   *)
(* it (QuietStep), and each step of the body is looked at once.            *)
(***************************************************************************)
EXTENDS Combinators, RuntimeProofs

\* Where a body may stand, and how far it may have counted.
Bounds ==
    /\ CombTypeOK
    /\ late <= Spawned
    /\ kind = "chain" => limit = 2
    /\ kind = "retry" => at # "check"
    /\ kind = "refine" => at # "spawn"
    /\ kind = "chain" => at \in {"head", "await"}
    /\ kind = "map" => at = "head"
    /\ answer.tag = "child" => answer.from \in Kids

\* How a child ended after which the loop goes on.
Settled(c) == IF kind = "retry" THEN Bad(c) ELSE Good(c)

\* The children before the last one have ended, and so has the last one unless
\* the body is waiting for it.
InOrder ==
    kind # "map" =>
        /\ \A c \in Kids : c # Last \/ at # "await" => Settled(c)
        /\ at \in {"await", "check"} => Spawned > 0
        /\ at = "spawn" => Spawned < limit

\* A body that has returned has an outcome.
Decided == answer # NoAnswer => outcome[Root] \in {"ok", "err"}

\* A child that the flag, if it stays set, keeps from its body.
Doomed(c) == pc[c] \in {"registered", "queued", "dead"} \/ outcome[c] = "cancelled"

\* Where a body can still spawn, it has not done so since the flag was set; the
\* first step of a chain then never succeeds.
Lateness ==
    kind # "map" =>
        /\ late > 0 => cancelled
        /\ late <= 1
        /\ kind = "retry" /\ at = "spawn" => late = 0
        /\ kind = "refine" /\ at = "head" => late = 0
        /\ kind = "chain" /\ late > 0 /\ Spawned = 1 => Doomed(1)

BodyInv == /\ Bounds /\ InOrder /\ Decided
           /\ OkIsEarned /\ ErrHasItsCause /\ Lateness

CombInv == IInv /\ BodyInv

\* What a body may return.
Answers == {a \in [tag : {"none", "child", "all"} \cup OwnErrors,
                   from : NodeId \cup {NoNode}] :
               a.tag = "child" => a.from \in Kids}

(***************************************************************************)
(* A combinator's step is one of the runtime.                              *)
(***************************************************************************)

LEMMA RootIsNode == Root \in NodeId
BY MaxNodesAssumption DEF Root, NodeId

\* The body's step, as the runtime sees it.
LEMMA BodyKinds ==
  ASSUME Body
  PROVE  \/ Succeed(Root) \/ Fail(Root)
         \/ \E r \in Requests : Register(Root, r)
         \/ UNCHANGED vars
<1>1. CASE Retry
  BY <1>1, CallsAssumption
     DEF Retry, RetryExhausted, RetryCancelled, RetryGo, RetrySpawn, RetryOk,
         RetryAgain, Returns, Errs, Spawns, Jump
<1>2. CASE Refine
  BY <1>2, CallsAssumption
     DEF Refine, RefineExhausted, RefineSpawn, RefineError, RefineDone,
         RefineContinue, RefineCancelled, RefineGoOn, Returns, Errs, Spawns,
         Jump
<1>3. CASE Map
  BY <1>3, CallsAssumption DEF Map, MapSpawn, MapOk, MapError, Returns, Errs,
       Spawns
<1>4. CASE Chain
  <2>1. CASE ChainSpawn
    BY <2>1, CallsAssumption DEF ChainSpawn, Spawns
  <2> QED BY <1>4, <2>1 DEF Chain, ChainError, ChainUnusable, ChainNext,
               ChainOk, Returns, Errs, Jump
<1> QED BY <1>1, <1>2, <1>3, <1>4 DEF Body

LEMMA StepOfRuntime ==
  ASSUME [CombNext]_allVars
  PROVE  [Next]_vars
<1>1. CASE Begin
  BY <1>1, CallsAssumption DEF Begin, Next, Spawn
<1>2. CASE Body
  BY <1>2, BodyKinds, RootIsNode DEF Next, Spawn, Step
<1>3. CASE Flag  BY <1>3 DEF Flag, Next
<1>4. CASE \E n \in NodeId : Scheduled(n) \/ Panic(n)
  BY <1>4 DEF Scheduled, Next
<1>5. CASE ShutDown  BY <1>5 DEF Next
<1>6. CASE UNCHANGED allVars  BY <1>6 DEF allVars
<1> QED BY <1>1, <1>2, <1>3, <1>4, <1>5, <1>6 DEF CombNext

LEMMA IInvOfStep ==
  ASSUME IInv, [CombNext]_allVars
  PROVE  IInv'
BY StepOfRuntime, StepKinds, RegisterKeepsIInv, LocalKeepsIInv, QuietKeepsIInv
   DEF IInv

\* Under a combinator everything that holds of the runtime holds.
THEOREM RuntimeInvariantHolds == CombSpec => []IInv
<1>1. CombInit => IInv  BY InitIInv DEF CombInit
<1>2. IInv /\ [CombNext]_allVars => IInv'  BY IInvOfStep
<1> QED BY <1>1, <1>2, PTL DEF CombSpec

(***************************************************************************)
(* What the steps of others keep.                                          *)
(***************************************************************************)

\* Answers are final.
LEMMA AnswersStay ==
  ASSUME IInv, [CombNext]_allVars, NEW c \in NodeId
  PROVE  Answered(c) => handle'[c] = handle[c]
<1>1. IInv' /\ [Next]_vars  BY IInvOfStep, StepOfRuntime
<1> QED BY <1>1, StepKeepsHistory

\* The way a closure ends is decided once, and a doomed one stays doomed while
\* the flag is set.
LEMMA OutcomesStay ==
  ASSUME IInv, NEW n \in NodeId, Local(n)
  PROVE  /\ outcome[n] # "none" => outcome'[n] = outcome[n]
         /\ cancelled /\ Doomed(n) => Doomed(n)'
<1> USE DEF frontierVars, auditVars, cacheVars, envVars, closureVars, IInv,
     TypeOK, Phases, NodePhase, OutcomePhase, Undecided, Doomed
<1>1. CASE RecordSpawn(n)  BY <1>1 DEF RecordSpawn, Move
<1>2. CASE CheckCancel(n)  BY <1>2 DEF CheckCancel
<1>3. CASE LookupMiss(n)  BY <1>3 DEF LookupMiss, Move
<1>4. CASE LookupHit(n)  BY <1>4 DEF LookupHit, Move
<1>5. CASE HitSetOutput(n)  BY <1>5 DEF HitSetOutput, Move
<1>6. CASE SetRunning(n)  BY <1>6 DEF SetRunning, Move, SetStatus
<1>7. CASE Succeed(n)  BY <1>7 DEF Succeed, Active, InBody
<1>8. CASE Fail(n)  BY <1>8 DEF Fail, Active, InBody
<1>9. CASE Mark(n)  BY <1>9 DEF Mark, Move, SetStatus
<1>10. CASE Unlink(n)  BY <1>10 DEF Unlink, Move, NextStage, RemoveIf
<1>11. CASE SetOutput(n)  BY <1>11 DEF SetOutput, Move
<1>12. CASE CacheInsert(n)  BY <1>12 DEF CacheInsert, Move
<1>13. CASE CachePlaceholder(n)  BY <1>13 DEF CachePlaceholder, Move
<1>14. CASE Seal(n)  BY <1>14 DEF Seal, Move
<1>15. CASE Deliver(n)  BY <1>15 DEF Deliver, Move
<1>16. CASE Drop(n)  BY <1>16 DEF Drop, Die, Active, InBody
<1>17. CASE Panic(n)  BY <1>17 DEF Panic, Die, Active, InBody
<1>18. CASE PanicUnderLock(n)  BY <1>18 DEF PanicUnderLock, Die
<1>19. CASE \E c \in NodeId : Await(n, c)  BY <1>19 DEF Await
<1> QED BY <1>1, <1>2, <1>3, <1>4, <1>5, <1>6, <1>7, <1>8, <1>9, <1>10, <1>11,
   <1>12, <1>13, <1>14, <1>15, <1>16, <1>17, <1>18, <1>19
   DEF Local, Step

\* A step in which the body does not move.
Other == /\ UNCHANGED <<kind, limit, at, answer>>
         /\ late' = late \/ late' = 0
         /\ late' > 0 => cancelled' = cancelled
         /\ Spawned' = Spawned
         /\ \A n \in NodeId : outcome[n] # "none" => outcome'[n] = outcome[n]
         /\ cancelled => \A n \in 1 .. Spawned : Doomed(n) => Doomed(n)'

LEMMA OthersSteps ==
  ASSUME IInv, Bounds, [CombNext]_allVars, ~Body
  PROVE  Other
<1>0. nextId \in 0 .. MaxNodes /\ late \in Nat
  BY MaxNodesAssumption DEF IInv, TypeOK, Bounds, CombTypeOK
<1>1. CASE Begin
  BY <1>1, <1>0 DEF Begin, Register, Other, Spawned, combVars, envVars,
       closureVars, Lateness
<1>2. CASE Flag
  BY <1>2, <1>0 DEF Flag, Cancel, Reset, Other, Spawned, frontierVars,
       closureVars, Doomed
<1>3. CASE (\E n \in NodeId : Scheduled(n) \/ Panic(n)) /\ UNCHANGED combVars
  <2>1. PICK n \in NodeId : Local(n)  BY <1>3 DEF Scheduled, Local
  <2>2. /\ UNCHANGED <<nextId, cancelled>>
        /\ \A m \in NodeId : m # n => Same(m)
        /\ outcome[n] # "none" => outcome'[n] = outcome[n]
        /\ cancelled /\ Doomed(n) => Doomed(n)'
    <3>1. nextId' = nextId  BY <2>1, FinalOfStep
    <3>2. cancelled' = cancelled
      BY <2>1 DEF Local, Step, RecordSpawn, CheckCancel, LookupMiss, LookupHit,
           HitSetOutput, SetRunning, Succeed, Fail, Mark, Unlink, RemoveIf,
           SetOutput, CacheInsert, CachePlaceholder, Seal, Deliver, Drop,
           Panic, PanicUnderLock, Die, Await, envVars
    <3> QED BY <3>1, <3>2, <2>1, OutcomesStay, Locality
  <2>3. 1 .. Spawned \subseteq NodeId
    BY <1>0, MaxNodesAssumption DEF Spawned, NodeId
  <2>4. \A m \in NodeId : cancelled /\ Doomed(m) => Doomed(m)'
    BY <2>2 DEF Same, Doomed
  <2>5. \A m \in NodeId : outcome[m] # "none" => outcome'[m] = outcome[m]
    BY <2>2 DEF Same
  <2> QED BY <1>3, <2>2, <2>3, <2>4, <2>5 DEF Other, combVars, Spawned
<1>4. CASE ShutDown /\ UNCHANGED combVars
  BY <1>4, <1>0 DEF ShutDown, Other, Spawned, frontierVars, closureVars,
       combVars, Doomed
<1>5. CASE UNCHANGED allVars
  BY <1>5, <1>0 DEF allVars, vars, combVars, Other, Spawned, frontierVars,
       closureVars, envVars, Doomed
<1> QED BY <1>1, <1>2, <1>3, <1>4, <1>5 DEF CombNext, Scheduled

(***************************************************************************)
(* The invariant, when the body does not move.                             *)
(***************************************************************************)

LEMMA OthersKeep ==
  ASSUME CombInv, [CombNext]_allVars, ~Body
  PROVE  CombInv'
<1>1. IInv'  BY IInvOfStep DEF CombInv, BodyInv
<1>2. Other  BY OthersSteps DEF CombInv, BodyInv
<1>3. Spawned \in Nat /\ 1 .. Spawned \subseteq NodeId
  BY MaxNodesAssumption DEF CombInv, BodyInv, IInv, TypeOK, Spawned, NodeId
<1>4. \A c \in NodeId : Answered(c) => handle'[c] = handle[c]
  BY AnswersStay DEF CombInv
<1>5. Root \in NodeId  BY RootIsNode
<1>6. Bounds'
  BY <1>2, <1>3, MaxNodesAssumption DEF CombInv, BodyInv, Bounds, CombTypeOK, Kids,
       Other
<1>7. InOrder'
  BY <1>2, <1>3, <1>4 DEF CombInv, BodyInv, InOrder, Other, Kids, Last, Settled,
       Good, Bad, Answered
<1>8. Decided'
  BY <1>2, <1>5 DEF CombInv, BodyInv, Decided, Other
<1>9. answer' # NoAnswer => outcome'[Root] = outcome[Root]
  BY <1>2, <1>5 DEF CombInv, BodyInv, Decided, Other
<1>10. /\ UNCHANGED <<kind, limit, answer>> /\ Spawned' = Spawned
       /\ Kids' = Kids /\ Last' = Last
       /\ Kids \subseteq NodeId /\ Last \in NodeId
  BY <1>2, <1>3, <1>5 DEF Other, Kids, Last, Root
<1>11. OkIsEarned'
  BY <1>4, <1>9, <1>10
     DEF CombInv, BodyInv, OkIsEarned, Ended, Good, Bad, Answered
<1>12. ErrHasItsCause'
  <2> SUFFICES ASSUME Ended("err")'
               PROVE  ErrHasItsCause'
    BY DEF ErrHasItsCause
  <2>1. Ended("err")  BY <1>9, <1>10 DEF Ended
  <2>2. answer.tag = "child" => answer.from \in NodeId
    BY <1>10 DEF CombInv, BodyInv, Bounds
  <2>3. limit \in Nat /\ Spawned \in Nat /\ 1 .. limit \subseteq NodeId
    BY <1>3, MaxNodesAssumption
       DEF CombInv, BodyInv, Bounds, CombTypeOK, NodeId
  <2> QED BY <2>1, <2>2, <2>3, <1>4, <1>10
          DEF CombInv, BodyInv, ErrHasItsCause, Kids, Good, Bad, Answered
<1>13. Lateness'
  BY <1>2, <1>3 DEF CombInv, BodyInv, Lateness, Other, Bounds, CombTypeOK
<1> QED BY <1>1, <1>6, <1>7, <1>8, <1>11, <1>12, <1>13 DEF CombInv, BodyInv

(***************************************************************************)
(* The invariant, when it does.                                            *)
(***************************************************************************)

\* What every step of the body has in common.
Moves ==
    /\ UNCHANGED <<kind, limit, handle, cancelled>>
    /\ answer = NoAnswer
    /\ Spawned \in Nat /\ 1 .. Spawned \subseteq NodeId /\ 1 .. Spawned' \subseteq NodeId

Stays == /\ Spawned' = Spawned /\ late' = late
         /\ \A n \in NodeId : n # Root => /\ pc'[n] = pc[n]
                                          /\ outcome'[n] = outcome[n]

Adds == /\ Spawned' = Spawned + 1
        /\ late' = IF cancelled THEN late + 1 ELSE 0
        /\ answer' = answer
        /\ pc'[Spawned + 1] = "registered"
        /\ outcome' = outcome

LEMMA RunningBody ==
  ASSUME CombInv, pc[Root] = "executing"
  PROVE  /\ nextId \in 1 .. MaxNodes /\ outcome[Root] = "none" 
         /\ answer = NoAnswer
         /\ Spawned = nextId - 1
         /\ Spawned \in Nat /\ 1 .. Spawned \subseteq NodeId
<1>1. Root \in NodeId /\ nextId \in 0 .. MaxNodes
  BY RootIsNode DEF CombInv, BodyInv, IInv, TypeOK
<1>2. nextId > 0  BY <1>1, MaxNodesAssumption DEF CombInv, BodyInv, IInv, BirthOrder, Root, NodeId
<1>3. outcome[Root] = "none"
  BY <1>1 DEF CombInv, BodyInv, IInv, Phases, NodePhase, OutcomePhase, Undecided
<1>4. answer = NoAnswer  BY <1>3 DEF CombInv, BodyInv, Decided
<1> QED BY <1>1, <1>2, <1>3, <1>4, MaxNodesAssumption DEF Spawned, NodeId

\* The body ends, or only goes to another place.
LEMMA EndsAndJumps ==
  ASSUME CombInv, UNCHANGED <<kind, limit, late>>,
         \/ Succeed(Root) \/ Fail(Root)
         \/ Active(Root) /\ UNCHANGED vars
  PROVE  Moves /\ Stays
<1>1. pc[Root] = "executing"  BY DEF Succeed, Fail, Active, InBody
<1>2. UNCHANGED <<nextId, handle, cancelled>>
  BY DEF Succeed, Fail, vars, frontierVars, envVars
<1>3. \A n \in NodeId : n # Root => pc'[n] = pc[n] /\ outcome'[n] = outcome[n]
  BY RootIsNode DEF Succeed, Fail, vars, closureVars, CombInv, IInv, TypeOK
<1> QED BY <1>1, <1>2, <1>3, RunningBody DEF Moves, Stays, Spawned

LEMMA SpawnsAdd ==
  ASSUME CombInv, NEW r \in Requests, Spawns(r)
  PROVE  Moves /\ Adds
<1>1. Register(Root, r)  BY DEF Spawns
<1>2. pc[Root] = "executing"
  BY <1>1, SentinelAssumption, RootIsNode DEF Register, Active, InBody
<1>3. nextId \in 1 .. MaxNodes - 1 /\ nextId' = nextId + 1
  BY <1>1, <1>2, RunningBody, MaxNodesAssumption DEF Register, NodeId
<1>4. pc'[nextId] = "registered"
  BY <1>1 DEF Register, CombInv, IInv, TypeOK
<1>5. UNCHANGED <<handle, cancelled, outcome>>
  BY <1>1 DEF Register, envVars, closureVars
<1>6. Spawned = nextId - 1 /\ Spawned' = nextId
  BY <1>2, <1>3, RunningBody DEF Spawned
<1>7. 1 .. nextId \subseteq NodeId  BY <1>3, MaxNodesAssumption DEF NodeId
<1> QED BY <1>2, <1>3, <1>4, <1>5, <1>6, <1>7, RunningBody DEF Moves, Adds, Spawns

\* A child that succeeded was not doomed.
LEMMA GoodIsNotDoomed ==
  ASSUME IInv, NEW c \in NodeId, Good(c)
  PROVE  ~Doomed(c)
BY DEF Good, Doomed, IInv, TypeOK, Phases, NodePhase, HandlePhase, DeliveryPhase,
       Replies

\* What is left to show of a body that ends: that its answer is the right one.
LEMMA EndsKeep ==
  ASSUME CombInv, NEW a, UNCHANGED <<kind, limit, at, late>>, answer' = a,
         a \in Answers,
         Succeed(Root) \/ Fail(Root)
  PROVE  Moves /\ Stays /\ Bounds' /\ InOrder' /\ Decided' /\ Lateness'
<1>1. Moves /\ Stays  BY EndsAndJumps
<1>2. Root \in NodeId  BY RootIsNode
<1>3. Bounds'
  BY <1>1 DEF CombInv, BodyInv, Bounds, CombTypeOK, Kids, Moves, Stays, Answers
<1>4. InOrder'
  BY <1>1 DEF CombInv, BodyInv, InOrder, Moves, Stays, Kids, Last, Settled, Good, Bad
<1>5. Decided'
  BY <1>2 DEF Decided, Succeed, Fail, CombInv, IInv, TypeOK
<1>6. Lateness'
  BY <1>1 DEF CombInv, BodyInv, Lateness, Moves, Stays, Doomed, Root
<1> QED BY <1>1, <1>3, <1>4, <1>5, <1>6

LEMMA ErrsKeep ==
  ASSUME CombInv, NEW a \in Answers, Errs(a)
  PROVE  /\ Moves /\ Stays /\ answer' = a
         /\ ErrHasItsCause' => BodyInv'
<1>1. /\ Fail(Root) /\ answer' = a
      /\ UNCHANGED <<kind, limit, at, late>>
  BY DEF Errs
<1>2. outcome'[Root] = "err"
  BY <1>1, RootIsNode DEF Fail, CombInv, IInv, TypeOK
<1>3. OkIsEarned'  BY <1>2 DEF OkIsEarned, Ended
<1> QED BY <1>1, <1>3, EndsKeep DEF BodyInv

LEMMA ReturnsKeep ==
  ASSUME CombInv, NEW a \in Answers, Returns(a)
  PROVE  /\ Moves /\ Stays /\ answer' = a
         /\ OkIsEarned' => BodyInv'
<1>1. /\ Succeed(Root) /\ answer' = a
      /\ UNCHANGED <<kind, limit, at, late>>
  BY DEF Returns
<1>2. outcome'[Root] = "ok"
  BY <1>1, RootIsNode DEF Succeed, CombInv, IInv, TypeOK
<1>3. ErrHasItsCause'  BY <1>2 DEF ErrHasItsCause, Ended
<1> QED BY <1>1, <1>3, EndsKeep DEF BodyInv

\* What is left to show of a body that goes on: that it is in order.
LEMMA JumpsKeep ==
  ASSUME CombInv, NEW a, NEW b, Jump(a, b)
  PROVE  /\ Moves /\ Stays /\ at = a /\ at' = b /\ answer' = answer
         /\ Bounds' /\ InOrder' /\ Lateness' => BodyInv'
<1>1. /\ UNCHANGED <<vars, kind, limit, answer, late>>
      /\ at = a /\ at' = b /\ Active(Root)
  BY DEF Jump, Goto
<1>2. Moves /\ Stays  BY <1>1, EndsAndJumps
<1>3. answer' = NoAnswer  BY <1>1, <1>2 DEF Moves
<1> QED BY <1>1, <1>2, <1>3
      DEF BodyInv, Decided, OkIsEarned, ErrHasItsCause, Ended

LEMMA SpawnsKeep ==
  ASSUME CombInv, NEW r \in Requests, Spawns(r)
  PROVE  /\ Moves /\ Adds
         /\ Bounds' /\ InOrder' /\ Lateness' => BodyInv'
<1>1. Moves /\ Adds  BY SpawnsAdd
<1>2. answer' = NoAnswer  BY <1>1 DEF Moves, Adds
<1> QED BY <1>1, <1>2 DEF BodyInv, Decided, OkIsEarned, ErrHasItsCause, Ended

\* The answers a body can give.
LEMMA AnswersHaveType ==
  ASSUME CombInv, pc[Root] = "executing"
  PROVE  /\ \A e \in OwnErrors \cup {"all"} : Own(e) \in Answers
         /\ \A c \in Kids : Of(c) \in Answers
<1>1. Kids \subseteq NodeId  BY RunningBody DEF Kids
<1>2. \A c \in Kids : Of(c) \in Answers  BY <1>1 DEF Of, Answers
<1>3. \A e \in OwnErrors \cup {"all"} : Own(e) \in Answers
  BY DEF Own, Answers, OwnErrors
<1> QED BY <1>2, <1>3

(***************************************************************************)
(* Each body.                                                              *)
(***************************************************************************)

LEMMA RetryKeeps ==
  ASSUME CombInv, Retry
  PROVE  BodyInv'
<1>0. /\ pc[Root] = "executing" /\ kind = "retry"
      /\ Spawned \in Nat /\ limit \in Nat /\ late \in Nat
  <2>1. pc[Root] = "executing" /\ kind = "retry"
    BY SentinelAssumption, RootIsNode
       DEF Retry, RetryExhausted, RetryCancelled, RetryGo, RetrySpawn, RetryOk,
         RetryAgain, Returns, Errs, Spawns, Jump, Awaited, Succeed, Fail,
         Register, Active, InBody
  <2> QED BY <2>1, RunningBody DEF CombInv, BodyInv, Bounds, CombTypeOK
<1> USE <1>0
<1>1. CASE RetryExhausted
  <2> DEFINE a == IF limit = 0 THEN Own("Exhausted") ELSE Of(Last)
  <2>1. at = "head" /\ Spawned = limit /\ Errs(a)
    BY <1>1 DEF RetryExhausted
  <2>2. a \in Answers
    BY <2>1, AnswersHaveType DEF Kids, Last, OwnErrors
  <2>3. Moves /\ Stays /\ answer' = a /\ (ErrHasItsCause' => BodyInv')
    <3> HIDE DEF a
    <3> QED BY <2>1, <2>2, ErrsKeep
  <2>4. ErrHasItsCause'
    BY <2>1, <2>3
       DEF ErrHasItsCause, Ended, Moves, Stays, CombInv, BodyInv, InOrder, Settled, Kids,
         Last, Good, Bad, Answered, Own, Of
  <2> QED BY <2>3, <2>4
<1>2. CASE RetryCancelled
  <2>1. at = "head" /\ Spawned < limit /\ Errs(Own("Cancelled"))
    BY <1>2 DEF RetryCancelled
  <2>2. Moves /\ Stays /\ answer' = Own("Cancelled")
        /\ (ErrHasItsCause' => BodyInv')
    BY <2>1, AnswersHaveType, ErrsKeep DEF OwnErrors
  <2>3. ErrHasItsCause'
    BY <2>1, <2>2
       DEF ErrHasItsCause, Ended, Moves, Stays, CombInv, BodyInv, InOrder, Settled, Kids,
         Last, Good, Bad, Answered, Own
  <2> QED BY <2>2, <2>3
<1>3. CASE RetryGo
  <2>1. Spawned < limit /\ ~cancelled /\ Jump("head", "spawn")
    BY <1>3 DEF RetryGo
  <2>2. Moves /\ Stays /\ at = "head" /\ at' = "spawn" /\ answer' = answer
        /\ (Bounds' /\ InOrder' /\ Lateness' => BodyInv')
    BY <2>1, JumpsKeep
  <2>3. Bounds'
    BY <2>2 DEF CombInv, BodyInv, Bounds, CombTypeOK, Kids, Moves, Stays
  <2>4. InOrder'
    BY <2>1, <2>2 DEF CombInv, BodyInv, InOrder, Moves, Stays, Kids, Last, Settled, Good, Bad
  <2>5. Lateness'
    BY <2>1, <2>2 DEF CombInv, BodyInv, Lateness, Moves, Stays
  <2> QED BY <2>2, <2>3, <2>4, <2>5
<1>4. CASE RetrySpawn
  <2>1. at = "spawn" /\ at' = "await" /\ Spawns(Inner)
    BY <1>4 DEF RetrySpawn, Goto
  <2>2. Moves /\ Adds /\ (Bounds' /\ InOrder' /\ Lateness' => BodyInv')
    BY <2>1, SpawnsKeep, CallsAssumption
  <2>3. Bounds'
    BY <2>1, <2>2, MaxNodesAssumption
       DEF CombInv, BodyInv, Bounds, CombTypeOK, Kids, Moves, Adds,
         InOrder, NoAnswer
  <2>4. InOrder'
    BY <2>1, <2>2 DEF CombInv, BodyInv, InOrder, Moves, Adds, Kids, Last, Settled, Good, Bad
  <2>5. Lateness'
    BY <2>1, <2>2 DEF CombInv, BodyInv, Lateness, Moves, Adds
  <2> QED BY <2>2, <2>3, <2>4, <2>5
<1>5. CASE RetryOk
  <2>1. at = "await" /\ Good(Last) /\ Returns(Of(Last))
    BY <1>5 DEF RetryOk, Awaited
  <2>2. Moves /\ Stays /\ answer' = Of(Last) /\ (OkIsEarned' => BodyInv')
    BY <2>1, AnswersHaveType, ReturnsKeep DEF Kids, Last, CombInv, BodyInv, InOrder
  <2>3. OkIsEarned'
    BY <2>1, <2>2
       DEF OkIsEarned, Ended, Moves, Stays, CombInv, BodyInv, InOrder, Settled, Kids,
         Last, Good, Bad
  <2> QED BY <2>2, <2>3
<1>6. CASE RetryAgain
  <2>1. Bad(Last) /\ Jump("await", "head")
    BY <1>6 DEF RetryAgain
  <2>2. Moves /\ Stays /\ at = "await" /\ at' = "head" /\ answer' = answer
        /\ (Bounds' /\ InOrder' /\ Lateness' => BodyInv')
    BY <2>1, JumpsKeep
  <2>3. Bounds'
    BY <2>2 DEF CombInv, BodyInv, Bounds, CombTypeOK, Kids, Moves, Stays
  <2>4. InOrder'
    BY <2>1, <2>2 DEF CombInv, BodyInv, InOrder, Moves, Stays, Kids, Last, Settled, Good, Bad
  <2>5. Lateness'
    BY <2>2 DEF CombInv, BodyInv, Lateness, Moves, Stays
  <2> QED BY <2>2, <2>3, <2>4, <2>5
<1> QED BY <1>1, <1>2, <1>3, <1>4, <1>5, <1>6 DEF Retry

LEMMA RefineKeeps ==
  ASSUME CombInv, Refine
  PROVE  BodyInv'
<1>0. /\ pc[Root] = "executing" /\ kind = "refine"
      /\ Spawned \in Nat /\ limit \in Nat /\ late \in Nat
  <2>1. pc[Root] = "executing" /\ kind = "refine"
    BY SentinelAssumption, RootIsNode
       DEF Refine, RefineExhausted, RefineSpawn, RefineError, RefineDone,
         RefineContinue, RefineCancelled, RefineGoOn, Returns, Errs, Spawns, Jump, Awaited, Joined,
         Succeed, Fail, Register, Active, InBody
  <2> QED BY <2>1, RunningBody DEF CombInv, BodyInv, Bounds, CombTypeOK
<1> USE <1>0
<1>1. CASE RefineExhausted
  <2>1. at = "head" /\ Spawned = limit /\ Errs(Own("Exhausted"))
    BY <1>1 DEF RefineExhausted
  <2>2. Moves /\ Stays /\ answer' = Own("Exhausted") /\ (ErrHasItsCause' => BodyInv')
    BY <2>1, AnswersHaveType, ErrsKeep DEF OwnErrors
  <2>3. ErrHasItsCause'
    BY <2>1, <2>2
       DEF ErrHasItsCause, Ended, Moves, Stays, CombInv, BodyInv, InOrder, Settled,
         Kids, Last, Good, Bad, Answered, Own, Of
  <2> QED BY <2>2, <2>3
<1>2. CASE RefineSpawn
  <2>1. at = "head" /\ at' = "await" /\ Spawned < limit /\ Spawns(Inner)
    BY <1>2 DEF RefineSpawn, Goto
  <2>2. Moves /\ Adds /\ (Bounds' /\ InOrder' /\ Lateness' => BodyInv')
    BY <2>1, SpawnsKeep, CallsAssumption
  <2>3. Bounds'
    BY <2>1, <2>2, MaxNodesAssumption
       DEF CombInv, BodyInv, Bounds, CombTypeOK, Kids, Moves, Adds,
         NoAnswer
  <2>4. InOrder'
    BY <2>1, <2>2
       DEF CombInv, BodyInv, InOrder, Moves, Adds, Kids, Last, Settled, Good, Bad
  <2>5. Lateness'
    BY <2>1, <2>2 DEF CombInv, BodyInv, Lateness, Moves, Adds
  <2> QED BY <2>2, <2>3, <2>4, <2>5
<1>3. CASE RefineError
  <2>1. at = "await" /\ Bad(Last) /\ Errs(Of(Last))
    BY <1>3 DEF RefineError, Awaited
  <2>2. Moves /\ Stays /\ answer' = Of(Last) /\ (ErrHasItsCause' => BodyInv')
    BY <2>1, AnswersHaveType, ErrsKeep
       DEF Kids, Last, CombInv, BodyInv, InOrder
  <2>3. ErrHasItsCause'
    BY <2>1, <2>2
       DEF ErrHasItsCause, Ended, Moves, Stays, CombInv, BodyInv, InOrder, Settled,
         Kids, Last, Good, Bad, Answered, Own, Of
  <2> QED BY <2>2, <2>3
<1>4. CASE RefineDone
  <2>1. at = "await" /\ Good(Last) /\ Returns(Of(Last))
    BY <1>4 DEF RefineDone, Awaited
  <2>2. Moves /\ Stays /\ answer' = Of(Last) /\ (OkIsEarned' => BodyInv')
    BY <2>1, AnswersHaveType, ReturnsKeep
       DEF Kids, Last, CombInv, BodyInv, InOrder
  <2>3. OkIsEarned'
    BY <2>1, <2>2
       DEF OkIsEarned, Ended, Moves, Stays, CombInv, BodyInv, InOrder, Settled,
         Kids, Last, Good, Bad, Bounds, CombTypeOK
  <2> QED BY <2>2, <2>3
<1>5. CASE RefineContinue
  <2>1. Good(Last) /\ Jump("await", "check")
    BY <1>5 DEF RefineContinue
  <2>2. Moves /\ Stays /\ at = "await" /\ at' = "check" /\ answer' = answer
        /\ (Bounds' /\ InOrder' /\ Lateness' => BodyInv')
    BY <2>1, JumpsKeep
  <2>3. Bounds'
    BY <2>2 DEF CombInv, BodyInv, Bounds, CombTypeOK, Kids, Moves, Stays
  <2>4. InOrder'
    BY <2>1, <2>2
       DEF CombInv, BodyInv, InOrder, Moves, Stays, Kids, Last, Settled, Good, Bad
  <2>5. Lateness'
    BY <2>1, <2>2 DEF CombInv, BodyInv, Lateness, Moves, Stays, Doomed, Root
  <2> QED BY <2>2, <2>3, <2>4, <2>5
<1>6. CASE RefineCancelled
  <2>1. at = "check" /\ Errs(Own("Cancelled"))
    BY <1>6 DEF RefineCancelled
  <2>2. Moves /\ Stays /\ answer' = Own("Cancelled") /\ (ErrHasItsCause' => BodyInv')
    BY <2>1, AnswersHaveType, ErrsKeep DEF OwnErrors
  <2>3. ErrHasItsCause'
    BY <2>1, <2>2
       DEF ErrHasItsCause, Ended, Moves, Stays, CombInv, BodyInv, InOrder, Settled,
         Kids, Last, Good, Bad, Answered, Own, Of
  <2> QED BY <2>2, <2>3
<1>7. CASE RefineGoOn
  <2>1. ~cancelled /\ Jump("check", "head")
    BY <1>7 DEF RefineGoOn
  <2>2. Moves /\ Stays /\ at = "check" /\ at' = "head" /\ answer' = answer
        /\ (Bounds' /\ InOrder' /\ Lateness' => BodyInv')
    BY <2>1, JumpsKeep
  <2>3. Bounds'
    BY <2>2 DEF CombInv, BodyInv, Bounds, CombTypeOK, Kids, Moves, Stays
  <2>4. InOrder'
    BY <2>1, <2>2
       DEF CombInv, BodyInv, InOrder, Moves, Stays, Kids, Last, Settled, Good, Bad
  <2>5. Lateness'
    BY <2>1, <2>2 DEF CombInv, BodyInv, Lateness, Moves, Stays, Doomed, Root
  <2> QED BY <2>2, <2>3, <2>4, <2>5
<1> QED BY <1>1, <1>2, <1>3, <1>4, <1>5, <1>6, <1>7 DEF Refine

LEMMA MapKeeps ==
  ASSUME CombInv, Map
  PROVE  BodyInv'
<1>0. /\ pc[Root] = "executing" /\ kind = "map"
      /\ Spawned \in Nat /\ limit \in Nat /\ late \in Nat
  <2>1. pc[Root] = "executing" /\ kind = "map"
    BY SentinelAssumption, RootIsNode
       DEF Map, MapSpawn, MapOk, MapError, Returns, Errs, Spawns, Jump, Awaited, Joined,
         Succeed, Fail, Register, Active, InBody
  <2> QED BY <2>1, RunningBody DEF CombInv, BodyInv, Bounds, CombTypeOK
<1> USE <1>0
<1>1. CASE MapSpawn
  <2>1. at' = at /\ Spawned < limit /\ Spawns(Inner)
    BY <1>1 DEF MapSpawn
  <2>2. Moves /\ Adds /\ (Bounds' /\ InOrder' /\ Lateness' => BodyInv')
    BY <2>1, SpawnsKeep, CallsAssumption
  <2>3. Bounds'
    BY <2>1, <2>2, MaxNodesAssumption
       DEF CombInv, BodyInv, Bounds, CombTypeOK, Kids, Moves, Adds,
         NoAnswer
  <2>4. InOrder' /\ Lateness'
    BY <2>2 DEF InOrder, Lateness, Moves
  <2> QED BY <2>2, <2>3, <2>4
<1>2. CASE MapOk
  <2>1. Spawned = limit /\ (\A c \in Kids : Good(c)) /\ Returns(Own("all"))
    BY <1>2 DEF MapOk, Joined
  <2>2. Moves /\ Stays /\ answer' = Own("all") /\ (OkIsEarned' => BodyInv')
    BY <2>1, AnswersHaveType, ReturnsKeep
  <2>3. OkIsEarned'
    BY <2>1, <2>2
       DEF OkIsEarned, Ended, Moves, Stays, CombInv, BodyInv, InOrder, Settled,
         Kids, Last, Good, Bad, Bounds, CombTypeOK
  <2> QED BY <2>2, <2>3
<1>3. CASE MapError
  <2>1. PICK c \in Kids : /\ Bad(c) /\ \A d \in Kids : d < c => Good(d)
                         /\ Errs(Of(c))
    BY <1>3 DEF MapError
  <2>2. Spawned = limit /\ \A d \in Kids : Answered(d)
    BY <1>3 DEF MapError, Joined
  <2>3. Moves /\ Stays /\ answer' = Of(c) /\ (ErrHasItsCause' => BodyInv')
    BY <2>1, AnswersHaveType, ErrsKeep
  <2>4. ErrHasItsCause'
    BY <2>1, <2>2, <2>3
       DEF ErrHasItsCause, Ended, Moves, Stays, Kids, Good, Bad, Answered, Of
  <2> QED BY <2>3, <2>4
<1> QED BY <1>1, <1>2, <1>3 DEF Map

LEMMA ChainKeeps ==
  ASSUME CombInv, Chain
  PROVE  BodyInv'
<1>0. /\ pc[Root] = "executing" /\ kind = "chain"
      /\ Spawned \in Nat /\ limit \in Nat /\ late \in Nat
  <2>1. pc[Root] = "executing" /\ kind = "chain"
    BY SentinelAssumption, RootIsNode
       DEF Chain, ChainSpawn, ChainError, ChainUnusable, ChainNext, ChainOk, Returns, Errs, Spawns, Jump, Awaited, Joined,
         Succeed, Fail, Register, Active, InBody
  <2> QED BY <2>1, RunningBody DEF CombInv, BodyInv, Bounds, CombTypeOK
<1> USE <1>0
<1>1. CASE ChainSpawn
  <2>1. PICK r \in Io \cup {Inner} : Spawns(r)
    BY <1>1 DEF ChainSpawn
  <2>2. at = "head" /\ at' = "await" /\ Spawned < limit
    BY <1>1 DEF ChainSpawn, Goto
  <2>3. Moves /\ Adds /\ (Bounds' /\ InOrder' /\ Lateness' => BodyInv')
    BY <2>1, SpawnsKeep, CallsAssumption
  <2>4. Bounds'
    BY <2>2, <2>3, MaxNodesAssumption
       DEF CombInv, BodyInv, Bounds, CombTypeOK, Kids, Moves, Adds,
         NoAnswer
  <2>5. InOrder'
    BY <2>2, <2>3
       DEF CombInv, BodyInv, InOrder, Moves, Adds, Kids, Last, Settled, Good, Bad
  <2>6. Spawned \in {0, 1} /\ late = 0
    <3>1. limit = 2  BY DEF CombInv, BodyInv, Bounds
    <3>2. Spawned = 0 => late = 0  BY DEF CombInv, BodyInv, Bounds
    <3>3. Spawned = 1 => Good(1)
      BY <2>2 DEF CombInv, BodyInv, InOrder, Settled, Kids
    <3>4. Spawned = 1 => ~Doomed(1)
      BY <3>3, <2>3, GoodIsNotDoomed DEF Moves, CombInv
    <3> QED BY <2>2, <3>1, <3>2, <3>4 DEF CombInv, BodyInv, Lateness
  <2>7. Lateness'
    BY <2>2, <2>3, <2>6 DEF Lateness, Moves, Adds, Doomed
  <2> QED BY <2>3, <2>4, <2>5, <2>7
<1>2. CASE ChainError
  <2>1. at = "await" /\ Bad(Last) /\ Errs(Of(Last))
    BY <1>2 DEF ChainError, Awaited
  <2>2. Moves /\ Stays /\ answer' = Of(Last) /\ (ErrHasItsCause' => BodyInv')
    BY <2>1, AnswersHaveType, ErrsKeep
       DEF Kids, Last, CombInv, BodyInv, InOrder
  <2>3. ErrHasItsCause'
    BY <2>1, <2>2
       DEF ErrHasItsCause, Ended, Moves, Stays, CombInv, BodyInv, InOrder, Settled,
         Kids, Last, Good, Bad, Answered, Own, Of
  <2> QED BY <2>2, <2>3
<1>3. CASE ChainUnusable
  <2>1. at = "await" /\ Good(Last) /\ Errs(Own("Unusable"))
    BY <1>3 DEF ChainUnusable, Awaited
  <2>2. Moves /\ Stays /\ answer' = Own("Unusable") /\ (ErrHasItsCause' => BodyInv')
    BY <2>1, AnswersHaveType, ErrsKeep DEF OwnErrors
  <2>3. ErrHasItsCause'
    BY <2>1, <2>2
       DEF ErrHasItsCause, Ended, Moves, Stays, CombInv, BodyInv, InOrder, Settled,
         Kids, Last, Good, Bad, Answered, Own, Of
  <2> QED BY <2>2, <2>3
<1>4. CASE ChainNext
  <2>1. Good(Last) /\ Jump("await", "head")
    BY <1>4 DEF ChainNext
  <2>2. Moves /\ Stays /\ at = "await" /\ at' = "head" /\ answer' = answer
        /\ (Bounds' /\ InOrder' /\ Lateness' => BodyInv')
    BY <2>1, JumpsKeep
  <2>3. Bounds'
    BY <2>2 DEF CombInv, BodyInv, Bounds, CombTypeOK, Kids, Moves, Stays
  <2>4. InOrder'
    BY <2>1, <2>2
       DEF CombInv, BodyInv, InOrder, Moves, Stays, Kids, Last, Settled, Good, Bad
  <2>5. Lateness'
    BY <2>1, <2>2 DEF CombInv, BodyInv, Lateness, Moves, Stays, Doomed, Root
  <2> QED BY <2>2, <2>3, <2>4, <2>5
<1>5. CASE ChainOk
  <2>1. at = "await" /\ Good(Last) /\ Spawned = limit /\ Returns(Of(Last))
    BY <1>5 DEF ChainOk, Awaited
  <2>2. Moves /\ Stays /\ answer' = Of(Last) /\ (OkIsEarned' => BodyInv')
    BY <2>1, AnswersHaveType, ReturnsKeep
       DEF Kids, Last, CombInv, BodyInv, InOrder
  <2>3. OkIsEarned'
    BY <2>1, <2>2
       DEF OkIsEarned, Ended, Moves, Stays, CombInv, BodyInv, InOrder, Settled,
         Kids, Last, Good, Bad, Bounds, CombTypeOK
  <2> QED BY <2>2, <2>3
<1> QED BY <1>1, <1>2, <1>3, <1>4, <1>5 DEF Chain

(***************************************************************************)
(* The theorems.                                                           *)
(***************************************************************************)

\* A combinator keeps count of its children, works on them in order and knows
\* how they ended, whatever they and the flag do meanwhile.
THEOREM CombinatorInvariant == CombSpec => []CombInv
<1>1. CombInit => CombInv
  <2> SUFFICES ASSUME CombInit PROVE CombInv  OBVIOUS
  <2>1. IInv  BY InitIInv DEF CombInit
  <2>2. Spawned = 0 /\ answer = NoAnswer /\ late = 0 /\ at = "head"
    BY DEF CombInit, Init, Spawned
  <2>3. Bounds
    BY <2>2, MaxNodesAssumption
       DEF CombInit, Bounds, CombTypeOK, NoAnswer
  <2>4. InOrder /\ Decided /\ OkIsEarned /\ ErrHasItsCause /\ Lateness
    BY <2>2 DEF InOrder, Kids, Decided, OkIsEarned, ErrHasItsCause, Ended, Lateness
  <2> QED BY <2>1, <2>3, <2>4 DEF CombInv, BodyInv
<1>2. CombInv /\ [CombNext]_allVars => CombInv'
  <2> SUFFICES ASSUME CombInv, [CombNext]_allVars PROVE CombInv'  OBVIOUS
  <2>1. CASE ~Body  BY <2>1, OthersKeep
  <2>2. CASE Body
    <3>1. BodyInv'
      BY <2>2, RetryKeeps, RefineKeeps, MapKeeps, ChainKeeps DEF Body
    <3> QED BY <3>1, IInvOfStep DEF CombInv
  <2> QED BY <2>1, <2>2
<1> QED BY <1>1, <1>2, PTL DEF CombSpec

\* Retry, Refine and the chains never have two children under way.
THEOREM ChildrenTakeTurns == CombSpec => []OneChildAtATime
<1>1. CombInv => OneChildAtATime
  <2> SUFFICES ASSUME CombInv, kind # "map", NEW c \in Kids, c # Last
               PROVE  terminal[c] \in TerminalStatus \/ pc[c] = "dead"
    BY DEF OneChildAtATime
  <2>1. c \in NodeId
    BY MaxNodesAssumption DEF CombInv, IInv, TypeOK, Kids, Spawned, NodeId
  <2>2. Good(c) \/ Bad(c)
    BY DEF CombInv, BodyInv, InOrder, Settled
  <2> QED BY <2>1, <2>2
        DEF Good, Bad, CombInv, IInv, Phases, NodePhase, HandlePhase,
            RecordPhase, Sealed
<1> QED BY CombinatorInvariant, <1>1, PTL

\* An Ok has behind it the children it needs.
THEOREM SuccessIsEarned == CombSpec => []OkIsEarned
<1>1. CombInv => OkIsEarned  BY DEF CombInv, BodyInv
<1> QED BY CombinatorInvariant, <1>1, PTL

\* An Err names its cause.
THEOREM ErrorsHaveCauses == CombSpec => []ErrHasItsCause
<1>1. CombInv => ErrHasItsCause  BY DEF CombInv, BodyInv
<1> QED BY CombinatorInvariant, <1>1, PTL

\* A cancel lets a loop or a chain spawn one more child at most.
THEOREM CancellationEndsLoops == CombSpec => []CancelEndsTheLoop
<1>1. CombInv => CancelEndsTheLoop
  BY DEF CombInv, BodyInv, Lateness, CancelEndsTheLoop
<1> QED BY CombinatorInvariant, <1>1, PTL
=============================================================================
