--------------------------- MODULE RuntimeProofs ---------------------------
(***************************************************************************)
(* Proofs about the runtime for every number of tasks, every set of keys,  *)
(* types and spawn calls, with or without a cache, panics and shutdown.    *)
(*                                                                         *)
(* A step is a spawn (Register), a step of one task's closure (Local), or  *)
(* leaves everything but the cancel and shutdown flags alone (Quiet). A    *)
(* closure's step changes the private state of no other task (Locality),   *)
(* so each part of the invariant that speaks of one task at a time is      *)
(* proved for the task that moves, one action at a time; the parts that    *)
(* relate tasks rest on what no step ever takes back (FinalOfStep).        *)
(***************************************************************************)
EXTENDS RuntimeInvariant, TLAPS

\* A step of the closure of n.
Local(n) == \/ Step(n) \/ Panic(n) \/ PanicUnderLock(n)
            \/ \E c \in NodeId : Await(n, c)

\* A step that only touches the flags of the environment, or nothing.
Quiet == UNCHANGED <<frontierVars, auditVars, cacheVars, closureVars,
                     pc, req, waits, handle>>

\* Nothing that is private to m changes.
Same(m) ==
    /\ status'[m] = status[m] /\ terminal'[m] = terminal[m]
    /\ recOutput'[m] = recOutput[m] /\ pc'[m] = pc[m] /\ req'[m] = req[m]
    /\ outcome'[m] = outcome[m] /\ value'[m] = value[m]
    /\ waits'[m] = waits[m] /\ handle'[m] = handle[m]
    /\ parent'[m] = parent[m]

\* What a step of n's own closure does not take back.
Final(n) ==
    /\ req'[n] = req[n] /\ pc[n] # "absent" /\ pc'[n] # "absent"
    /\ outcome[n] = "ok" => outcome'[n] = "ok"
    /\ recOutput[n] # NoVal => recOutput'[n] = recOutput[n]
    /\ Sealed(n) => terminal'[n] = terminal[n]
    /\ Recorded(n) => Recorded(n)'
    /\ Answered(n) => handle'[n] = handle[n]
    /\ status[n] = "Absent" => status'[n] = "Absent"

(***************************************************************************)
(* One step of a closure.                                                  *)
(***************************************************************************)

\* A closure's step leaves the private state of the other tasks alone.
LEMMA Locality ==
  ASSUME IInv, NEW n \in NodeId, Local(n),
         NEW m \in NodeId, m # n
  PROVE  Same(m)
<1> USE DEF frontierVars, auditVars, cacheVars, envVars, closureVars, IInv,
     TypeOK, Same
<1>1. CASE RecordSpawn(n)  BY <1>1 DEF RecordSpawn, Move
<1>2. CASE CheckCancel(n)  BY <1>2 DEF CheckCancel
<1>3. CASE LookupMiss(n)  BY <1>3 DEF LookupMiss, Move
<1>4. CASE LookupHit(n)  BY <1>4 DEF LookupHit, Move
<1>5. CASE HitSetOutput(n)  BY <1>5 DEF HitSetOutput, Move
<1>6. CASE SetRunning(n)  BY <1>6 DEF SetRunning, Move, SetStatus
<1>7. CASE Succeed(n)  BY <1>7 DEF Succeed, Active, InBody
<1>8. CASE Fail(n)  BY <1>8 DEF Fail, Active, InBody
<1>9. CASE Mark(n)  BY <1>9 DEF Mark, Move, SetStatus
<1>10. CASE Unlink(n)  BY <1>10 DEF Unlink, Move, NextStage, RemoveIf
<1>11. CASE SetOutput(n)  BY <1>11 DEF SetOutput, Move
<1>12. CASE CacheInsert(n)  BY <1>12 DEF CacheInsert, Move
<1>13. CASE CachePlaceholder(n)  BY <1>13 DEF CachePlaceholder, Move
<1>14. CASE Seal(n)  BY <1>14 DEF Seal, Move
<1>15. CASE Deliver(n)  BY <1>15 DEF Deliver, Move
<1>16. CASE Drop(n)  BY <1>16 DEF Drop, Die, Active, InBody
<1>17. CASE Panic(n)  BY <1>17 DEF Panic, Die, Active, InBody
<1>18. CASE PanicUnderLock(n)  BY <1>18 DEF PanicUnderLock, Die
<1>19. CASE \E c \in NodeId : Await(n, c)  BY <1>19 DEF Await
<1> QED BY <1>1, <1>2, <1>3, <1>4, <1>5, <1>6, <1>7, <1>8, <1>9, <1>10, <1>11,
   <1>12, <1>13, <1>14, <1>15, <1>16, <1>17, <1>18, <1>19
   DEF Local, Step

\* It keeps every variable in its type.
LEMMA TypeOfStep ==
  ASSUME IInv, NEW n \in NodeId, Local(n)
  PROVE  TypeOK'
<1> USE DEF frontierVars, auditVars, cacheVars, envVars, closureVars, IInv,
     TypeOK, NodeId, Request, Stages, Outcomes, Replies, Values, Phases,
     NodePhase, StatusPhase, RecordPhase, HandlePhase, OutcomePhase,
     DeliveryPhase, Undecided, Ending, LiveStatus, TerminalStatus, StatusOf,
     Sealed, UsesCache, Serializes
<1>1. CASE RecordSpawn(n)
  BY <1>1, RequestAssumption, SentinelAssumption DEF RecordSpawn, Move
<1>2. CASE CheckCancel(n)
  BY <1>2, RequestAssumption, SentinelAssumption DEF CheckCancel
<1>3. CASE LookupMiss(n)
  BY <1>3, RequestAssumption, SentinelAssumption DEF LookupMiss, Move
<1>4. CASE LookupHit(n)
  BY <1>4, RequestAssumption, SentinelAssumption DEF LookupHit, Move
<1>5. CASE HitSetOutput(n)
  BY <1>5, RequestAssumption, SentinelAssumption DEF HitSetOutput, Move
<1>6. CASE SetRunning(n)
  BY <1>6, RequestAssumption, SentinelAssumption
     DEF SetRunning, Move, SetStatus
<1>7. CASE Succeed(n)
  BY <1>7, RequestAssumption, SentinelAssumption DEF Succeed, Active, InBody
<1>8. CASE Fail(n)
  BY <1>8, RequestAssumption, SentinelAssumption DEF Fail, Active, InBody
<1>9. CASE Mark(n)
  BY <1>9, RequestAssumption, SentinelAssumption DEF Mark, Move, SetStatus
<1>10. CASE Unlink(n)
  BY <1>10, RequestAssumption, SentinelAssumption
     DEF Unlink, Move, NextStage, RemoveIf
<1>11. CASE SetOutput(n)
  BY <1>11, RequestAssumption, SentinelAssumption DEF SetOutput, Move
<1>12. CASE CacheInsert(n)
  BY <1>12, RequestAssumption, SentinelAssumption DEF CacheInsert, Move
<1>13. CASE CachePlaceholder(n)
  BY <1>13, RequestAssumption, SentinelAssumption DEF CachePlaceholder, Move
<1>14. CASE Seal(n)
  BY <1>14, RequestAssumption, SentinelAssumption DEF Seal, Move
<1>15. CASE Deliver(n)
  BY <1>15, RequestAssumption, SentinelAssumption DEF Deliver, Move
<1>16. CASE Drop(n)
  BY <1>16, RequestAssumption, SentinelAssumption DEF Drop, Die, Active, InBody
<1>17. CASE Panic(n)
  BY <1>17, RequestAssumption, SentinelAssumption
     DEF Panic, Die, Active, InBody
<1>18. CASE PanicUnderLock(n)
  BY <1>18, RequestAssumption, SentinelAssumption DEF PanicUnderLock, Die
<1>19. CASE \E c \in NodeId : Await(n, c)
  BY <1>19, RequestAssumption, SentinelAssumption DEF Await
<1> QED BY <1>1, <1>2, <1>3, <1>4, <1>5, <1>6, <1>7, <1>8, <1>9, <1>10, <1>11,
   <1>12, <1>13, <1>14, <1>15, <1>16, <1>17, <1>18, <1>19
   DEF Local, Step

\* It keeps the task's stage in line with the frontier, the log and the handle.
LEMMA PhaseOfStep ==
  ASSUME IInv, NEW n \in NodeId, Local(n)
  PROVE  NodePhase(n)'
<1> USE DEF frontierVars, auditVars, cacheVars, envVars, closureVars, IInv,
     TypeOK, Phases, NodePhase, StatusPhase, RecordPhase, HandlePhase,
     OutcomePhase, DeliveryPhase, Undecided, Ending, LiveStatus,
     TerminalStatus, StatusOf, Sealed, UsesCache, Serializes, Replies
<1>1. CASE RecordSpawn(n)  BY <1>1 DEF RecordSpawn, Move
<1>2. CASE CheckCancel(n)  BY <1>2 DEF CheckCancel
<1>3. CASE LookupMiss(n)  BY <1>3 DEF LookupMiss, Move
<1>4. CASE LookupHit(n)  BY <1>4 DEF LookupHit, Move
<1>5. CASE HitSetOutput(n)  BY <1>5 DEF HitSetOutput, Move
<1>6. CASE SetRunning(n)  BY <1>6 DEF SetRunning, Move, SetStatus
<1>7. CASE Succeed(n)  BY <1>7 DEF Succeed, Active, InBody
<1>8. CASE Fail(n)  BY <1>8 DEF Fail, Active, InBody
<1>9. CASE Mark(n)  BY <1>9 DEF Mark, Move, SetStatus
<1>10. CASE Unlink(n)  BY <1>10 DEF Unlink, Move, NextStage, RemoveIf
<1>11. CASE SetOutput(n)  BY <1>11 DEF SetOutput, Move
<1>12. CASE CacheInsert(n)  BY <1>12 DEF CacheInsert, Move
<1>13. CASE CachePlaceholder(n)  BY <1>13 DEF CachePlaceholder, Move
<1>14. CASE Seal(n)  BY <1>14 DEF Seal, Move
<1>15. CASE Deliver(n)  BY <1>15 DEF Deliver, Move, Carried, Carries
<1>16. CASE Drop(n)  BY <1>16 DEF Drop, Die, Active, InBody
<1>17. CASE Panic(n)  BY <1>17, SMTT(40) DEF Panic, Die, Active, InBody
<1>18. CASE PanicUnderLock(n)  BY <1>18 DEF PanicUnderLock, Die
<1>19. CASE \E c \in NodeId : Await(n, c)  BY <1>19 DEF Await
<1> QED BY <1>1, <1>2, <1>3, <1>4, <1>5, <1>6, <1>7, <1>8, <1>9, <1>10, <1>11,
   <1>12, <1>13, <1>14, <1>15, <1>16, <1>17, <1>18, <1>19
   DEF Local, Step

\* It takes back nothing that was closed, recorded or answered.
LEMMA FinalOfStep ==
  ASSUME IInv, NEW n \in NodeId, Local(n)
  PROVE  Final(n) /\ UNCHANGED <<nextId, parent>>
<1> USE DEF frontierVars, auditVars, cacheVars, envVars, closureVars, IInv,
     TypeOK, Phases, Final, Recorded, Answered, Replies, Stages, NodePhase,
     StatusPhase, RecordPhase, HandlePhase, OutcomePhase, DeliveryPhase,
     Undecided, Ending, LiveStatus, TerminalStatus, StatusOf, Sealed,
     UsesCache, Serializes
<1>1. CASE RecordSpawn(n)  BY <1>1 DEF RecordSpawn, Move
<1>2. CASE CheckCancel(n)  BY <1>2 DEF CheckCancel
<1>3. CASE LookupMiss(n)  BY <1>3 DEF LookupMiss, Move
<1>4. CASE LookupHit(n)  BY <1>4 DEF LookupHit, Move
<1>5. CASE HitSetOutput(n)  BY <1>5 DEF HitSetOutput, Move, Carried, Carries
<1>6. CASE SetRunning(n)  BY <1>6 DEF SetRunning, Move, SetStatus
<1>7. CASE Succeed(n)  BY <1>7 DEF Succeed, Active, InBody
<1>8. CASE Fail(n)  BY <1>8 DEF Fail, Active, InBody
<1>9. CASE Mark(n)  BY <1>9 DEF Mark, Move, SetStatus
<1>10. CASE Unlink(n)  BY <1>10 DEF Unlink, Move, NextStage, RemoveIf
<1>11. CASE SetOutput(n)  BY <1>11 DEF SetOutput, Move, Carried, Carries
<1>12. CASE CacheInsert(n)  BY <1>12 DEF CacheInsert, Move
<1>13. CASE CachePlaceholder(n)  BY <1>13 DEF CachePlaceholder, Move
<1>14. CASE Seal(n)  BY <1>14 DEF Seal, Move
<1>15. CASE Deliver(n)  BY <1>15 DEF Deliver, Move
<1>16. CASE Drop(n)  BY <1>16 DEF Drop, Die, Active, InBody
<1>17. CASE Panic(n)  BY <1>17 DEF Panic, Die, Active, InBody
<1>18. CASE PanicUnderLock(n)  BY <1>18 DEF PanicUnderLock, Die
<1>19. CASE \E c \in NodeId : Await(n, c)  BY <1>19 DEF Await, Active, InBody
<1> QED BY <1>1, <1>2, <1>3, <1>4, <1>5, <1>6, <1>7, <1>8, <1>9, <1>10, <1>11,
   <1>12, <1>13, <1>14, <1>15, <1>16, <1>17, <1>18, <1>19
   DEF Local, Step

\* A parent does not leave its body while a child is being recorded.
LEMMA FamilyOfStep ==
  ASSUME IInv, NEW n \in NodeId, Local(n)
  PROVE  FamilyPhase'
<1> USE DEF frontierVars, auditVars, cacheVars, envVars, closureVars, IInv,
     TypeOK, FamilyPhase
<1>1. CASE RecordSpawn(n)  BY <1>1, SentinelAssumption DEF RecordSpawn, Move
<1>2. CASE CheckCancel(n)  BY <1>2, SentinelAssumption DEF CheckCancel
<1>3. CASE LookupMiss(n)  BY <1>3, SentinelAssumption DEF LookupMiss, Move
<1>4. CASE LookupHit(n)  BY <1>4, SentinelAssumption DEF LookupHit, Move
<1>5. CASE HitSetOutput(n)  BY <1>5, SentinelAssumption DEF HitSetOutput, Move
<1>6. CASE SetRunning(n)
  BY <1>6, SentinelAssumption DEF SetRunning, Move, SetStatus
<1>7. CASE Succeed(n)  BY <1>7, SentinelAssumption DEF Succeed, Active, InBody
<1>8. CASE Fail(n)  BY <1>8, SentinelAssumption DEF Fail, Active, InBody
<1>9. CASE Mark(n)  BY <1>9, SentinelAssumption DEF Mark, Move, SetStatus
<1>10. CASE Unlink(n)
  BY <1>10, SentinelAssumption DEF Unlink, Move, NextStage, RemoveIf
<1>11. CASE SetOutput(n)  BY <1>11, SentinelAssumption DEF SetOutput, Move
<1>12. CASE CacheInsert(n)  BY <1>12, SentinelAssumption DEF CacheInsert, Move
<1>13. CASE CachePlaceholder(n)
  BY <1>13, SentinelAssumption DEF CachePlaceholder, Move
<1>14. CASE Seal(n)  BY <1>14, SentinelAssumption DEF Seal, Move
<1>15. CASE Deliver(n)  BY <1>15, SentinelAssumption DEF Deliver, Move
<1>16. CASE Drop(n)  BY <1>16, SentinelAssumption DEF Drop, Die, Active, InBody
<1>17. CASE Panic(n)
  BY <1>17, SentinelAssumption DEF Panic, Die, Active, InBody
<1>18. CASE PanicUnderLock(n)
  BY <1>18, SentinelAssumption DEF PanicUnderLock, Die
<1>19. CASE \E c \in NodeId : Await(n, c)
  BY <1>19, SentinelAssumption DEF Await
<1> QED BY <1>1, <1>2, <1>3, <1>4, <1>5, <1>6, <1>7, <1>8, <1>9, <1>10, <1>11,
   <1>12, <1>13, <1>14, <1>15, <1>16, <1>17, <1>18, <1>19
   DEF Local, Step

\* What a closure carries is its own output or a successful one of its key.
LEMMA CarriesOfStep ==
  ASSUME IInv, NEW n \in NodeId, Local(n)
  PROVE  Carries(n)'
<1> USE DEF frontierVars, auditVars, cacheVars, envVars, closureVars, IInv,
     TypeOK, Values, Phases, Carried, Carries, CacheSound, NodePhase,
     OutcomePhase, Undecided, UsesCache, Serializes
<1>1. CASE RecordSpawn(n)  BY <1>1, SentinelAssumption DEF RecordSpawn, Move
<1>2. CASE CheckCancel(n)  BY <1>2, SentinelAssumption DEF CheckCancel
<1>3. CASE LookupMiss(n)  BY <1>3, SentinelAssumption DEF LookupMiss, Move
<1>4. CASE LookupHit(n)
  BY <1>4, SentinelAssumption, RequestAssumption DEF LookupHit, Move, Request
<1>5. CASE HitSetOutput(n)  BY <1>5, SentinelAssumption DEF HitSetOutput, Move
<1>6. CASE SetRunning(n)
  BY <1>6, SentinelAssumption DEF SetRunning, Move, SetStatus
<1>7. CASE Succeed(n)
  BY <1>7, SentinelAssumption, RequestAssumption
     DEF Succeed, Active, InBody, Request
<1>8. CASE Fail(n)  BY <1>8, SentinelAssumption DEF Fail, Active, InBody
<1>9. CASE Mark(n)  BY <1>9, SentinelAssumption DEF Mark, Move, SetStatus
<1>10. CASE Unlink(n)
  BY <1>10, SentinelAssumption DEF Unlink, Move, NextStage, RemoveIf
<1>11. CASE SetOutput(n)  BY <1>11, SentinelAssumption DEF SetOutput, Move
<1>12. CASE CacheInsert(n)  BY <1>12, SentinelAssumption DEF CacheInsert, Move
<1>13. CASE CachePlaceholder(n)
  BY <1>13, SentinelAssumption DEF CachePlaceholder, Move
<1>14. CASE Seal(n)  BY <1>14, SentinelAssumption DEF Seal, Move
<1>15. CASE Deliver(n)  BY <1>15, SentinelAssumption DEF Deliver, Move
<1>16. CASE Drop(n)  BY <1>16, SentinelAssumption DEF Drop, Die, Active, InBody
<1>17. CASE Panic(n)
  BY <1>17, SentinelAssumption DEF Panic, Die, Active, InBody
<1>18. CASE PanicUnderLock(n)
  BY <1>18, SentinelAssumption DEF PanicUnderLock, Die
<1>19. CASE \E c \in NodeId : Await(n, c)
  BY <1>19, SentinelAssumption DEF Await
<1> QED BY <1>1, <1>2, <1>3, <1>4, <1>5, <1>6, <1>7, <1>8, <1>9, <1>10, <1>11,
   <1>12, <1>13, <1>14, <1>15, <1>16, <1>17, <1>18, <1>19
   DEF Local, Step

\* A body moves on only when the child it awaits has answered.
LEMMA WaitsOfStep ==
  ASSUME IInv, NEW n \in NodeId, Local(n),
         \A m \in NodeId : Answered(m) => Answered(m)'
  PROVE  WaitsOK'
<1> USE DEF frontierVars, auditVars, cacheVars, envVars, closureVars, IInv,
     TypeOK, WaitsOK
<1>1. CASE RecordSpawn(n)  BY <1>1, SentinelAssumption DEF RecordSpawn, Move
<1>2. CASE CheckCancel(n)  BY <1>2, SentinelAssumption DEF CheckCancel
<1>3. CASE LookupMiss(n)  BY <1>3, SentinelAssumption DEF LookupMiss, Move
<1>4. CASE LookupHit(n)  BY <1>4, SentinelAssumption DEF LookupHit, Move
<1>5. CASE HitSetOutput(n)  BY <1>5, SentinelAssumption DEF HitSetOutput, Move
<1>6. CASE SetRunning(n)
  BY <1>6, SentinelAssumption DEF SetRunning, Move, SetStatus
<1>7. CASE Succeed(n)  BY <1>7, SentinelAssumption DEF Succeed, Active, InBody
<1>8. CASE Fail(n)  BY <1>8, SentinelAssumption DEF Fail, Active, InBody
<1>9. CASE Mark(n)  BY <1>9, SentinelAssumption DEF Mark, Move, SetStatus
<1>10. CASE Unlink(n)
  BY <1>10, SentinelAssumption DEF Unlink, Move, NextStage, RemoveIf
<1>11. CASE SetOutput(n)  BY <1>11, SentinelAssumption DEF SetOutput, Move
<1>12. CASE CacheInsert(n)  BY <1>12, SentinelAssumption DEF CacheInsert, Move
<1>13. CASE CachePlaceholder(n)
  BY <1>13, SentinelAssumption DEF CachePlaceholder, Move
<1>14. CASE Seal(n)  BY <1>14, SentinelAssumption DEF Seal, Move
<1>15. CASE Deliver(n)  BY <1>15, SentinelAssumption DEF Deliver, Move
<1>16. CASE Drop(n)  BY <1>16, SentinelAssumption DEF Drop, Die, Active, InBody
<1>17. CASE Panic(n)
  BY <1>17, SentinelAssumption DEF Panic, Die, Active, InBody
<1>18. CASE PanicUnderLock(n)
  BY <1>18, SentinelAssumption DEF PanicUnderLock, Die
<1>19. CASE \E c \in NodeId : Await(n, c)
  BY <1>19, SentinelAssumption DEF Await, Active, InBody
<1> QED BY <1>1, <1>2, <1>3, <1>4, <1>5, <1>6, <1>7, <1>8, <1>9, <1>10, <1>11,
   <1>12, <1>13, <1>14, <1>15, <1>16, <1>17, <1>18, <1>19
   DEF Local, Step

\* Only two of its steps touch the lists of children or who is listed.
LEMMA KinOfStep ==
  ASSUME IInv, NEW n \in NodeId, Local(n)
  PROVE  \/ RecordSpawn(n) \/ Unlink(n)
         \/ /\ UNCHANGED <<recChildren, frontChildren, parent>>
            /\ Recorded(n)' <=> Recorded(n)
            /\ status'[n] = "Absent" <=> status[n] = "Absent"
<1> USE DEF frontierVars, auditVars, cacheVars, envVars, closureVars, IInv,
     TypeOK, Phases, Recorded, NodePhase, StatusPhase, RecordPhase,
     HandlePhase, OutcomePhase, DeliveryPhase, Undecided, Ending, LiveStatus,
     TerminalStatus, StatusOf, Sealed, UsesCache, Serializes, Stages
<1>1. CASE RecordSpawn(n)  BY <1>1 DEF RecordSpawn, Move
<1>2. CASE CheckCancel(n)  BY <1>2 DEF CheckCancel
<1>3. CASE LookupMiss(n)  BY <1>3 DEF LookupMiss, Move
<1>4. CASE LookupHit(n)  BY <1>4 DEF LookupHit, Move
<1>5. CASE HitSetOutput(n)  BY <1>5 DEF HitSetOutput, Move
<1>6. CASE SetRunning(n)  BY <1>6 DEF SetRunning, Move, SetStatus
<1>7. CASE Succeed(n)  BY <1>7 DEF Succeed, Active, InBody
<1>8. CASE Fail(n)  BY <1>8 DEF Fail, Active, InBody
<1>9. CASE Mark(n)  BY <1>9 DEF Mark, Move, SetStatus
<1>10. CASE Unlink(n)  BY <1>10 DEF Unlink, Move, NextStage, RemoveIf
<1>11. CASE SetOutput(n)  BY <1>11 DEF SetOutput, Move
<1>12. CASE CacheInsert(n)  BY <1>12 DEF CacheInsert, Move
<1>13. CASE CachePlaceholder(n)  BY <1>13 DEF CachePlaceholder, Move
<1>14. CASE Seal(n)  BY <1>14 DEF Seal, Move
<1>15. CASE Deliver(n)  BY <1>15 DEF Deliver, Move
<1>16. CASE Drop(n)  BY <1>16 DEF Drop, Die, Active, InBody
<1>17. CASE Panic(n)  BY <1>17 DEF Panic, Die, Active, InBody
<1>18. CASE PanicUnderLock(n)  BY <1>18 DEF PanicUnderLock, Die
<1>19. CASE \E c \in NodeId : Await(n, c)  BY <1>19 DEF Await
<1> QED BY <1>1, <1>2, <1>3, <1>4, <1>5, <1>6, <1>7, <1>8, <1>9, <1>10, <1>11,
   <1>12, <1>13, <1>14, <1>15, <1>16, <1>17, <1>18, <1>19
   DEF Local, Step

\* The log's tree stays the spawn tree.
LEMMA LineageOfStep ==
  ASSUME IInv, NEW n \in NodeId, Local(n)
  PROVE  LineageComplete' /\ NoStaleChildren'
<1>1. \A m \in NodeId : m # n => Same(m)  BY Locality
<1>2. CASE RecordSpawn(n)
  <2>1. /\ UNCHANGED <<status, parent, frontChildren>>
        /\ Recorded(n)'
        /\ \A m \in NodeId : m # n => (Recorded(m)' <=> Recorded(m))
    BY <1>2, <1>1 DEF RecordSpawn, Move, frontierVars, IInv, TypeOK, Same,
         Recorded
  <2>2. \A p, c \in NodeId : c \in recChildren'[p] <=>
            c \in recChildren[p] \/ (c = n /\ p = parent[n])
    <3>1. parent[n] # NoNode =>
             parent[n] \in NodeId /\ terminal[parent[n]] # "Unrecorded"
      BY <1>2 DEF RecordSpawn, Move, IInv, TypeOK, FamilyPhase, Phases,
           NodePhase, RecordPhase
    <3>2. recChildren[n] = {} /\ parent[n] # n
      <4>1. pc[n] = "registered" /\ recChildren[n] \subseteq NodeId
        BY <1>2 DEF RecordSpawn, Move, IInv, TypeOK
      <4>2. \A c \in NodeId : parent[c] = n => FALSE
        BY <4>1, SentinelAssumption DEF IInv, FamilyPhase
      <4> QED BY <4>1, <4>2 DEF IInv, LineageComplete
    <3> DEFINE empty == [recChildren EXCEPT ![n] = {}]
    <3>3. /\ parent[n] = NoNode => recChildren' = empty
          /\ parent[n] # NoNode =>
                recChildren' = [empty EXCEPT ![parent[n]] = @ \cup {n}]
      BY <3>1, <1>2 DEF RecordSpawn
    <3>4. empty = recChildren  BY <3>2 DEF IInv, TypeOK
    <3> QED BY <3>1, <3>3, <3>4, SentinelAssumption DEF IInv, TypeOK
  <2>3. LineageComplete'
    BY <2>1, <2>2 DEF IInv, LineageComplete
  <2> QED BY <2>1, <2>3 DEF IInv, NoStaleChildren
<1>3. CASE Unlink(n)
  <2>1. /\ UNCHANGED <<recChildren, terminal, parent>>
        /\ status'[n] = "Absent" /\ frontChildren' = [frontChildren EXCEPT ![n]
             = {}]
    BY <1>3 DEF Unlink, Move, RemoveIf, auditVars, IInv, TypeOK, Phases,
         NodePhase, StatusPhase, StatusOf, TerminalStatus
  <2> QED BY <2>1, <1>1
     DEF IInv, TypeOK, LineageComplete, NoStaleChildren, Recorded, Same
<1>4. CASE /\ UNCHANGED <<recChildren, frontChildren, parent>>
           /\ Recorded(n)' <=> Recorded(n)
           /\ status'[n] = "Absent" <=> status[n] = "Absent"
  <2>1. \A m \in NodeId : /\ Recorded(m)' <=> Recorded(m)
                          /\ status'[m] = "Absent" <=> status[m] = "Absent"
    BY <1>1, <1>4 DEF Same, Recorded
  <2> QED BY <2>1, <1>4 DEF IInv, LineageComplete, NoStaleChildren
<1> QED BY <1>2, <1>3, <1>4, KinOfStep

\* The cache stays sound: only an Ok closure inserts, under its own key.
LEMMA CacheOfStep ==
  ASSUME IInv, NEW n \in NodeId, Local(n),
         \A w \in NodeId : /\ outcome[w] = "ok" => outcome'[w] = "ok"
                           /\ req'[w] = req[w]
  PROVE  CacheSound'
<1>1. CacheInsert(n) \/ UNCHANGED cache
  BY DEF Local, Step, RecordSpawn, CheckCancel, LookupMiss, LookupHit,
       HitSetOutput, SetRunning, Succeed, Fail, Mark, Unlink, RemoveIf,
       SetOutput, CachePlaceholder, Seal, Deliver, Drop, Panic, PanicUnderLock,
       Die, Await, cacheVars
<1>2. CASE CacheInsert(n)
  BY <1>2, SentinelAssumption
     DEF CacheInsert, Move, closureVars, IInv, TypeOK, Values, Phases,
       NodePhase, OutcomePhase, UsesCache, CacheSound, Carried, Carries
<1>3. CASE UNCHANGED cache
  BY <1>3 DEF IInv, TypeOK, Values, CacheSound
<1> QED BY <1>1, <1>2, <1>3

\* A closure's step keeps the invariant.
LEMMA LocalKeepsIInv ==
  ASSUME IInv, NEW n \in NodeId, Local(n)
  PROVE  IInv'
<1>1. \A m \in NodeId : m # n => Same(m)  BY Locality
<1>2. Final(n) /\ UNCHANGED <<nextId, parent>>  BY FinalOfStep
<1>3. TypeOK'  BY TypeOfStep
<1>4. BirthOrder'  BY <1>1, <1>2 DEF IInv, BirthOrder, Same, Final
<1>5. Phases'
  <2>1. NodePhase(n)'  BY PhaseOfStep
  <2>2. ASSUME NEW m \in NodeId, m # n PROVE NodePhase(m)'
    BY <1>1, <2>2 DEF Same, IInv, Phases, NodePhase, StatusPhase, RecordPhase,
         HandlePhase, OutcomePhase, DeliveryPhase, Sealed, UsesCache,
         Serializes
  <2> QED BY <2>1, <2>2 DEF Phases
<1>6. FamilyPhase'  BY FamilyOfStep
<1>7. LineageComplete' /\ NoStaleChildren'  BY LineageOfStep
<1>8. \A w \in NodeId : /\ outcome[w] = "ok" => outcome'[w] = "ok"
                        /\ req'[w] = req[w]
                        /\ Answered(w) => Answered(w)'
  BY <1>1, <1>2 DEF Same, Final, Answered
<1>9. Carried'
  <2>1. Carries(n)'  BY CarriesOfStep
  <2>2. ASSUME NEW m \in NodeId, m # n PROVE Carries(m)'
    BY <1>1, <1>8, <2>2
       DEF Same, IInv, TypeOK, Values, Carried, Carries, Serializes
  <2> QED BY <2>1, <2>2 DEF Carried
<1>10. CacheSound'  BY <1>8, CacheOfStep
<1>11. WaitsOK'  BY <1>8, WaitsOfStep
<1> QED BY <1>3, <1>4, <1>5, <1>6, <1>7, <1>9, <1>10, <1>11 DEF IInv

(***************************************************************************)
(* The other steps.                                                        *)
(***************************************************************************)

\* A spawn keeps the invariant.
LEMMA RegisterKeepsIInv ==
  ASSUME IInv, NEW p \in NodeId \cup {NoNode}, NEW r \in Requests, Register(p,
       r)
  PROVE  IInv'
<1>0. PICK id \in NodeId : id = nextId
  BY DEF Register
<1>1. /\ id = nextId /\ pc[id] = "absent" /\ nextId' = id + 1
      /\ pc' = [pc EXCEPT ![id] = "registered"]
      /\ req' = [req EXCEPT ![id] = r]
      /\ status' = [status EXCEPT ![id] = "Pending"]
      /\ parent' = [parent EXCEPT ![id] = p]
      /\ UNCHANGED <<auditVars, cacheVars, envVars, closureVars, waits,
           handle>>
  BY <1>0 DEF Register, IInv, BirthOrder, NodeId
<1>2. p # NoNode => /\ p \in NodeId /\ p # id /\ pc[p] = "executing"
                    /\ req[p].body # "reject" /\ status[p] = "Running"
  BY <1>1 DEF Register, Active, InBody, IInv, Phases, NodePhase, StatusPhase
<1>3. \A m \in NodeId : m # id => Same(m)
  BY <1>1 DEF Same, IInv, TypeOK, auditVars, closureVars
<1>4. /\ outcome[id] = "none" /\ recOutput[id] = NoVal
      /\ terminal[id] = "Unrecorded"
      /\ handle[id].tag = "Pending" /\ status[id] = "Absent"
      /\ waits[id] = NoNode /\ parent[id] = NoNode /\ frontChildren[id] = {}
  BY <1>1 DEF IInv, Phases, NodePhase, OutcomePhase, RecordPhase, HandlePhase,
       StatusPhase, Undecided, TypeOK, WaitsOK, FamilyPhase, NoStaleChildren,
       Replies
<1>5. TypeOK'
  BY <1>1, <1>2, MaxNodesAssumption
     DEF Register, IInv, TypeOK, Stages, LiveStatus, NodeId, auditVars,
       cacheVars, envVars, closureVars
<1>6. BirthOrder'
  BY <1>1, MaxNodesAssumption DEF IInv, BirthOrder, TypeOK, NodeId
<1>7. Phases'
  <2>1. NodePhase(id)'
    BY <1>1, <1>4 DEF IInv, TypeOK, NodePhase, StatusPhase, RecordPhase,
         HandlePhase, OutcomePhase, DeliveryPhase, Undecided, Ending, Sealed,
         TerminalStatus, auditVars, closureVars
  <2>2. ASSUME NEW m \in NodeId, m # id PROVE NodePhase(m)'
    BY <1>3, <2>2, <1>1
       DEF Same, IInv, Phases, NodePhase, StatusPhase, RecordPhase,
         HandlePhase, OutcomePhase, DeliveryPhase, Sealed, UsesCache,
         Serializes
  <2> QED BY <2>1, <2>2 DEF Phases
<1>8. FamilyPhase'
  BY <1>1, <1>2, <1>3, <1>4, SentinelAssumption
     DEF IInv, TypeOK, FamilyPhase, Same
<1>9. /\ \A q \in NodeId : q # p => frontChildren'[q] = frontChildren[q]
      /\ \A q, c \in NodeId : c \in frontChildren'[q] <=>
            c \in frontChildren[q] \/ (c = id /\ q = p)
  BY <1>1, <1>2, SentinelAssumption DEF Register, IInv, TypeOK
<1>10. NoStaleChildren'
  <2> SUFFICES ASSUME NEW q \in NodeId, status'[q] = "Absent"
               PROVE  frontChildren'[q] = {}
    BY DEF NoStaleChildren
  <2>1. q # id /\ status[q] = "Absent"
    BY <1>1, <1>3 DEF IInv, TypeOK, Same
  <2>2. q # p  BY <2>1, <1>2, SentinelAssumption
  <2> QED BY <2>1, <2>2, <1>9 DEF IInv, NoStaleChildren
<1>11. LineageComplete'
  BY <1>1, <1>2, <1>3, <1>4, <1>9, SentinelAssumption
     DEF IInv, TypeOK, LineageComplete, Recorded, FamilyPhase, Same, auditVars
<1>12. Carried'
  BY <1>1, <1>3, <1>4
     DEF IInv, TypeOK, Values, Carried, Carries, Serializes, Same, closureVars,
       auditVars
<1>13. CacheSound'
  BY <1>1, <1>4 DEF IInv, TypeOK, Values, CacheSound, closureVars, cacheVars
<1>14. WaitsOK'
  BY <1>1, <1>3, <1>4 DEF IInv, TypeOK, WaitsOK, Answered, Same
<1> QED BY <1>5, <1>6, <1>7, <1>8, <1>10, <1>11, <1>12, <1>13, <1>14 DEF IInv

\* So does a step of the environment, and a stuttering step.
LEMMA QuietKeepsIInv ==
  ASSUME IInv, Quiet, cancelled' \in BOOLEAN, down' \in BOOLEAN
  PROVE  IInv'
<1> USE DEF Quiet, frontierVars, auditVars, cacheVars, closureVars
<1>1. TypeOK'  BY DEF IInv, TypeOK
<1>2. BirthOrder' /\ FamilyPhase' /\ NoStaleChildren' /\ LineageComplete'
  BY DEF IInv, BirthOrder, FamilyPhase, NoStaleChildren, LineageComplete,
       Recorded
<1>3. Phases'
  BY DEF IInv, Phases, NodePhase, StatusPhase, RecordPhase, HandlePhase,
       OutcomePhase, DeliveryPhase, Sealed, UsesCache, Serializes
<1>4. Carried' /\ CacheSound' /\ WaitsOK'
  BY DEF IInv, Carried, Carries, Serializes, CacheSound, WaitsOK, Answered
<1> QED BY <1>1, <1>2, <1>3, <1>4 DEF IInv

\* Every step is one of the three kinds.
LEMMA StepKinds ==
  ASSUME TypeOK, [Next]_vars
  PROVE  \/ \E p \in NodeId \cup {NoNode}, r \in Requests : Register(p, r)
         \/ \E n \in NodeId : Local(n)
         \/ Quiet /\ cancelled' \in BOOLEAN /\ down' \in BOOLEAN
<1>1. CASE Next
  BY <1>1 DEF Next, Spawn, Local, Quiet, ShutDown, Cancel, Reset, TypeOK,
       frontierVars, auditVars, cacheVars, closureVars
<1>2. CASE UNCHANGED vars
  BY <1>2 DEF vars, Quiet, TypeOK, envVars
<1> QED BY <1>1, <1>2

\* The invariant holds of a new runtime.
LEMMA InitIInv == Init => IInv
<1> SUFFICES ASSUME Init PROVE IInv  OBVIOUS
<1> USE DEF Init
<1>0. NoRequest \in Requests  BY RequestAssumption DEF NoRequest
<1>1. TypeOK
  <2>1. nextId \in 0 .. MaxNodes  BY MaxNodesAssumption
  <2>2. handle \in [NodeId -> Replies]  BY DEF Unanswered, Replies
  <2>3. req \in [NodeId -> Requests]  BY <1>0
  <2>4. /\ pc \in [NodeId -> Stages]
        /\ outcome \in [NodeId -> Outcomes]
    BY DEF Stages, Outcomes
  <2>5. /\ frontChildren \in [NodeId -> SUBSET NodeId]
        /\ recChildren \in [NodeId -> SUBSET NodeId]
    OBVIOUS
  <2> QED BY <2>1, <2>2, <2>3, <2>4, <2>5 DEF TypeOK
<1>2. BirthOrder  BY MaxNodesAssumption DEF BirthOrder, NodeId
<1>3. Phases
  BY DEF Phases, NodePhase, StatusPhase, RecordPhase, HandlePhase,
       OutcomePhase, DeliveryPhase, Undecided, Ending, Sealed, TerminalStatus,
       Unanswered
<1>4. FamilyPhase /\ NoStaleChildren /\ LineageComplete /\ WaitsOK
  BY SentinelAssumption
     DEF FamilyPhase, NoStaleChildren, LineageComplete, WaitsOK, Recorded
<1>5. Carried /\ CacheSound
  BY DEF Carried, Carries, CacheSound
<1> QED BY <1>1, <1>2, <1>3, <1>4, <1>5 DEF IInv

(***************************************************************************)
(* The theorems.                                                           *)
(***************************************************************************)

\* IInv holds in every reachable state of every runtime.
THEOREM Invariance == Spec => []IInv
<1>1. IInv /\ [Next]_vars => IInv'
  BY StepKinds, RegisterKeepsIInv, LocalKeepsIInv, QuietKeepsIInv DEF IInv
<1> QED BY InitIInv, <1>1, PTL DEF Spec

\* The frontier, the audit log, the cache and the closures keep their types.
THEOREM TypeCorrectness == Spec => []TypeOK
<1>1. IInv => TypeOK  BY DEF IInv
<1> QED BY Invariance, <1>1, PTL

\* The caller of a task and the reader of the audit log are told the same.
THEOREM RepliesMatchRecords == Spec => []ReplyMatchesRecord
<1>1. IInv => ReplyMatchesRecord
  BY DEF IInv, TypeOK, Phases, NodePhase, RecordPhase, HandlePhase,
       OutcomePhase, DeliveryPhase, Carried, Carries, ReplyMatchesRecord,
       StatusOf, Sealed, TerminalStatus, Undecided, Outcomes, Stages
<1> QED BY Invariance, <1>1, PTL

\* The audit log's parent and child links are exactly the spawn tree.
THEOREM LineageIsComplete == Spec => []LineageComplete
<1>1. IInv => LineageComplete  BY DEF IInv
<1> QED BY Invariance, <1>1, PTL

\* Everything in the cache was put there by a successful task of that key.
THEOREM CacheIsSound == Spec => []CacheSound
<1>1. IInv => CacheSound  BY DEF IInv
<1> QED BY Invariance, <1>1, PTL

\* A caller gets its own task's output or one of the same key, the logged one.
THEOREM RepliesHaveProvenance == Spec => []ReplyProvenance
<1>1. IInv => ReplyProvenance
  BY DEF IInv, Phases, NodePhase, HandlePhase, DeliveryPhase, Carried, Carries,
       ReplyProvenance
<1> QED BY Invariance, <1>1, PTL

\* A task is logged as ended only after the child it awaited was, or was lost.
THEOREM AwaitingOrdersTasks == Spec => []DependencyOrder
<1>1. IInv => DependencyOrder
  BY SentinelAssumption
     DEF IInv, TypeOK, Phases, NodePhase, RecordPhase, HandlePhase, WaitsOK,
       Answered, DependencyOrder, Replies
<1> QED BY Invariance, <1>1, PTL

(***************************************************************************)
(* What no step takes back, and the refinement.                            *)
(***************************************************************************)

\* No step of the runtime rewrites history: the action of HistoryIsFinal.
LEMMA StepKeepsHistory ==
  ASSUME IInv, IInv', [Next]_vars, NEW n \in NodeId
  PROVE  /\ Sealed(n) => terminal'[n] = terminal[n]
         /\ Recorded(n) => /\ recChildren[n] \subseteq recChildren'[n]
                           /\ parent'[n] = parent[n]
         /\ recOutput[n] # NoVal => recOutput'[n] = recOutput[n]
         /\ Answered(n) => handle'[n] = handle[n]
         /\ pc[n] # "absent" /\ status[n] = "Absent" => status'[n] = "Absent"
<1>1. \A m \in NodeId :
         /\ Sealed(m) => terminal'[m] = terminal[m]
         /\ Recorded(m) => Recorded(m)' /\ parent'[m] = parent[m]
         /\ recOutput[m] # NoVal => recOutput'[m] = recOutput[m]
         /\ Answered(m) => handle'[m] = handle[m]
         /\ pc[m] # "absent" /\ status[m] = "Absent" => status'[m] = "Absent"
  <2>1. CASE \E p \in NodeId \cup {NoNode}, r \in Requests : Register(p, r)
    <3>1. PICK p \in NodeId \cup {NoNode}, r \in Requests : Register(p, r)
      BY <2>1
    <3>2. PICK id \in NodeId : id = nextId  BY <3>1 DEF Register
    <3>3. pc[id] = "absent"  BY <3>2 DEF IInv, BirthOrder, NodeId
    <3>4. terminal[id] = "Unrecorded"
      BY <3>3 DEF IInv, Phases, NodePhase, RecordPhase
    <3>5. /\ UNCHANGED <<auditVars, handle>>
          /\ status' = [status EXCEPT ![id] = "Pending"]
          /\ parent' = [parent EXCEPT ![id] = p]
      BY <3>1, <3>2 DEF Register
    <3> QED BY <3>3, <3>4, <3>5 DEF IInv, TypeOK, Recorded, Sealed, auditVars
  <2>2. CASE \E m \in NodeId : Local(m)
    <3>1. PICK m \in NodeId : Local(m)  BY <2>2
    <3>2. Final(m) /\ parent' = parent  BY <3>1, FinalOfStep
    <3>3. \A q \in NodeId : q # m => Same(q)  BY <3>1, Locality
    <3> QED BY <3>2, <3>3 DEF Final, Same, Recorded
  <2>3. CASE Quiet
    BY <2>3 DEF Quiet, frontierVars, auditVars, Recorded
  <2> QED BY <2>1, <2>2, <2>3, StepKinds DEF IInv
<1>2. Recorded(n) => recChildren[n] \subseteq recChildren'[n]
  <2> SUFFICES ASSUME NEW c \in recChildren[n] PROVE c \in recChildren'[n]
    OBVIOUS
  <2>1. c \in NodeId /\ parent[c] = n /\ Recorded(c)
    BY DEF IInv, TypeOK, LineageComplete
  <2> QED BY <2>1, <1>1 DEF IInv, LineageComplete
<1> QED BY <1>1, <1>2

\* Closed records, recorded outputs, links and answers are final, and a task
\* that left the frontier never comes back.
THEOREM HistoryStays == Spec => HistoryIsFinal
<1>1. IInv /\ IInv' /\ [Next]_vars => KeepsHistory
  BY StepKeepsHistory DEF KeepsHistory
<1> QED BY <1>1, Invariance, PTL DEF Spec, HistoryIsFinal

\* Each step of a closure is a step of the abstract lifecycle or a stutter.
LEMMA LocalRefines ==
  ASSUME IInv, IInv', NEW n \in NodeId, Local(n)
  PROVE  [Lifecycle!Next]_Lifecycle!vars
<1> DEFINE log == [m \in NodeId |-> LogOf(m)]
           reply == [m \in NodeId |-> ReplyOf(m)]
<1>1. \A m \in NodeId : m # n => LogOf(m)' = LogOf(m) /\ ReplyOf(m)' =
     ReplyOf(m)
  BY Locality DEF Same, LogOf, ReplyOf
<1>2. /\ log' = [log EXCEPT ![n] = LogOf(n)']
      /\ reply' = [reply EXCEPT ![n] = ReplyOf(n)']
  BY <1>1
<1>3. CASE RecordSpawn(n)
  <2>1. LogOf(n) = "unborn" /\ LogOf(n)' = "open" /\ ReplyOf(n)' = ReplyOf(n)
    BY <1>3 DEF RecordSpawn, Move, LogOf, ReplyOf, IInv, TypeOK, Phases,
                NodePhase, RecordPhase
  <2>2. Lifecycle!Open(n)  BY <2>1, <1>2 DEF Lifecycle!Open
  <2> QED BY <2>2 DEF Lifecycle!Next
<1>4. CASE Seal(n)
  <2>1. LogOf(n) = "open"
    BY <1>4 DEF Seal, Move, LogOf, IInv, TypeOK, Phases, NodePhase,
         RecordPhase,
                Sealed
  <2>2. ReplyOf(n) = "Pending" /\ ReplyOf(n)' = ReplyOf(n)
    BY <1>4 DEF Seal, Move, ReplyOf, IInv, TypeOK, Phases, NodePhase,
                HandlePhase, Replies
  <2>3. LogOf(n)' \in TerminalStatus
    BY <1>4 DEF Seal, LogOf, IInv, TypeOK, StatusOf, TerminalStatus
  <2>4. Lifecycle!Close(n, LogOf(n)')
    BY <2>1, <2>2, <1>2 DEF Lifecycle!Close
  <2> QED BY <2>3, <2>4 DEF Lifecycle!Next, Lifecycle!Ends, TerminalStatus
<1>5. CASE Deliver(n)
  <2>1. ReplyOf(n) = "Pending" /\ LogOf(n)' = LogOf(n)
    BY <1>5 DEF Deliver, Move, auditVars, LogOf, ReplyOf, IInv, TypeOK, Phases,
                NodePhase, HandlePhase, Replies
  <2>2. CASE ReplyOf(n)' = "Ok"
    <3>1. LogOf(n) = "Completed"
      BY <2>2, <1>5 DEF Deliver, Move, LogOf, ReplyOf, IInv, TypeOK, Phases,
             NodePhase, RecordPhase, StatusOf, Sealed, TerminalStatus
    <3> QED BY <3>1, <2>1, <2>2, <1>2 DEF Lifecycle!Return, Lifecycle!Next
  <2>3. CASE ReplyOf(n)' = "Error"
    <3>1. LogOf(n) \in TerminalStatus
      BY <1>5 DEF Deliver, Move, LogOf, IInv, Phases, NodePhase, RecordPhase,
                  Sealed, TerminalStatus
    <3> QED BY <3>1, <2>1, <2>3, <1>2
            DEF Lifecycle!Throw, Lifecycle!Next, Lifecycle!Ends, TerminalStatus
  <2>4. ReplyOf(n)' \in {"Ok", "Error"}
    BY <1>5 DEF Deliver, ReplyOf, IInv, TypeOK
  <2> QED BY <2>2, <2>3, <2>4
<1>6. CASE Drop(n) \/ Panic(n) \/ PanicUnderLock(n)
  <2>1. /\ LogOf(n) = "open" /\ ReplyOf(n) = "Pending"
        /\ LogOf(n)' = LogOf(n) /\ ReplyOf(n)' = "Dropped"
    BY <1>6 DEF Drop, Panic, PanicUnderLock, Die, Active, InBody, auditVars,
                LogOf, ReplyOf, IInv, TypeOK, Phases, NodePhase, RecordPhase,
                HandlePhase, Replies, Sealed, TerminalStatus
  <2> QED BY <2>1, <1>2 DEF Lifecycle!Lose, Lifecycle!Next
<1>7. CASE UNCHANGED <<terminal, handle>>
  BY <1>7 DEF LogOf, ReplyOf, Lifecycle!vars
<1> QED
  BY <1>3, <1>4, <1>5, <1>6, <1>7
  DEF Local, Step, CheckCancel, LookupMiss, LookupHit, HitSetOutput,
       SetRunning,
      Succeed, Fail, Mark, Unlink, RemoveIf, SetOutput, CacheInsert,
      CachePlaceholder, Await, auditVars

\* The runtime implements TaskLifecycle: records open once, close at most once
\* and before the caller is answered; a lost task's record stays open.
THEOREM RefinesLifecycle == Spec => ImplementsLifecycle
<1>1. Init => Lifecycle!Init
  BY DEF Init, Lifecycle!Init, LogOf, ReplyOf, Unanswered
<1>2. IInv /\ IInv' /\ [Next]_vars => [Lifecycle!Next]_Lifecycle!vars
  <2> SUFFICES ASSUME IInv, IInv', [Next]_vars
               PROVE  [Lifecycle!Next]_Lifecycle!vars
    OBVIOUS
  <2>1. CASE \E p \in NodeId \cup {NoNode}, r \in Requests : Register(p, r)
    BY <2>1 DEF Register, auditVars, LogOf, ReplyOf, Lifecycle!vars
  <2>2. CASE Quiet
    BY <2>2 DEF Quiet, auditVars, LogOf, ReplyOf, Lifecycle!vars
  <2> QED BY <2>1, <2>2, LocalRefines, StepKinds DEF IInv
<1> QED BY <1>1, <1>2, Invariance, PTL
   DEF Spec, ImplementsLifecycle, Lifecycle!Spec

(***************************************************************************)
(* Cancellation and memoization.                                           *)
(***************************************************************************)

\* A task that is not past its first poll when the flag is raised never runs
\* while it stays raised.
THEOREM CancellationStops == Spec => CancelStopsNewWork
<1> SUFFICES ASSUME NEW n \in NodeId
             PROVE  Spec =>
               []( cancelled /\ pc[n] \in {"absent", "registered", "queued"}
                   => ([]cancelled => [](pc[n] # "executing")) )
  BY DEF CancelStopsNewWork
<1> DEFINE Stopped == pc[n] \notin {"lookup", "start", "executing"}
<1>1. pc[n] \in {"absent", "registered", "queued"} => Stopped  OBVIOUS
<1>2. Stopped => pc[n] # "executing"  OBVIOUS
<1>3. IInv /\ cancelled /\ Stopped /\ [Next]_vars => Stopped'
  <2> SUFFICES ASSUME IInv, cancelled, Stopped, [Next]_vars PROVE Stopped'
    OBVIOUS
  <2>1. CASE \E p \in NodeId \cup {NoNode}, r \in Requests : Register(p, r)
    BY <2>1 DEF Register, IInv, TypeOK
  <2>2. CASE \E m \in NodeId : Local(m)
    <3>1. PICK m \in NodeId : Local(m)  BY <2>2
    <3>2. CASE m = n
      BY <3>1, <3>2
      DEF Local, Step, RecordSpawn, CheckCancel, LookupMiss, LookupHit,
          HitSetOutput, SetRunning, Succeed, Fail, Mark, Unlink, SetOutput,
          CacheInsert, CachePlaceholder, Seal, Deliver, Drop, Panic,
          PanicUnderLock, Die, Await, RemoveIf, NextStage, Move, IInv, TypeOK
    <3> QED BY <3>1, <3>2, Locality DEF Same
  <2>3. CASE Quiet  BY <2>3 DEF Quiet
  <2> QED BY <2>1, <2>2, <2>3, StepKinds DEF IInv
<1> HIDE DEF Stopped
<1> QED BY <1>1, <1>2, <1>3, Invariance, PTL DEF Spec

\* A task spawned after its key's output was cached does not run, unless a
\* panic has poisoned the cache.
THEOREM MemoizationHolds == Spec => MemoizedWorkIsNotRepeated
<1> SUFFICES ASSUME NEW n \in NodeId, NEW k \in Keys
             PROVE  Spec =>
               []( cache[k] # NoVal /\ pc[n] = "absent"
                   => [](pc[n] = "executing" /\ req[n].key = k => poisoned) )
  BY DEF MemoizedWorkIsNotRepeated
<1> DEFINE Served == /\ cache[k] # NoVal
                     /\ pc[n] \in {"start", "executing"} /\ req[n].key = k
                           => poisoned
<1>1. cache[k] # NoVal /\ pc[n] = "absent" => Served  OBVIOUS
<1>2. Served => (pc[n] = "executing" /\ req[n].key = k => poisoned)  OBVIOUS
<1>3. IInv /\ Served /\ [Next]_vars => Served'
  <2> SUFFICES ASSUME IInv, Served, [Next]_vars PROVE Served'
    OBVIOUS
  <2>1. CASE \E p \in NodeId \cup {NoNode}, r \in Requests : Register(p, r)
    BY <2>1 DEF Register, cacheVars, IInv, TypeOK
  <2>2. CASE \E m \in NodeId : Local(m)
    <3>1. PICK m \in NodeId : Local(m)  BY <2>2
    <3>2. cache'[k] # NoVal /\ (poisoned => poisoned')
      BY <3>1
      DEF Local, Step, RecordSpawn, CheckCancel, LookupMiss, LookupHit,
          HitSetOutput, SetRunning, Succeed, Fail, Mark, Unlink, SetOutput,
          CacheInsert, CachePlaceholder, Seal, Deliver, Drop, Panic,
          PanicUnderLock, Die, Await, RemoveIf, NextStage, Move, cacheVars,
               IInv, TypeOK,
          Phases, NodePhase, OutcomePhase, Carried, Carries
    <3>3. CASE m = n
      <4>1. CacheOn /\ k # NoKey
        BY SentinelAssumption DEF IInv, CacheSound
      <4>2. pc'[n] \in {"start", "executing"} /\ req'[n].key = k => poisoned
        BY <3>1, <3>3, <4>1
        DEF Local, Step, RecordSpawn, CheckCancel, LookupMiss, LookupHit,
            HitSetOutput, SetRunning, Succeed, Fail, Mark, Unlink, SetOutput,
            CacheInsert, CachePlaceholder, Seal, Deliver, Drop, Panic,
            PanicUnderLock, Die, Await, RemoveIf, NextStage, Move, UsesCache,
                 IInv, TypeOK
      <4> QED BY <3>2, <4>2
    <3> QED BY <3>1, <3>2, <3>3, Locality DEF Same
  <2>3. CASE Quiet  BY <2>3 DEF Quiet, cacheVars
  <2> QED BY <2>1, <2>2, <2>3, StepKinds DEF IInv
<1> HIDE DEF Served
<1> QED BY <1>1, <1>2, <1>3, Invariance, PTL DEF Spec
=============================================================================
