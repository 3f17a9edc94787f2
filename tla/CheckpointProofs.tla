-------------------------- MODULE CheckpointProofs --------------------------
(***************************************************************************)
(* Proofs about checkpoint and restore, for every number of tasks, every   *)
(* registry and every moment at which the two copies are taken.            *)
(*                                                                         *)
(* Until the restore the runtime is a runtime like any other, and its      *)
(* invariant holds (the lemmas of RuntimeProofs apply). The new runtime    *)
(* has records without closures, so that invariant does not hold of it;    *)
(* what its history needs is that a closure writes its own rows only.      *)
(***************************************************************************)
EXTENDS Checkpoint, RuntimeProofs

Early == stage \in {"none", "copying", "saved"}
Late  == stage \in {"restoring", "restored", "refused"}

\* A task of which the frontier knows nothing any more has an outcome.
Gone(n) == pc[n] # "absent" /\ status[n] = "Absent" => outcome[n] # "none"

EarlyInv == Early => /\ IInv
                     /\ \A n \in NodeId : Gone(n)
                     /\ \A n \in NodeId : parent[n] # NoNode => parent[n] < n
                     /\ origin = [n \in NodeId |-> NoNode]

\* Between the copies: who was missing from the first one had ended, and so
\* spawned nobody since.
GapInv ==
    stage \in {"copying", "saved"} =>
        /\ gapStart <= nextId
        /\ \A n \in NodeId : n < gapStart /\ n \notin Captured => outcome[n] # "none"
        /\ \A n \in NodeId : n >= gapStart /\ parent[n] # NoNode =>
              parent[n] \in Captured \/ parent[n] >= gapStart

\* The second copy.
SavedInv ==
    stage = "saved" =>
        /\ log = terminal
        /\ \A n \in NodeId : links[n] # NoNode => links[n] = parent[n]

\* What stays as the copies found it: what was audited by the first was not
\* captured, who has to run again was, and a link leads to an older task.
StaticInv ==
    /\ stage \in {"none", "copying"} => owed = {}
    /\ audited \cap Captured = {}
    /\ owed \subseteq Captured
    /\ \A n \in NodeId : links[n] # NoNode => links[n] < n

\* What restore has spawned, and what it has still to spawn.
OriginInv ==
    Late =>
        /\ \A m \in NodeId : origin[m] # NoNode =>
              m < nextId /\ origin[m] \in Captured /\ origin[m] \notin todo
        /\ \A n \in Captured : n \notin todo => \E m \in NodeId : origin[m] = n
        /\ stage = "restored" => todo = {}

Decided == {"hit", "mark", "unlink", "output", "insert", "seal", "deliver", "done"}

\* The new runtime, as far as its log is concerned. Its tasks have no parents,
\* take the old ids in order, and are recorded before the next is spawned.
NewRuntime ==
    Late =>
        /\ nextId \in 0 .. MaxNodes
        /\ pc \in [NodeId -> Stages]
        /\ \A n \in NodeId : pc[n] # "absent" <=> n < nextId
        /\ \A n \in NodeId : pc[n] = "registered" => n + 1 = nextId
        /\ \A n \in NodeId : pc[n] \in Decided => outcome[n] # "none"
        /\ \A n \in NodeId : Rewritten(n) /\ terminal[n] # "None" =>
              pc[n] \in {"deliver", "done"}
        /\ parent = [n \in NodeId |-> NoNode]
        /\ outcome \in [NodeId -> Outcomes]
        /\ recOutput = [n \in NodeId |-> recOutput[n]]

\* Restore has nothing to do before it begins.
IdleInv == Early => todo = {}

CkInv == /\ CkTypeOK /\ IdleInv /\ EarlyInv /\ GapInv /\ SavedInv /\ StaticInv
         /\ OriginInv /\ NewRuntime
         /\ RestoreRedoesUnfinishedWork /\ RecordsAreNotMixed

(***************************************************************************)
(* The steps of the old runtime.                                           *)
(***************************************************************************)

\* A closure has its outcome before its node leaves the frontier, and keeps it.
LEMMA OutcomeOfStep ==
  ASSUME IInv, NEW n \in NodeId, Gone(n), Local(n)
  PROVE  Gone(n)' /\ (outcome[n] # "none" => outcome'[n] # "none")
<1> USE DEF frontierVars, auditVars, cacheVars, envVars, closureVars, IInv,
     TypeOK, Phases, NodePhase, StatusPhase, OutcomePhase, Undecided, Ending,
     LiveStatus, Gone
<1>1. CASE RecordSpawn(n)  BY <1>1 DEF RecordSpawn, Move
<1>2. CASE CheckCancel(n)  BY <1>2 DEF CheckCancel
<1>3. CASE LookupMiss(n)  BY <1>3 DEF LookupMiss, Move
<1>4. CASE LookupHit(n)  BY <1>4 DEF LookupHit, Move
<1>5. CASE HitSetOutput(n)  BY <1>5 DEF HitSetOutput, Move
<1>6. CASE SetRunning(n)  BY <1>6 DEF SetRunning, Move, SetStatus
<1>7. CASE Succeed(n)  BY <1>7 DEF Succeed, Active, InBody
<1>8. CASE Fail(n)  BY <1>8 DEF Fail, Active, InBody
<1>9. CASE Mark(n)  BY <1>9 DEF Mark, Move, SetStatus
<1>10. CASE Unlink(n)  BY <1>10 DEF Unlink, Move, NextStage, RemoveIf
<1>11. CASE SetOutput(n)  BY <1>11 DEF SetOutput, Move
<1>12. CASE CacheInsert(n)  BY <1>12 DEF CacheInsert, Move
<1>13. CASE CachePlaceholder(n)  BY <1>13 DEF CachePlaceholder, Move
<1>14. CASE Seal(n)  BY <1>14 DEF Seal, Move
<1>15. CASE Deliver(n)  BY <1>15 DEF Deliver, Move
<1>16. CASE Drop(n)  BY <1>16 DEF Drop, Die, Active, InBody
<1>17. CASE Panic(n)  BY <1>17 DEF Panic, Die, Active, InBody
<1>18. CASE PanicUnderLock(n)  BY <1>18 DEF PanicUnderLock, Die
<1>19. CASE \E c \in NodeId : Await(n, c)  BY <1>19 DEF Await
<1> QED BY <1>1, <1>2, <1>3, <1>4, <1>5, <1>6, <1>7, <1>8, <1>9, <1>10, <1>11,
   <1>12, <1>13, <1>14, <1>15, <1>16, <1>17, <1>18, <1>19
   DEF Local, Step

\* A spawn: a new id, whose parent is in its body.
LEMMA SpawnOfStep ==
  ASSUME IInv, NEW p \in NodeId \cup {NoNode}, NEW r \in Requests, Register(p, r)
  PROVE  /\ nextId \in NodeId /\ nextId' = nextId + 1
         /\ p # NoNode => pc[p] = "executing" /\ outcome[p] = "none" /\ p < nextId
         /\ \A n \in NodeId : parent'[n] = IF n = nextId THEN p ELSE parent[n]
         /\ outcome' = outcome
         /\ \A n \in NodeId : Gone(n) => Gone(n)'
<1>1. p # NoNode => pc[p] = "executing" /\ outcome[p] = "none" /\ p < nextId
  <2> SUFFICES ASSUME p # NoNode PROVE pc[p] = "executing" /\ outcome[p] = "none" /\ p < nextId
    OBVIOUS
  <2>1. pc[p] = "executing" /\ p \in NodeId
    BY DEF Register, Active, InBody
  <2>2. outcome[p] = "none"
    BY <2>1 DEF IInv, Phases, NodePhase, OutcomePhase, Undecided
  <2>3. p < nextId
    BY <2>1, MaxNodesAssumption DEF IInv, TypeOK, BirthOrder, NodeId
  <2> QED BY <2>1, <2>2, <2>3
<1>2. /\ nextId \in NodeId /\ nextId' = nextId + 1 /\ outcome' = outcome
      /\ parent' = [parent EXCEPT ![nextId] = p]
      /\ status' = [status EXCEPT ![nextId] = "Pending"]
      /\ pc' = [pc EXCEPT ![nextId] = "registered"]
  BY DEF Register, closureVars
<1>3. \A n \in NodeId : parent'[n] = IF n = nextId THEN p ELSE parent[n]
  BY <1>2 DEF IInv, TypeOK
<1>4. \A n \in NodeId : Gone(n) => Gone(n)'
  BY <1>2 DEF IInv, TypeOK, Gone
<1> QED BY <1>1, <1>2, <1>3, <1>4

LEMMA RuntimeStepIsNext ==
  ASSUME RuntimeStep
  PROVE  [Next]_vars /\ UNCHANGED ckVars
BY DEF RuntimeStep, Next

LEMMA EarlySteps ==
  ASSUME CkInv, Early, RuntimeStep
  PROVE  CkInv'
<1>1. IInv /\ \A n \in NodeId : Gone(n) /\ (parent[n] # NoNode => parent[n] < n)
  BY DEF CkInv, EarlyInv
<1>2. [Next]_vars /\ UNCHANGED <<stage, copied, log, outputs, links, calls,
        gapStart, audited, owed, todo, origin>> /\ stage \in {"none", "copying"}
  BY RuntimeStepIsNext DEF ckVars, checkpointVars, RuntimeStep, Running, Early
<1>3. IInv'
  BY <1>1, <1>2, StepKinds, RegisterKeepsIInv, LocalKeepsIInv, QuietKeepsIInv DEF IInv
<1>4. /\ \A n \in NodeId : Gone(n)'
      /\ \A n \in NodeId : outcome[n] # "none" => outcome'[n] # "none"
      /\ \A n \in NodeId : parent'[n] # NoNode => parent'[n] < n
      /\ GapInv'
  <2>1. CASE \E p \in NodeId \cup {NoNode}, r \in Requests : Register(p, r)
    <3>1. PICK p \in NodeId \cup {NoNode}, r \in Requests : Register(p, r)
      BY <2>1
    <3>2. /\ nextId \in NodeId /\ nextId' = nextId + 1
          /\ p # NoNode => pc[p] = "executing" /\ outcome[p] = "none" /\ p < nextId
          /\ \A n \in NodeId : parent'[n] = IF n = nextId THEN p ELSE parent[n]
          /\ outcome' = outcome
          /\ \A n \in NodeId : Gone(n) => Gone(n)'
      BY <1>1, <3>1, SpawnOfStep
    <3>3. GapInv'
      <4> SUFFICES ASSUME stage = "copying"
                   PROVE  /\ gapStart <= nextId'
                          /\ \A n \in NodeId :
                                n < gapStart /\ n \notin Captured => outcome[n] # "none"
                          /\ \A n \in NodeId : n >= gapStart /\ parent'[n] # NoNode =>
                                parent'[n] \in Captured \/ parent'[n] >= gapStart
        BY <1>2, <3>2 DEF GapInv, Captured
      <4>1. GapInv  BY DEF CkInv
      <4>2. gapStart \in Nat /\ NodeId \subseteq Nat
        BY MaxNodesAssumption DEF CkInv, CkTypeOK, NodeId
      <4>3. p # NoNode => p \in Captured \/ p >= gapStart
        BY <3>2, <4>1, <4>2 DEF GapInv
      <4> QED BY <3>2, <4>1, <4>2, <4>3 DEF GapInv
    <3> QED BY <1>1, <3>2, <3>3
  <2>2. CASE \E n \in NodeId : Local(n)
    <3>1. PICK n \in NodeId : Local(n)  BY <2>2
    <3>2. /\ \A m \in NodeId : m # n => Same(m)
          /\ Gone(n)' /\ (outcome[n] # "none" => outcome'[n] # "none")
          /\ UNCHANGED <<nextId, parent>>
      BY <1>1, <3>1, Locality, OutcomeOfStep, FinalOfStep
    <3>3. /\ \A m \in NodeId : Gone(m)'
          /\ \A m \in NodeId : outcome[m] # "none" => outcome'[m] # "none"
      BY <1>1, <3>2 DEF Same, Gone
    <3>4. GapInv'
      BY <1>2, <3>2, <3>3 DEF CkInv, GapInv, Captured
    <3> QED BY <1>1, <3>2, <3>3, <3>4
  <2>3. CASE Quiet
    <3>1. UNCHANGED <<nextId, parent, pc, status, outcome>>
      BY <2>3 DEF Quiet, frontierVars, closureVars
    <3> QED BY <1>1, <1>2, <3>1 DEF Gone, CkInv, GapInv, Captured
  <2> QED BY <1>1, <1>2, <2>1, <2>2, <2>3, StepKinds DEF IInv
<1>5. EarlyInv'
  BY <1>2, <1>3, <1>4 DEF EarlyInv, CkInv, Early
<1>6. CkTypeOK'
  BY <1>2, <1>3, RequestAssumption
     DEF CkTypeOK, CkInv, IInv, TypeOK, Captured
<1>7. ~Late'  BY <1>2 DEF Late
<1>8. /\ SavedInv' /\ StaticInv' /\ OriginInv' /\ NewRuntime'
      /\ RecordsAreNotMixed' /\ IdleInv'
  BY <1>2, <1>7 DEF CkInv, SavedInv, StaticInv, Captured, OriginInv, NewRuntime, RecordsAreNotMixed,
     Late, IdleInv, Early
<1>9. RestoreRedoesUnfinishedWork'
  BY <1>2 DEF CkInv, RestoreRedoesUnfinishedWork
<1> QED BY <1>4, <1>5, <1>6, <1>8, <1>9 DEF CkInv

(***************************************************************************)
(* The two copies.                                                         *)
(***************************************************************************)

LEMMA CopyFrontierKeeps ==
  ASSUME CkInv, CopyFrontier
  PROVE  CkInv'
<1>1. /\ stage = "none" /\ stage' = "copying" /\ copied' = status
      /\ gapStart' = nextId
      /\ audited' = {n \in NodeId : terminal[n] \in TerminalStatus}
      /\ calls' = [n \in NodeId |-> IF copied'[n] = "Absent" THEN NoRequest ELSE req[n]]
      /\ UNCHANGED <<vars, log, outputs, links, owed, todo, origin>>
  BY DEF CopyFrontier
<1>2. IInv /\ \A n \in NodeId : Gone(n)
  BY <1>1 DEF CkInv, EarlyInv, Early
<1>3. IInv' /\ \A n \in NodeId : Gone(n)'
  BY <1>1, <1>2, QuietKeepsIInv
     DEF vars, Quiet, Gone, IInv, TypeOK, envVars, frontierVars, closureVars
<1>4. EarlyInv'
  <2>1. \A n \in NodeId : parent'[n] # NoNode => parent'[n] < n
    BY <1>1 DEF CkInv, EarlyInv, Early, vars, frontierVars
  <2> QED BY <1>1, <1>3, <2>1 DEF CkInv, EarlyInv, Early
<1>5. GapInv'
  <2>1. UNCHANGED <<nextId, parent, outcome, pc, status>>
    BY <1>1 DEF vars, frontierVars, closureVars
  <2>2. \A n \in NodeId : n < nextId => pc[n] # "absent"
    BY <1>2, MaxNodesAssumption DEF IInv, BirthOrder, TypeOK, NodeId
  <2>3. \A n \in NodeId : n >= nextId => parent[n] = NoNode
    BY <1>2 DEF IInv, BirthOrder, FamilyPhase
  <2>4. Captured' = {n \in NodeId : status[n] # "Absent"}
    BY <1>1 DEF Captured
  <2>5. nextId \in Nat  BY <1>2, MaxNodesAssumption DEF IInv, TypeOK
  <2> QED BY <1>1, <1>2, <2>1, <2>2, <2>3, <2>4, <2>5 DEF GapInv, Gone
<1>6. CkTypeOK'
  <2>1. todo = {}  BY <1>1 DEF CkInv, IdleInv, Early
  <2>2. NoRequest \in Requests  BY RequestAssumption DEF NoRequest
  <2>3. UNCHANGED <<nextId, req, terminal, recChildren>>
    BY <1>1 DEF vars, frontierVars, auditVars
  <2>4. /\ copied' \in [NodeId -> LiveStatus \cup TerminalStatus \cup {"Absent"}]
        /\ gapStart' \in 0 .. MaxNodes
        /\ calls' \in [NodeId -> Requests]
    BY <1>1, <1>2, <2>2 DEF IInv, TypeOK
  <2> QED BY <1>1, <2>1, <2>3, <2>4 DEF CkInv, CkTypeOK, CheckpointStages
<1>7. /\ SavedInv' /\ OriginInv' /\ NewRuntime'
      /\ RecordsAreNotMixed' /\ IdleInv'
  BY <1>1 DEF SavedInv, OriginInv, NewRuntime, RecordsAreNotMixed, IdleInv, Early, Late,
     CkInv
<1>8. RestoreRedoesUnfinishedWork'
  BY <1>1 DEF CkInv, RestoreRedoesUnfinishedWork
<1>9. StaticInv'
  <2>1. \A n \in NodeId : status[n] # "Absent" => terminal[n] \notin TerminalStatus
    BY <1>2 DEF IInv, TypeOK, Phases, NodePhase, StatusPhase, RecordPhase, Sealed
  <2>2. audited' \cap Captured' = {}
    BY <1>1, <2>1 DEF Captured
  <2> QED BY <1>1, <2>2 DEF CkInv, StaticInv
<1> QED BY <1>4, <1>5, <1>6, <1>7, <1>8, <1>9 DEF CkInv

LEMMA CopyLogKeeps ==
  ASSUME CkInv, CopyLog
  PROVE  CkInv'
<1>1. /\ stage = "copying" /\ stage' = "saved"
      /\ log' = terminal /\ outputs' = recOutput
      /\ links' = [n \in NodeId |-> IF InLog(n)' THEN parent[n] ELSE NoNode]
      /\ owed' = Owing
      /\ UNCHANGED <<vars, copied, calls, gapStart, audited, todo, origin>>
  BY DEF CopyLog
<1>2. IInv /\ \A n \in NodeId : Gone(n)
  BY <1>1 DEF CkInv, EarlyInv, Early
<1>3. IInv' /\ \A n \in NodeId : Gone(n)'
  BY <1>1, <1>2, QuietKeepsIInv
     DEF vars, Quiet, Gone, IInv, TypeOK, envVars, frontierVars, closureVars
<1>4. EarlyInv'
  <2>1. \A n \in NodeId : parent'[n] # NoNode => parent'[n] < n
    BY <1>1 DEF CkInv, EarlyInv, Early, vars, frontierVars
  <2> QED BY <1>1, <1>3, <2>1 DEF CkInv, EarlyInv, Early
<1>5. UNCHANGED <<nextId, parent, outcome, req, terminal, recChildren>>
  BY <1>1 DEF vars, frontierVars, closureVars, auditVars
<1>6. GapInv'
  BY <1>1, <1>5 DEF CkInv, GapInv, Captured
<1>7. SavedInv'
  BY <1>1, <1>5 DEF SavedInv
<1>8. CkTypeOK'
  <2>1. /\ log' \in [NodeId -> TerminalStatus \cup {"None", "Unrecorded"}]
        /\ outputs' \in [NodeId -> Values \cup {NoVal}]
    BY <1>1, <1>2 DEF IInv, TypeOK
  <2>2. links' \in [NodeId -> NodeId \cup {NoNode}]
    BY <1>1, <1>2 DEF IInv, TypeOK
  <2>3. stage' \in CheckpointStages  BY <1>1 DEF CheckpointStages
  <2>4. owed' \subseteq NodeId  BY <1>1 DEF Owing
  <2> QED BY <1>1, <1>5, <2>1, <2>2, <2>3, <2>4 DEF CkInv, CkTypeOK, Captured
<1>9. OriginInv' /\ NewRuntime' /\ RecordsAreNotMixed' /\ IdleInv'
  BY <1>1 DEF OriginInv, NewRuntime, RecordsAreNotMixed, IdleInv, Early, Late, CkInv
<1>10. RestoreRedoesUnfinishedWork'
  BY <1>1 DEF CkInv, RestoreRedoesUnfinishedWork
<1>11. StaticInv'
  <2>1. Owing \subseteq Captured
    <3> SUFFICES ASSUME NEW n \in Owing PROVE n \in Captured
      OBVIOUS
    <3>1. n \in NodeId /\ n < gapStart /\ n # NoNode
      BY SentinelAssumption DEF Owing
    <3>2. CASE n \in Unfinished
      BY <1>1, <3>1, <3>2 DEF CkInv, GapInv, Unfinished
    <3>3. CASE \E c \in Unfinished : c >= gapStart /\ parent[c] = n
      <4>1. PICK c \in NodeId : c >= gapStart /\ parent[c] = n
        BY <3>3 DEF Unfinished
      <4>2. gapStart \in Nat /\ n \in Nat
        BY <3>1, MaxNodesAssumption DEF CkInv, CkTypeOK, NodeId
      <4> QED BY <1>1, <3>1, <4>1, <4>2 DEF CkInv, GapInv
    <3> QED BY <3>2, <3>3 DEF Owing
  <2>2. \A n \in NodeId : links'[n] # NoNode => links'[n] < n
    BY <1>1 DEF CkInv, EarlyInv, Early
  <2>3. Captured' = Captured  BY <1>1 DEF Captured
  <2> QED BY <1>1, <2>1, <2>2, <2>3 DEF CkInv, StaticInv
<1> QED BY <1>4, <1>6, <1>7, <1>8, <1>9, <1>10, <1>11 DEF CkInv

(***************************************************************************)
(* The restore.                                                            *)
(***************************************************************************)

LEMMA RebuildLogKeeps ==
  ASSUME CkInv, RebuildLog
  PROVE  CkInv'
<1>1. stage = "saved" /\ stage' = "restoring"
  BY DEF RebuildLog
<1>2. /\ nextId' = 0 /\ todo' = Captured /\ gapStart' = 0
      /\ parent' = [n \in NodeId |-> NoNode]
      /\ terminal' = [n \in NodeId |-> log[n]]
      /\ recOutput' = [n \in NodeId |-> Reoutput(n)]
      /\ pc' = [n \in NodeId |-> "absent"]
      /\ req' = [n \in NodeId |-> NoRequest]
      /\ outcome' = [n \in NodeId |-> "none"]
      /\ UNCHANGED <<copied, log, outputs, links, calls, audited, owed, origin>>
  BY DEF RebuildLog, Reterminal, ToRespawn
<1>3. PICK behind \in SUBSET {n \in NodeId : InLog(n) /\ links[n] # NoNode} :
         recChildren' = Relink(behind)
  BY DEF RebuildLog
<1>4. origin = [n \in NodeId |-> NoNode]
  BY <1>1 DEF CkInv, EarlyInv, Early
<1>5. NoRequest \in Requests  BY RequestAssumption DEF NoRequest
<1>6. CkTypeOK'
  <2>1. recChildren' \in [NodeId -> SUBSET NodeId]  BY <1>3 DEF Relink
  <2>2. /\ terminal' \in [NodeId -> TerminalStatus \cup {"None", "Unrecorded"}]
        /\ req' \in [NodeId -> Request]
    BY <1>2, <1>5, RequestAssumption DEF CkInv, CkTypeOK
  <2>3. /\ gapStart' \in 0 .. MaxNodes /\ todo' \subseteq Captured'
        /\ stage' \in CheckpointStages
    BY <1>1, <1>2, MaxNodesAssumption DEF Captured, CheckpointStages
  <2> QED BY <1>2, <2>1, <2>2, <2>3 DEF CkInv, CkTypeOK
<1>7. EarlyInv' /\ GapInv' /\ SavedInv' /\ IdleInv' /\ StaticInv'
  BY <1>1, <1>2 DEF EarlyInv, Early, GapInv, SavedInv, IdleInv, StaticInv, CkInv,
     Captured
<1>8. OriginInv'
  BY <1>1, <1>2, <1>4 DEF OriginInv, Captured
<1>9. NewRuntime'
  <2>1. recOutput' = [n \in NodeId |-> recOutput'[n]]  BY <1>2
  <2>2. pc' \in [NodeId -> Stages] /\ outcome' \in [NodeId -> Outcomes]
    BY <1>2 DEF Stages, Outcomes
  <2>3. \A n \in NodeId : /\ pc'[n] = "absent" /\ ~(n < nextId')
                          /\ ~Rewritten(n)'
    BY <1>2, MaxNodesAssumption DEF NodeId, Rewritten
  <2> QED BY <1>2, <2>1, <2>2, <2>3, MaxNodesAssumption DEF NewRuntime, Decided
<1>10. RestoreRedoesUnfinishedWork'
  BY <1>1, <1>2 DEF CkInv, RestoreRedoesUnfinishedWork
<1>11. RecordsAreNotMixed'
  <2>1. \A n \in NodeId : ~Rewritten(n)'  BY <1>2 DEF Rewritten
  <2> QED BY <1>2, <1>3, <2>1 DEF RecordsAreNotMixed, Reoutput, Relink, InLog
<1> QED BY <1>6, <1>7, <1>8, <1>9, <1>10, <1>11 DEF CkInv

\* A revived call is a call, though not one a caller of the old runtime made.
LEMMA RevivedIsRequest ==
  ASSUME NEW r \in Requests
  PROVE  Revived(r) \in Request
BY RequestAssumption DEF Revived, Request

LEMMA RespawnKeeps ==
  ASSUME CkInv, NEW n \in NodeId, Respawn(n)
  PROVE  CkInv'
<1>1. /\ stage = "restoring" /\ n \in todo /\ NotSpawning
      /\ Register(NoNode, Revived(calls[n]))
      /\ todo' = todo \ {n}
      /\ origin' = [origin EXCEPT ![nextId] = n]
      /\ UNCHANGED <<stage, copied, log, outputs, links, calls, gapStart, audited, owed>>
  BY DEF Respawn, checkpointVars
<1>2. PICK id \in NodeId : id = nextId
  BY <1>1 DEF Register
<1>3. /\ nextId' = id + 1
      /\ pc' = [pc EXCEPT ![id] = "registered"]
      /\ req' = [req EXCEPT ![id] = Revived(calls[n])]
      /\ parent' = [parent EXCEPT ![id] = NoNode]
      /\ UNCHANGED <<terminal, recChildren, recOutput, outcome>>
      /\ origin' = [origin EXCEPT ![id] = n]
  BY <1>1, <1>2 DEF Register, auditVars, closureVars
<1>4. /\ CkTypeOK /\ OriginInv /\ NewRuntime /\ Late
      /\ RestoreRedoesUnfinishedWork /\ RecordsAreNotMixed
  BY <1>1 DEF CkInv, Late
<1>5. n \in Captured /\ n # NoNode
  BY <1>1, <1>4, SentinelAssumption DEF CkTypeOK
<1>6. origin[id] = NoNode
  BY <1>2, <1>4, MaxNodesAssumption DEF OriginInv, NodeId
<1>7. Captured' = Captured  BY <1>1 DEF Captured
<1>8. id \in Nat /\ id + 1 \in 0 .. MaxNodes
  BY MaxNodesAssumption DEF NodeId
<1>9. \A m \in NodeId : /\ origin'[m] = IF m = id THEN n ELSE origin[m]
                        /\ pc'[m] = IF m = id THEN "registered" ELSE pc[m]
  BY <1>3, <1>4 DEF CkTypeOK, NewRuntime
<1>10. CkTypeOK'
  <2>1. req' \in [NodeId -> Request]
    <3>1. Revived(calls[n]) \in Request
      BY <1>4, RevivedIsRequest DEF CkTypeOK
    <3> QED BY <1>3, <1>4, <3>1 DEF CkTypeOK
  <2>2. origin' \in [NodeId -> NodeId \cup {NoNode}]
    BY <1>3, <1>4 DEF CkTypeOK
  <2> QED BY <1>1, <1>3, <1>4, <1>7, <2>1, <2>2 DEF CkTypeOK
<1>11. EarlyInv' /\ GapInv' /\ SavedInv' /\ IdleInv' /\ StaticInv'
  BY <1>1, <1>7 DEF EarlyInv, Early, GapInv, SavedInv, IdleInv, StaticInv, CkInv
<1>12. OriginInv'
  <2>1. \A m \in NodeId : origin'[m] # NoNode =>
           m < nextId' /\ origin'[m] \in Captured' /\ origin'[m] \notin todo'
    <3> SUFFICES ASSUME NEW m \in NodeId, origin'[m] # NoNode
                 PROVE m < nextId' /\ origin'[m] \in Captured' /\ origin'[m] \notin todo'
      OBVIOUS
    <3>1. CASE m = id  BY <3>1, <1>1, <1>3, <1>5, <1>7, <1>8, <1>9
    <3>2. CASE m # id
      BY <3>2, <1>1, <1>2, <1>3, <1>4, <1>7, <1>8, <1>9, MaxNodesAssumption
         DEF OriginInv, NodeId
    <3> QED BY <3>1, <3>2
  <2>2. ASSUME NEW c \in Captured, c \notin todo'
        PROVE  \E m \in NodeId : origin'[m] = c
    <3>1. CASE c = n  BY <3>1, <1>9
    <3>2. CASE c # n
      <4>1. PICK m \in NodeId : origin[m] = c
        BY <3>2, <2>2, <1>1, <1>4 DEF OriginInv
      <4>2. m # id  BY <4>1, <1>6, SentinelAssumption DEF Captured
      <4> QED BY <4>1, <4>2, <1>9
    <3> QED BY <3>1, <3>2
  <2> QED BY <2>1, <2>2, <1>1, <1>7 DEF OriginInv
<1>13. NewRuntime'
  <2>1. pc' \in [NodeId -> Stages]  BY <1>3, <1>4 DEF NewRuntime, Stages
  <2>2. parent' = [m \in NodeId |-> NoNode]  BY <1>3, <1>4 DEF NewRuntime
  <2>3. \A m \in NodeId : pc'[m] # "absent" <=> m < nextId'
    BY <1>2, <1>3, <1>4, <1>8, <1>9, MaxNodesAssumption DEF NewRuntime, NodeId
  <2>4. \A m \in NodeId : pc'[m] = "registered" => m + 1 = nextId'
    BY <1>1, <1>3, <1>4, <1>9 DEF NewRuntime, NotSpawning
  <2>5. \A m \in NodeId : /\ pc'[m] \in Decided => pc[m] \in Decided
                          /\ Rewritten(m)' => Rewritten(m) /\ pc'[m] = pc[m]
    BY <1>9 DEF Decided, Rewritten
  <2> QED BY <1>3, <1>4, <1>8, <2>1, <2>2, <2>3, <2>4, <2>5 DEF NewRuntime
<1>14. RestoreRedoesUnfinishedWork'
  <2>1. \A m \in NodeId : origin[m] # n
    BY <1>1, <1>4, <1>5 DEF OriginInv
  <2> QED BY <2>1, <1>1, <1>4, <1>9 DEF RestoreRedoesUnfinishedWork
<1>15. RecordsAreNotMixed'
  <2>1. pc[id] = "absent"
    BY <1>2, <1>4, MaxNodesAssumption DEF NewRuntime, NodeId
  <2>2. \A m \in NodeId : Rewritten(m)' <=> Rewritten(m)
    BY <1>9, <2>1 DEF Rewritten
  <2>3. recChildren \in [NodeId -> SUBSET NodeId]  BY <1>4 DEF CkTypeOK
  <2> QED BY <1>1, <1>3, <1>4, <2>2, <2>3 DEF RecordsAreNotMixed, Late, InLog
<1> QED BY <1>10, <1>11, <1>12, <1>13, <1>14, <1>15 DEF CkInv

\* The new runtime's variables that matter here change in Respawn only.
LEMMA EndOfRestoreKeeps ==
  ASSUME CkInv, Return \/ \E n \in NodeId : Refuse(n)
  PROVE  CkInv'
<1>1. /\ stage = "restoring" /\ stage' \in {"restored", "refused"}
      /\ stage' = "restored" => todo = {}
      /\ UNCHANGED <<vars, copied, log, outputs, links, calls, gapStart, audited, owed, todo, origin>>
  BY DEF Return, Refuse, checkpointVars
<1>2. UNCHANGED <<nextId, parent, terminal, recChildren, recOutput, pc, req, outcome>>
  BY <1>1 DEF vars, frontierVars, auditVars, closureVars
<1>3. /\ CkTypeOK /\ StaticInv /\ OriginInv /\ NewRuntime /\ Late /\ Late'
      /\ RestoreRedoesUnfinishedWork /\ RecordsAreNotMixed
  BY <1>1 DEF CkInv, Late
<1>4. CkTypeOK'  BY <1>1, <1>2, <1>3 DEF CkTypeOK, Captured, CheckpointStages
<1>5. EarlyInv' /\ GapInv' /\ SavedInv' /\ IdleInv' /\ StaticInv'
  BY <1>1, <1>3 DEF EarlyInv, Early, GapInv, SavedInv, IdleInv, StaticInv, Captured
<1>6. OriginInv'  BY <1>1, <1>2, <1>3 DEF OriginInv, Captured
<1>7. NewRuntime'  BY <1>2, <1>3 DEF NewRuntime, Rewritten
<1>8. RestoreRedoesUnfinishedWork'
  BY <1>1, <1>3 DEF RestoreRedoesUnfinishedWork, OriginInv, StaticInv
<1>9. RecordsAreNotMixed'
  BY <1>1, <1>2, <1>3 DEF RecordsAreNotMixed, Late, InLog, Rewritten
<1> QED BY <1>4, <1>5, <1>6, <1>7, <1>8, <1>9 DEF CkInv

(***************************************************************************)
(* The steps of the new runtime.                                           *)
(***************************************************************************)

\* A closure writes its own row of the log only: its task has no parent.
Rows(n) ==
    /\ UNCHANGED <<nextId, parent, req>>
    /\ pc[n] # "absent" /\ pc' \in [NodeId -> Stages]
    /\ terminal' \in [NodeId -> TerminalStatus \cup {"None", "Unrecorded"}]
    /\ recChildren' \in [NodeId -> SUBSET NodeId]
    /\ recOutput' = [m \in NodeId |-> recOutput'[m]]
    /\ outcome' \in [NodeId -> Outcomes]
    /\ \A m \in NodeId : m # n => /\ pc'[m] = pc[m] /\ terminal'[m] = terminal[m]
                                  /\ outcome'[m] = outcome[m]
                                  /\ recOutput'[m] = recOutput[m]
                                  /\ recChildren'[m] = recChildren[m]

LEMMA RowsOfStep ==
  ASSUME CkTypeOK, NewRuntime, Late, NEW n \in NodeId, Local(n)
  PROVE  Rows(n)
<1>1. /\ pc \in [NodeId -> Stages] /\ parent[n] = NoNode
      /\ outcome \in [NodeId -> Outcomes]
      /\ recOutput = [m \in NodeId |-> recOutput[m]]
      /\ terminal \in [NodeId -> TerminalStatus \cup {"None", "Unrecorded"}]
      /\ recChildren \in [NodeId -> SUBSET NodeId]
  BY DEF NewRuntime, CkTypeOK
<1> USE <1>1 DEF frontierVars, auditVars, cacheVars, envVars, closureVars, Rows, Stages,
     Outcomes
<1>2. CASE RecordSpawn(n)  BY <1>2 DEF RecordSpawn, Move
<1>3. CASE CheckCancel(n)  BY <1>3 DEF CheckCancel
<1>4. CASE LookupMiss(n)  BY <1>4 DEF LookupMiss, Move
<1>5. CASE LookupHit(n)  BY <1>5 DEF LookupHit, Move
<1>6. CASE HitSetOutput(n)  BY <1>6 DEF HitSetOutput, Move
<1>7. CASE SetRunning(n)  BY <1>7 DEF SetRunning, Move
<1>8. CASE Succeed(n)  BY <1>8 DEF Succeed, Active, InBody
<1>9. CASE Fail(n)  BY <1>9 DEF Fail, Active, InBody
<1>10. CASE Mark(n)  BY <1>10 DEF Mark, Move
<1>11. CASE Unlink(n)  BY <1>11 DEF Unlink, Move, NextStage, RemoveIf
<1>12. CASE SetOutput(n)  BY <1>12 DEF SetOutput, Move
<1>13. CASE CacheInsert(n)  BY <1>13 DEF CacheInsert, Move
<1>14. CASE CachePlaceholder(n)  BY <1>14 DEF CachePlaceholder, Move
<1>15. CASE Seal(n)  BY <1>15 DEF Seal, Move, StatusOf, TerminalStatus
<1>16. CASE Deliver(n)  BY <1>16 DEF Deliver, Move
<1>17. CASE Drop(n)  BY <1>17 DEF Drop, Die, InBody
<1>18. CASE Panic(n)  BY <1>18 DEF Panic, Die, Active, InBody
<1>19. CASE PanicUnderLock(n)  BY <1>19 DEF PanicUnderLock, Die
<1>20. CASE \E c \in NodeId : Await(n, c)  BY <1>20 DEF Await, Active, InBody
<1> QED BY <1>2, <1>3, <1>4, <1>5, <1>6, <1>7, <1>8, <1>9, <1>10, <1>11, <1>12,
   <1>13, <1>14, <1>15, <1>16, <1>17, <1>18, <1>19, <1>20
   DEF Local, Step

\* What the record of a task of the new runtime says.
OwnRow(n) ==
    /\ pc[n] \in Decided => outcome[n] # "none"
    /\ Rewritten(n) =>
          /\ recChildren[n] = {}
          /\ recOutput[n] # NoVal => outcome[n] # "none"
          /\ terminal[n] # "None" => /\ pc[n] \in {"deliver", "done"}
                                     /\ terminal[n] = StatusOf(outcome[n])

\* A closure's first step writes the row anew, the later ones keep it its own.
LEMMA OwnRowOfStep ==
  ASSUME CkTypeOK, NewRuntime, Late, NEW n \in NodeId, Local(n), OwnRow(n)
  PROVE  OwnRow(n)' /\ Rewritten(n)'
<1>1. /\ pc \in [NodeId -> Stages] /\ parent[n] = NoNode
      /\ outcome \in [NodeId -> Outcomes]
      /\ recOutput = [m \in NodeId |-> recOutput[m]]
      /\ terminal \in [NodeId -> TerminalStatus \cup {"None", "Unrecorded"}]
      /\ recChildren \in [NodeId -> SUBSET NodeId]
  BY DEF NewRuntime, CkTypeOK
<1> USE <1>1 DEF frontierVars, auditVars, cacheVars, envVars, closureVars, OwnRow,
     Rewritten, Decided
<1>2. CASE RecordSpawn(n)  BY <1>2 DEF RecordSpawn, Move
<1>3. CASE CheckCancel(n)  BY <1>3 DEF CheckCancel
<1>4. CASE LookupMiss(n)  BY <1>4 DEF LookupMiss, Move
<1>5. CASE LookupHit(n)  BY <1>5 DEF LookupHit, Move
<1>6. CASE HitSetOutput(n)  BY <1>6 DEF HitSetOutput, Move
<1>7. CASE SetRunning(n)  BY <1>7 DEF SetRunning, Move
<1>8. CASE Succeed(n)  BY <1>8 DEF Succeed, Active, InBody
<1>9. CASE Fail(n)  BY <1>9 DEF Fail, Active, InBody
<1>10. CASE Mark(n)  BY <1>10 DEF Mark, Move
<1>11. CASE Unlink(n)  BY <1>11 DEF Unlink, Move, NextStage, RemoveIf
<1>12. CASE SetOutput(n)  BY <1>12 DEF SetOutput, Move
<1>13. CASE CacheInsert(n)  BY <1>13 DEF CacheInsert, Move
<1>14. CASE CachePlaceholder(n)  BY <1>14 DEF CachePlaceholder, Move
<1>15. CASE Seal(n)  BY <1>15 DEF Seal, Move
<1>16. CASE Deliver(n)  BY <1>16 DEF Deliver, Move
<1>17. CASE Drop(n)  BY <1>17 DEF Drop, Die, InBody
<1>18. CASE Panic(n)  BY <1>18 DEF Panic, Die, Active, InBody
<1>19. CASE PanicUnderLock(n)  BY <1>19 DEF PanicUnderLock, Die
<1>20. CASE \E c \in NodeId : Await(n, c)  BY <1>20 DEF Await, Active, InBody
<1> QED BY <1>2, <1>3, <1>4, <1>5, <1>6, <1>7, <1>8, <1>9, <1>10, <1>11, <1>12,
   <1>13, <1>14, <1>15, <1>16, <1>17, <1>18, <1>19, <1>20
   DEF Local, Step

LEMMA LateSteps ==
  ASSUME CkInv, Late, RuntimeStep
  PROVE  CkInv'
<1>1. PICK n \in NodeId : Local(n)
  BY DEF RuntimeStep, Late, Local
<1>2. UNCHANGED <<stage, copied, log, outputs, links, calls, gapStart, audited, owed, todo, origin>>
  BY DEF RuntimeStep, ckVars, checkpointVars
<1>3. /\ CkTypeOK /\ StaticInv /\ OriginInv /\ NewRuntime /\ Late'
      /\ RestoreRedoesUnfinishedWork /\ RecordsAreNotMixed
  BY <1>2 DEF CkInv, Late
<1>4. Rows(n)  BY <1>1, <1>3, RowsOfStep
<1>5. n < nextId  BY <1>3, <1>4 DEF NewRuntime, Rows
<1>6. \A m \in NodeId : OwnRow(m)
  BY <1>3 DEF Late, NewRuntime, RecordsAreNotMixed, OwnRow
<1>7. OwnRow(n)' /\ Rewritten(n)'
  BY <1>1, <1>3, <1>6, OwnRowOfStep
<1>8. \A m \in NodeId : m # n => /\ OwnRow(m)'
                                 /\ Rewritten(m)' <=> Rewritten(m)
  BY <1>4, <1>6 DEF Rows, OwnRow, Rewritten
<1>9. CkTypeOK'  BY <1>2, <1>3, <1>4 DEF CkTypeOK, Rows, Captured
<1>10. EarlyInv' /\ GapInv' /\ SavedInv' /\ IdleInv' /\ StaticInv'
  BY <1>2, <1>3 DEF Late, EarlyInv, Early, GapInv, SavedInv, IdleInv, StaticInv,
     Captured
<1>11. OriginInv'  BY <1>2, <1>3, <1>4 DEF OriginInv, Rows, Captured, Late
<1>12. NewRuntime'
  <2>1. \A m \in NodeId : pc'[m] # "absent" <=> m < nextId'
    BY <1>3, <1>4, <1>5, <1>7 DEF NewRuntime, Rows, Rewritten
  <2>2. \A m \in NodeId : pc'[m] = "registered" => m + 1 = nextId'
    BY <1>3, <1>4, <1>7 DEF NewRuntime, Rows, Rewritten
  <2>3. \A m \in NodeId : OwnRow(m)'  BY <1>7, <1>8
  <2> QED BY <1>3, <1>4, <2>1, <2>2, <2>3 DEF NewRuntime, Rows, OwnRow
<1>13. RestoreRedoesUnfinishedWork'
  BY <1>2, <1>3 DEF RestoreRedoesUnfinishedWork
<1>14. RecordsAreNotMixed'
  <2> SUFFICES ASSUME NEW m \in NodeId, ~Rewritten(m)'
               PROVE  /\ terminal'[m] = log[m]
                      /\ log[m] = "Completed" => recOutput'[m] = outputs[m]
                      /\ \A c \in recChildren'[m] :
                            links[c] = m /\ InLog(c) /\ ~Rewritten(c)'
    BY <1>2, <1>7, <1>8 DEF RecordsAreNotMixed, OwnRow, InLog
  <2>1. m # n /\ ~Rewritten(m)  BY <1>7, <1>8
  <2>2. /\ terminal[m] = log[m]
        /\ log[m] = "Completed" => recOutput[m] = outputs[m]
        /\ \A c \in recChildren[m] : links[c] = m /\ InLog(c) /\ ~Rewritten(c)
    BY <1>3, <2>1 DEF RecordsAreNotMixed, Late
  <2>3. n \notin recChildren[m]
    <3> SUFFICES ASSUME n \in recChildren[m] PROVE FALSE  OBVIOUS
    <3>1. m < n
      BY <1>3, <2>2, SentinelAssumption DEF StaticInv
    <3>2. pc[m] = "registered"
      BY <1>3, <1>5, <2>1, <3>1, MaxNodesAssumption DEF NewRuntime, Rewritten, NodeId
    <3>3. m + 1 = nextId  BY <1>3, <3>2 DEF NewRuntime
    <3> QED BY <1>3, <1>5, <3>1, <3>3, MaxNodesAssumption DEF NewRuntime, NodeId
  <2>4. recChildren[m] \subseteq NodeId  BY <1>3 DEF CkTypeOK
  <2> QED BY <1>4, <1>8, <2>1, <2>2, <2>3, <2>4 DEF Rows
<1> QED BY <1>9, <1>10, <1>11, <1>12, <1>13, <1>14 DEF CkInv

LEMMA StutteringKeeps ==
  ASSUME CkInv, UNCHANGED allVars
  PROVE  CkInv'
<1>1. UNCHANGED <<stage, copied, log, outputs, links, calls, gapStart, audited, owed, todo, origin>>
  BY DEF allVars, ckVars, checkpointVars
<1>2. UNCHANGED <<nextId, parent, outcome, status, terminal, recChildren, recOutput,
                  pc, req>>
  BY DEF allVars, vars, frontierVars, auditVars, closureVars
<1>3. /\ CkTypeOK' /\ IdleInv' /\ GapInv' /\ SavedInv' /\ StaticInv'
      /\ OriginInv' /\ NewRuntime'
  BY <1>1, <1>2 DEF CkInv, CkTypeOK, IdleInv, GapInv, SavedInv, StaticInv, OriginInv,
     NewRuntime, Early, Late, Captured, Rewritten
<1>4. RestoreRedoesUnfinishedWork' /\ RecordsAreNotMixed'
  BY <1>1, <1>2 DEF CkInv, RestoreRedoesUnfinishedWork, RecordsAreNotMixed,
     Rewritten, InLog
<1>5. EarlyInv'
  <2>1. IInv => IInv'
    BY QuietKeepsIInv
       DEF allVars, vars, Quiet, IInv, TypeOK, envVars, frontierVars, auditVars,
           cacheVars, closureVars
  <2> QED BY <1>1, <1>2, <2>1 DEF CkInv, EarlyInv, Early, Gone
<1> QED BY <1>3, <1>4, <1>5 DEF CkInv

(***************************************************************************)
(* The theorems.                                                           *)
(***************************************************************************)

\* What a checkpoint knows of the tasks that run while it is taken, and what a
\* restore makes of it.
THEOREM CheckpointInvariant == CkSpec => []CkInv
<1>1. CkInit => CkInv
  <2> SUFFICES ASSUME CkInit PROVE CkInv  OBVIOUS
  <2>1. IInv  BY InitIInv DEF CkInit
  <2>2. /\ stage = "none" /\ todo = {} /\ gapStart = 0 /\ audited = {} /\ owed = {}
        /\ copied = [n \in NodeId |-> "Absent"]
        /\ log = [n \in NodeId |-> "Unrecorded"]
        /\ outputs = [n \in NodeId |-> NoVal]
        /\ links = [n \in NodeId |-> NoNode]
        /\ calls = [n \in NodeId |-> NoRequest]
        /\ origin = [n \in NodeId |-> NoNode]
        /\ pc = [n \in NodeId |-> "absent"]
        /\ parent = [n \in NodeId |-> NoNode]
    BY DEF CkInit, Init
  <2>3. NoRequest \in Requests  BY RequestAssumption DEF NoRequest
  <2>4. CkTypeOK
    BY <2>1, <2>2, <2>3, MaxNodesAssumption, RequestAssumption
       DEF CkTypeOK, CheckpointStages, IInv, TypeOK
  <2>5. EarlyInv  BY <2>1, <2>2 DEF EarlyInv, Gone
  <2>6. /\ GapInv /\ SavedInv /\ StaticInv /\ OriginInv /\ NewRuntime
        /\ RecordsAreNotMixed /\ IdleInv
    BY <2>2 DEF GapInv, SavedInv, StaticInv, OriginInv, NewRuntime, RecordsAreNotMixed,
       IdleInv, Early, Late
  <2>7. RestoreRedoesUnfinishedWork
    BY <2>2 DEF RestoreRedoesUnfinishedWork
  <2> QED BY <2>4, <2>5, <2>6, <2>7 DEF CkInv
<1>2. CkInv /\ [CkNext]_allVars => CkInv'
  <2> SUFFICES ASSUME CkInv, [CkNext]_allVars PROVE CkInv'  OBVIOUS
  <2>1. CASE RuntimeStep
    <3>1. Early \/ Late  BY DEF CkInv, CkTypeOK, CheckpointStages, Early, Late
    <3> QED BY <2>1, <3>1, EarlySteps, LateSteps
  <2>2. CASE CopyFrontier  BY <2>2, CopyFrontierKeeps
  <2>3. CASE CopyLog  BY <2>3, CopyLogKeeps
  <2>4. CASE Restoring
    BY <2>4, RebuildLogKeeps, RespawnKeeps, EndOfRestoreKeeps DEF Restoring
  <2>5. CASE UNCHANGED allVars  BY <2>5, StutteringKeeps
  <2> QED BY <2>1, <2>2, <2>3, <2>4, <2>5 DEF CkNext
<1> QED BY <1>1, <1>2, PTL DEF CkSpec

\* A checkpoint loses no unfinished task but those of the gap.
THEOREM OnlyTheGapIsLost == CkSpec => []OnlyTheGapIsForgotten
<1>1. CkInv => OnlyTheGapIsForgotten
  <2> SUFFICES ASSUME CkInv, stage = "saved", NEW n \in NodeId,
                      Forgotten(n), outcome[n] = "none"
               PROVE  /\ n >= gapStart
                      /\ \/ links[n] = NoNode
                         \/ links[n] \in Captured
                         \/ links[n] >= gapStart
    BY DEF OnlyTheGapIsForgotten
  <2>1. n \notin Captured  BY DEF Forgotten
  <2>2. n >= gapStart
    BY <2>1, MaxNodesAssumption DEF CkInv, GapInv, CkTypeOK, NodeId
  <2>3. links[n] # NoNode => links[n] = parent[n]  BY DEF CkInv, SavedInv
  <2> QED BY <2>2, <2>3 DEF CkInv, GapInv
<1> QED BY CheckpointInvariant, <1>1, PTL

\* A restore that succeeds has taken up all the work the checkpoint stands for.
THEOREM WorkIsRedone == CkSpec => []RestoreRedoesUnfinishedWork
<1>1. CkInv => RestoreRedoesUnfinishedWork  BY DEF CkInv
<1> QED BY CheckpointInvariant, <1>1, PTL

\* A restore does nothing again that was closed when the checkpoint began.
THEOREM AuditedWorkIsDone == CkSpec => []NothingAuditedIsRepeated
<1>1. CkInv => NothingAuditedIsRepeated
  <2> SUFFICES ASSUME CkInv, NEW m \in NodeId PROVE origin[m] \notin audited
    BY DEF NothingAuditedIsRepeated
  <2>1. audited \subseteq NodeId /\ audited \cap Captured = {}
    BY DEF CkInv, CkTypeOK, StaticInv
  <2>2. Early \/ Late  BY DEF CkInv, CkTypeOK, CheckpointStages, Early, Late
  <2>3. origin[m] = NoNode \/ origin[m] \in Captured
    BY <2>2 DEF CkInv, EarlyInv, OriginInv
  <2> QED BY <2>1, <2>3, SentinelAssumption
<1> QED BY CheckpointInvariant, <1>1, PTL

\* A record is the captured one, whole, or that of the task that took its id.
THEOREM RecordsStayWhole == CkSpec => []RecordsAreNotMixed
<1>1. CkInv => RecordsAreNotMixed  BY DEF CkInv
<1> QED BY CheckpointInvariant, <1>1, PTL
=============================================================================
