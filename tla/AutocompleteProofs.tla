------------------------- MODULE AutocompleteProofs -------------------------
(***************************************************************************)
(* Proofs that interactive_tool.rs keeps AcInv, and what follows from it,  *)
(* for any number of keystrokes and any number of looks at the flag.       *)
(***************************************************************************)
EXTENDS Autocomplete, TLAPS

USE LastAssumption, LooksAssumption DEF Keystroke

\* The initial state: nothing typed, every task absent.
LEMMA InitIsSound == Init => AcInv
<1> SUFFICES ASSUME Init PROVE AcInv
  OBVIOUS
<1>1. TypeOK /\ MainInv
  BY DEF Init, Everywhere, Ends, TypeOK, MainInv, Over
<1>2. ASSUME NEW i \in Keystroke PROVE SupersededInv(i) /\ ClosureInv(i) /\ ListInv(i)
  BY DEF Init, Everywhere, Ends, SupersededInv, ClosureInv, ListInv, InPoll, NeverRuns,
         Completing, Counting, Past
<1> QED BY <1>1, <1>2 DEF AcInv

Sound(i) == SupersededInv(i) /\ ClosureInv(i) /\ ListInv(i)

\* Every step of main keeps the types and what is known of main.
LEMMA MainKeepsTypes == ASSUME AcInv, MainStep PROVE TypeOK' /\ MainInv'
<1> USE DEF TypeOK, Ends, Main, Loop, mainVars, taskVars, listVars, MainInv, Over, AbortOuter
<1>0. TypeOK /\ MainInv /\ SupersededInv(Last) /\ ClosureInv(Last)
  BY DEF AcInv
<1>1. CASE Type
  BY <1>0, <1>1 DEF Type
<1>2. CASE CancelPrevious
  BY <1>0, <1>2 DEF CancelPrevious
<1>3. CASE AbortPrevious
  <2>1. abort' \in [Keystroke -> {"none", "resting", "midpoll"}]
    <3>1. abort \in [Keystroke -> {"none", "resting", "midpoll"}]
      BY <1>0
    <3>2. \/ abort' = abort
          \/ abort' = [abort EXCEPT ![typed - 1] = "midpoll"]
          \/ abort' = [abort EXCEPT ![typed - 1] = "resting"]
      BY <1>3 DEF AbortPrevious
    <3> QED BY <3>1, <3>2
  <2>2. UNCHANGED <<typed, at, token, outer, taskVars, listVars, counted>>
        /\ stage' = "dispatch" /\ stage = "abort"
    BY <1>3 DEF AbortPrevious
  <2> QED BY <1>0, <2>1, <2>2, SMTT(40)
<1>4. CASE Dispatch
  BY <1>0, <1>4 DEF Dispatch
<1>5. CASE AwaitLast
  BY <1>0, <1>5 DEF AwaitLast, SupersededInv, ClosureInv
<1>6. CASE CrossReference
  <2>1. TypeOK'
    BY <1>0, <1>6, SMTT(40) DEF CrossReference, FromGraph
  <2>2. MainInv'
    BY <1>0, <1>6, SMTT(40) DEF CrossReference
  <2> QED BY <2>1, <2>2
<1>7. CASE Summarise
  BY <1>0, <1>7, SMTT(40) DEF Summarise
<1>8. CASE Report
  BY <1>0, <1>8 DEF Report
<1> QED BY <1>1, <1>2, <1>3, <1>4, <1>5, <1>6, <1>7, <1>8 DEF MainStep

\* Every step of main keeps what is known of any keystroke.
LEMMA MainKeepsKeystrokes ==
    ASSUME TypeOK, MainInv, NEW i \in Keystroke, Sound(i), MainStep PROVE Sound(i)'
<1> USE DEF TypeOK, Ends, Main, Loop, mainVars, taskVars, listVars, MainInv, Over, Sound,
            AbortOuter, InPoll
<1>1. CASE Type
  <2>1. SupersededInv(i)'
    BY <1>1 DEF Type, SupersededInv
  <2>2. ClosureInv(i)'
    BY <1>1 DEF Type, SupersededInv, ClosureInv
  <2>3. ListInv(i)'
    BY <1>1 DEF Type, SupersededInv, ClosureInv, ListInv,
       NeverRuns, Completing, Counting, Past
  <2> QED BY <2>1, <2>2, <2>3
<1>2. CASE CancelPrevious
  <2>1. SupersededInv(i)'
    <3>1. token'[i] <=> (token[i] \/ i + 1 = typed)
      BY <1>2 DEF CancelPrevious
    <3> QED BY <1>2, <3>1 DEF CancelPrevious, SupersededInv
  <2>2. ClosureInv(i)'
    BY <1>2 DEF CancelPrevious, SupersededInv, ClosureInv
  <2>3. ListInv(i)'
    BY <1>2 DEF CancelPrevious, SupersededInv, ClosureInv, ListInv,
       NeverRuns, Completing, Counting, Past
  <2> QED BY <2>1, <2>2, <2>3
<1>3. CASE AbortPrevious
  <2>1. SupersededInv(i)'
    <3>1. UNCHANGED <<typed, token, outer>> /\ stage = "abort" /\ stage' = "dispatch"
      BY <1>3 DEF AbortPrevious
    <3>2. /\ i + 1 = typed => abort'[i] = IF InPoll(i) THEN "midpoll" ELSE "resting"
          /\ i + 1 # typed => abort'[i] = abort[i]
      BY <1>3 DEF AbortPrevious
    <3> QED BY <3>1, <3>2 DEF SupersededInv
  <2>2. ClosureInv(i)'
    BY <1>3 DEF AbortPrevious, SupersededInv, ClosureInv
  <2>3. ListInv(i)'
    BY <1>3 DEF AbortPrevious, SupersededInv, ClosureInv, ListInv,
       NeverRuns, Completing, Counting, Past
  <2> QED BY <2>1, <2>2, <2>3
<1>4. CASE Dispatch
  <2>1. SupersededInv(i)'
    BY <1>4 DEF Dispatch, SupersededInv
  <2>2. ClosureInv(i)'
    BY <1>4 DEF Dispatch, SupersededInv, ClosureInv
  <2>3. ListInv(i)'
    BY <1>4 DEF Dispatch, SupersededInv, ClosureInv, ListInv,
       NeverRuns, Completing, Counting, Past
  <2> QED BY <2>1, <2>2, <2>3
<1>5. CASE AwaitLast
  <2>1. SupersededInv(i)'
    BY <1>5 DEF AwaitLast, SupersededInv
  <2>2. ClosureInv(i)'
    BY <1>5 DEF AwaitLast, SupersededInv, ClosureInv
  <2>3. ListInv(i)'
    BY <1>5 DEF AwaitLast, SupersededInv, ClosureInv, ListInv,
       NeverRuns, Completing, Counting, Past
  <2> QED BY <2>1, <2>2, <2>3
<1>6. CASE CrossReference
  <2>1. SupersededInv(i)'
    BY <1>6 DEF CrossReference, FromGraph, SupersededInv
  <2>2. ClosureInv(i)'
    BY <1>6 DEF CrossReference, FromGraph, SupersededInv, ClosureInv
  <2>3. ListInv(i)'
    BY <1>6, SMTT(40)
       DEF CrossReference, FromGraph, SupersededInv, ClosureInv, ListInv,
       NeverRuns, Completing, Counting, Past
  <2> QED BY <2>1, <2>2, <2>3
<1>7. CASE Summarise
  <2>1. SupersededInv(i)'
    BY <1>7 DEF Summarise, SupersededInv
  <2>2. ClosureInv(i)'
    BY <1>7 DEF Summarise, SupersededInv, ClosureInv
  <2>3. ListInv(i)'
    BY <1>7, SMTT(40)
       DEF Summarise, SupersededInv, ClosureInv, ListInv,
       NeverRuns, Completing, Counting, Past
  <2> QED BY <2>1, <2>2, <2>3
<1>8. CASE Report
  <2>1. SupersededInv(i)'
    BY <1>8 DEF Report, SupersededInv
  <2>2. ClosureInv(i)'
    BY <1>8 DEF Report, SupersededInv, ClosureInv
  <2>3. ListInv(i)'
    BY <1>8 DEF Report, SupersededInv, ClosureInv, ListInv,
       NeverRuns, Completing, Counting, Past
  <2> QED BY <2>1, <2>2, <2>3
<1> QED BY <1>1, <1>2, <1>3, <1>4, <1>5, <1>6, <1>7, <1>8 DEF MainStep

\* Every step of a task keeps the types and what is known of main.
LEMMA TasksKeepTypes ==
    ASSUME TypeOK, MainInv, NEW k \in Keystroke, Sound(k), TaskStep(k)
    PROVE  TypeOK' /\ MainInv'
<1> USE DEF TypeOK, Ends, Alive, OuterMoves, mainVars, taskVars, listVars, MainInv, Over
<1>1. CASE Run(k)
  BY <1>1, SMTT(40) DEF Run, Sound, SupersededInv, ClosureInv
<1>2. CASE Wake(k)
  BY <1>2 DEF Wake, Sound, SupersededInv, ClosureInv
<1>3. CASE Write(k)
  BY <1>3 DEF Write, ListIsFree, Sound, SupersededInv, ClosureInv
<1>4. CASE DropOuter(k)
  BY <1>4, SMTT(40) DEF DropOuter, Sound, SupersededInv, ClosureInv
<1>5. CASE Start(k)
  <2>1. TypeOK'
    <3>1. closure' \in [Keystroke -> {"absent", "queued", "body", "seal",
                                      "deliver", "done"}]
      BY <1>5 DEF Start, Conclude
    <3>2. result' \in [Keystroke -> Ends \cup {"none"}]
      BY <1>5 DEF Start, Conclude
    <3> QED BY <1>5, <3>1, <3>2 DEF Start
  <2>2. MainInv'
    BY <1>5, SMTT(40) DEF Start, Conclude
  <2> QED BY <2>1, <2>2
<1>6. CASE Look(k)
  <2>1. CASE token[k]
    <3>1. TypeOK'
      <4>1. closure' \in [Keystroke -> {"absent", "queued", "body", "seal",
                                        "deliver", "done"}]
        BY <1>6, <2>1 DEF Look, Conclude
      <4>2. result' \in [Keystroke -> Ends \cup {"none"}]
        BY <1>6, <2>1 DEF Look, Conclude
      <4> QED BY <1>6, <2>1, <4>1, <4>2 DEF Look
    <3>2. MainInv'
      BY <1>6, <2>1, SMTT(40) DEF Look, Conclude
    <3> QED BY <3>1, <3>2
  <2>2. CASE ~token[k]
    <3>1. /\ looked' = [looked EXCEPT ![k] = looked[k] + 1] /\ looked[k] < Looks
          /\ UNCHANGED <<stage, typed, at, token, abort, outer, closure, result, node, reply,
                         outcome, suggestion, counted>>
      BY <1>6, <2>2 DEF Look
    <3>2. looked[k] + 1 \in 0 .. Looks
      BY <3>1
    <3>3. looked' \in [Keystroke -> 0 .. Looks]
      BY <3>1, <3>2
    <3>4. TypeOK'
      BY <3>1, <3>3
    <3>5. MainInv'
      BY <3>1
    <3> QED BY <3>4, <3>5
  <2> QED BY <2>1, <2>2
<1>7. CASE Suggest(k)
  BY <1>7 DEF Suggest, Conclude, Sound, SupersededInv, ClosureInv
<1>8. CASE Seal(k)
  BY <1>8 DEF Seal, Sound, SupersededInv, ClosureInv
<1>9. CASE Deliver(k)
  BY <1>9 DEF Deliver, Answer, Sound, SupersededInv, ClosureInv
<1>10. CASE Poll(k)
  BY <1>10 DEF Poll, Sound, SupersededInv, ClosureInv
<1>11. CASE AwaitReply(k)
  BY <1>11 DEF AwaitReply, Sound, SupersededInv, ClosureInv
<1> QED BY <1>1, <1>2, <1>3, <1>4, <1>5, <1>6, <1>7, <1>8, <1>9, <1>10, <1>11 DEF TaskStep

\* Every step of a task keeps what is known of any keystroke.
LEMMA TasksKeepKeystrokes ==
    ASSUME TypeOK, MainInv, NEW k \in Keystroke, NEW i \in Keystroke, Sound(i), TaskStep(k)
    PROVE  Sound(i)'
<1> USE DEF TypeOK, Ends, Alive, OuterMoves, mainVars, taskVars, listVars, MainInv, Over,
            Sound, InPoll
<1>1. CASE Run(k)
  <2>1. SupersededInv(i)'
    BY <1>1 DEF Run, SupersededInv
  <2>2. ClosureInv(i)'
    BY <1>1 DEF Run, SupersededInv, ClosureInv
  <2>3. ListInv(i)'
    BY <1>1 DEF Run, SupersededInv, ClosureInv, ListInv,
       NeverRuns, Completing, Counting, Past
  <2> QED BY <2>1, <2>2, <2>3
<1>2. CASE Wake(k)
  <2>1. SupersededInv(i)'
    BY <1>2 DEF Wake, SupersededInv
  <2>2. ClosureInv(i)'
    BY <1>2 DEF Wake, SupersededInv, ClosureInv
  <2>3. ListInv(i)'
    BY <1>2 DEF Wake, SupersededInv, ClosureInv, ListInv,
       NeverRuns, Completing, Counting, Past
  <2> QED BY <2>1, <2>2, <2>3
<1>3. CASE Write(k)
  <2>1. SupersededInv(i)'
    BY <1>3 DEF Write, ListIsFree, SupersededInv
  <2>2. ClosureInv(i)'
    BY <1>3 DEF Write, ListIsFree, SupersededInv, ClosureInv
  <2>3. ListInv(i)'
    BY <1>3 DEF Write, ListIsFree, SupersededInv, ClosureInv, ListInv,
       NeverRuns, Completing, Counting, Past
  <2> QED BY <2>1, <2>2, <2>3
<1>4. CASE DropOuter(k)
  <2>1. SupersededInv(i)'
    BY <1>4 DEF DropOuter, SupersededInv
  <2>2. ClosureInv(i)'
    BY <1>4 DEF DropOuter, SupersededInv, ClosureInv
  <2>3. ListInv(i)'
    BY <1>4 DEF DropOuter, SupersededInv, ClosureInv, ListInv,
       NeverRuns, Completing, Counting, Past
  <2> QED BY <2>1, <2>2, <2>3
<1>5. CASE Start(k)
  <2>1. SupersededInv(i)'
    BY <1>5 DEF Start, Conclude, SupersededInv
  <2>2. ClosureInv(i)'
    <3>1. CASE token[k]
      BY <1>5, <3>1 DEF Start, Conclude, SupersededInv, ClosureInv
    <3>2. CASE ~token[k]
      BY <1>5, <3>2 DEF Start, SupersededInv, ClosureInv
    <3> QED BY <3>1, <3>2
  <2>3. ListInv(i)'
    BY <1>5 DEF Start, Conclude, SupersededInv, ClosureInv, ListInv,
       NeverRuns, Completing, Counting, Past
  <2> QED BY <2>1, <2>2, <2>3
<1>6. CASE Look(k)
  <2>1. SupersededInv(i)'
    BY <1>6 DEF Look, Conclude, SupersededInv
  <2>2. ClosureInv(i)'
    BY <1>6, SMTT(40) DEF Look, Conclude, SupersededInv, ClosureInv
  <2>3. ListInv(i)'
    BY <1>6 DEF Look, Conclude, SupersededInv, ClosureInv, ListInv,
       NeverRuns, Completing, Counting, Past
  <2> QED BY <2>1, <2>2, <2>3
<1>7. CASE Suggest(k)
  <2>1. SupersededInv(i)'
    BY <1>7 DEF Suggest, Conclude, SupersededInv
  <2>2. ClosureInv(i)'
    BY <1>7 DEF Suggest, Conclude, SupersededInv, ClosureInv
  <2>3. ListInv(i)'
    BY <1>7 DEF Suggest, Conclude, SupersededInv, ClosureInv, ListInv,
       NeverRuns, Completing, Counting, Past
  <2> QED BY <2>1, <2>2, <2>3
<1>8. CASE Seal(k)
  <2>1. SupersededInv(i)'
    BY <1>8 DEF Seal, SupersededInv
  <2>2. ClosureInv(i)'
    BY <1>8 DEF Seal, SupersededInv, ClosureInv
  <2>3. ListInv(i)'
    BY <1>8 DEF Seal, SupersededInv, ClosureInv, ListInv,
       NeverRuns, Completing, Counting, Past
  <2> QED BY <2>1, <2>2, <2>3
<1>9. CASE Deliver(k)
  <2>1. SupersededInv(i)'
    BY <1>9 DEF Deliver, Answer, SupersededInv
  <2>2. ClosureInv(i)'
    BY <1>9 DEF Deliver, Answer, SupersededInv, ClosureInv
  <2>3. ListInv(i)'
    BY <1>9 DEF Deliver, Answer, SupersededInv, ClosureInv, ListInv,
       NeverRuns, Completing, Counting, Past
  <2> QED BY <2>1, <2>2, <2>3
<1>10. CASE Poll(k)
  <2>1. SupersededInv(i)'
    BY <1>10 DEF Poll, SupersededInv
  <2>2. ClosureInv(i)'
    BY <1>10 DEF Poll, SupersededInv, ClosureInv
  <2>3. ListInv(i)'
    BY <1>10 DEF Poll, SupersededInv, ClosureInv, ListInv,
       NeverRuns, Completing, Counting, Past
  <2> QED BY <2>1, <2>2, <2>3
<1>11. CASE AwaitReply(k)
  <2>1. SupersededInv(i)'
    BY <1>11 DEF AwaitReply, SupersededInv
  <2>2. ClosureInv(i)'
    BY <1>11 DEF AwaitReply, SupersededInv, ClosureInv
  <2>3. ListInv(i)'
    BY <1>11 DEF AwaitReply, SupersededInv, ClosureInv, ListInv,
       NeverRuns, Completing, Counting, Past
  <2> QED BY <2>1, <2>2, <2>3
<1> QED BY <1>1, <1>2, <1>3, <1>4, <1>5, <1>6, <1>7, <1>8, <1>9, <1>10, <1>11 DEF TaskStep

\* The invariant of the program.
THEOREM AutocompleteInvariant == Spec => []AcInv
<1>1. AcInv /\ UNCHANGED vars => AcInv'
  BY DEF AcInv, TypeOK, Ends, MainInv, Over, SupersededInv, ClosureInv, ListInv,
         InPoll, NeverRuns, Completing, Counting, Past, vars, mainVars, taskVars, listVars
<1>2. ASSUME AcInv, MainStep PROVE AcInv'
  <2>1. \A i \in Keystroke : Sound(i)'
    BY <1>2, MainKeepsKeystrokes DEF AcInv, Sound
  <2> QED BY <1>2, <2>1, MainKeepsTypes DEF AcInv, Sound
<1>3. ASSUME AcInv, NEW k \in Keystroke, TaskStep(k) PROVE AcInv'
  <2>1. TypeOK /\ MainInv /\ \A i \in Keystroke : Sound(i)
    BY <1>3 DEF AcInv, Sound
  <2>2. \A i \in Keystroke : Sound(i)'
    BY <1>3, <2>1, TasksKeepKeystrokes
  <2>3. TypeOK' /\ MainInv'
    BY <1>3, <2>1, TasksKeepTypes
  <2> QED BY <2>2, <2>3 DEF AcInv, Sound
<1>4. AcInv /\ [Next]_vars => AcInv'
  BY <1>1, <1>2, <1>3 DEF Next
<1> QED BY InitIsSound, <1>4, PTL DEF Spec

\* The assertion at the end of interactive_tool.rs holds under every schedule.
THEOREM TheLastOneCompletes == Spec => []LastTaskCompletes
<1>1. AcInv => LastTaskCompletes
  <2> SUFFICES ASSUME AcInv, Over PROVE outcome[Last] = "completed" /\ suggestion[Last] = Last
    BY DEF LastTaskCompletes, AcInv, MainInv
  <2>1. outer[Last] = "done" /\ ~token[Last]
    BY DEF AcInv, MainInv, SupersededInv
  <2>2. TypeOK /\ ClosureInv(Last) /\ ListInv(Last)
    BY DEF AcInv
  <2>3. reply[Last] = "ok"
    BY <2>1, <2>2 DEF TypeOK, Ends, ClosureInv, ListInv
  <2> QED BY <2>1, <2>2, <2>3 DEF ListInv
<1> QED BY <1>1, AutocompleteInvariant, PTL

\* However many suggestions are in flight, one at most is still wanted.
THEOREM OnlyOneIsWanted == Spec => []OneIsWanted
<1>1. AcInv => OneIsWanted
  <2> SUFFICES ASSUME AcInv, NEW i \in Keystroke, NEW j \in Keystroke,
                      closure[i] \in {"queued", "body"}, closure[j] \in {"queued", "body"},
                      ~token[i], ~token[j]
               PROVE  i = j
    BY DEF OneIsWanted
  <2>1. /\ TypeOK /\ SupersededInv(i) /\ SupersededInv(j)
        /\ ClosureInv(i) /\ ClosureInv(j)
    BY DEF AcInv
  <2>2. i <= typed /\ j <= typed
    BY <2>1 DEF TypeOK, SupersededInv, ClosureInv
  <2>3. (i = typed \/ stage = "cancel") /\ (j = typed \/ stage = "cancel")
    BY <2>1, <2>2 DEF TypeOK, SupersededInv
  <2>4. stage = "cancel" => i + 1 = typed /\ j + 1 = typed
    BY <2>1, <2>2 DEF TypeOK, SupersededInv, ClosureInv
  <2> QED BY <2>3, <2>4
<1> QED BY <1>1, AutocompleteInvariant, PTL

\* List and graphs agree in the report, up to what an abort found in a poll.
THEOREM TheReportAgrees == Spec => []ReportAgrees
<1>1. AcInv => ReportAgrees
  <2> SUFFICES ASSUME AcInv, stage \in {"report", "ended"}, NEW i \in Keystroke
               PROVE  /\ abort[i] # "midpoll" =>
                            /\ outcome[i] = "completed" => counted[i] = "Completed"
                            /\ outcome[i] = "cancelled" => counted[i] \in {"Failed", "Cancelled"}
                            /\ counted[i] = "running" => outcome[i] = "aborted"
                            /\ counted[i] = "absent" <=> outcome[i] = "pending"
                      /\ outcome[i] = "completed" => counted[i] \in {"Completed", "running"}
                      /\ outcome[i] = "cancelled" => counted[i] # "Completed"
                      /\ outcome[i] = "pending" =>
                            counted[i] \in {"absent", "running", "Cancelled"}
                      /\ counted[i] = "absent" => outcome[i] \in {"pending", "cancelled"}
    BY DEF ReportAgrees
  <2>1. TypeOK /\ MainInv /\ SupersededInv(i) /\ ClosureInv(i) /\ ListInv(i)
    BY DEF AcInv
  <2>2. Completing(i) /\ Counting(i)
    BY DEF Completing, Counting, Past
  <2>3. outcome[i] = "pending" => NeverRuns(i)
    BY <2>1, <2>2 DEF ListInv
  <2>4. NeverRuns(i) => node[i] \in {"absent", "running", "Cancelled"}
    BY <2>1 DEF TypeOK, Ends, ClosureInv, NeverRuns
  <2>5. /\ counted[i] \in Ends => counted[i] = node[i]
        /\ counted[i] = "absent" => NeverRuns(i) /\ outcome[i] # "aborted"
    BY <2>1, <2>2 DEF ListInv
  <2>6. /\ outcome[i] = "completed" => node[i] = "Completed"
        /\ outcome[i] = "cancelled" => node[i] \in {"Failed", "Cancelled"}
        /\ outcome[i] = "aborted" => node[i] # "absent"
        /\ outcome[i] # "absent"
    <3>1. outer[i] # "absent"
      BY <2>1 DEF TypeOK, MainInv, Over, SupersededInv
    <3> QED BY <2>1, <3>1 DEF ListInv
  <2>7. counted[i] = "Completed" \/ counted[i] = "Failed" \/ counted[i] = "Cancelled"
        \/ counted[i] = "absent" \/ counted[i] = "running"
    BY <2>1 DEF TypeOK, Ends
  <2>8. outcome[i] \in {"pending", "completed", "cancelled", "aborted"}
    BY <2>1, <2>6 DEF TypeOK
  <2>9. ASSUME abort[i] # "midpoll"
        PROVE  /\ outcome[i] = "pending" <=> node[i] = "absent"
               /\ counted[i] = "running" => outcome[i] = "aborted"
               /\ counted[i] = "absent" <=> node[i] = "absent"
    BY <2>1, <2>2, <2>9 DEF ListInv
  <2>10. /\ outcome[i] = "completed" => counted[i] \in {"Completed", "running"}
         /\ outcome[i] = "cancelled" => counted[i] # "Completed"
         /\ outcome[i] = "pending" => counted[i] \in {"absent", "running", "Cancelled"}
         /\ counted[i] = "absent" => outcome[i] \in {"pending", "cancelled"}
    BY <2>3, <2>4, <2>5, <2>6, <2>7, <2>8 DEF Ends
  <2>11. ASSUME abort[i] # "midpoll"
         PROVE  /\ outcome[i] = "completed" => counted[i] = "Completed"
                /\ outcome[i] = "cancelled" => counted[i] \in {"Failed", "Cancelled"}
                /\ counted[i] = "running" => outcome[i] = "aborted"
                /\ counted[i] = "absent" <=> outcome[i] = "pending"
    BY <2>5, <2>6, <2>7, <2>8, <2>9, <2>11 DEF Ends
  <2> QED BY <2>10, <2>11
<1> QED BY <1>1, AutocompleteInvariant, PTL

\* The only outcome a step takes back is an "aborted" of main's, and what the
\* late writer puts in its place is how the task ended.
THEOREM OutcomesStay == Spec => OutcomeStays
<1> DEFINE Moved(i) == outcome[i] \notin {"absent", "pending"} /\ outcome'[i] # outcome[i]
           Late(i)  == /\ outcome[i] = "aborted" /\ abort[i] = "midpoll"
                       /\ node[i] \in Ends /\ outcome'[i] = Told(node[i])
<1>1. ASSUME AcInv, NEW i \in Keystroke, MainStep, Moved(i) PROVE FALSE
  <2>1. TypeOK /\ MainInv /\ SupersededInv(i) /\ ListInv(i)
    BY <1>1 DEF AcInv
  <2>2. CASE Dispatch
    BY <1>1, <2>1, <2>2 DEF Dispatch, Main, TypeOK, MainInv, SupersededInv, ListInv
  <2>3. CASE CrossReference
    BY <1>1, <2>1, <2>3 DEF CrossReference, TypeOK
  <2>4. CASE UNCHANGED outcome
    BY <1>1, <2>4
  <2> QED BY <1>1, <2>2, <2>3, <2>4 DEF MainStep, Type, CancelPrevious, AbortPrevious,
             AwaitLast, Summarise, Report, listVars
<1>2. ASSUME AcInv, NEW i \in Keystroke, NEW k \in Keystroke, TaskStep(k), Moved(i)
      PROVE  Late(i)
  <2>1. TypeOK /\ MainInv /\ SupersededInv(i) /\ ClosureInv(i) /\ ListInv(i)
    BY <1>2 DEF AcInv
  <2>2. CASE Write(k)
    <3>1. /\ i = k /\ outer[i] = "recording"
          /\ outcome'[i] = IF reply[i] = "ok" THEN "completed" ELSE "cancelled"
      BY <1>2, <2>1, <2>2 DEF Write, OuterMoves, TypeOK
    <3>2. closure[i] = "done" /\ result[i] \in Ends /\ node[i] = result[i]
      BY <2>1, <3>1 DEF TypeOK, ClosureInv, ListInv
    <3>3. outcome'[i] = Told(node[i])
      BY <2>1, <3>1, <3>2 DEF ClosureInv, Told, Ends
    <3>4. outcome[i] = "aborted"
      BY <1>2, <2>1, <3>1, <3>2, <3>3 DEF TypeOK, ListInv, Told, Ends
    <3>5. abort[i] = "midpoll"
      <4>1. Completing(i) /\ typed = Last /\ i # Last
        BY <2>1, <3>1, <3>4 DEF ListInv, Completing, Past, MainInv, Over
      <4> QED BY <2>1, <3>1, <4>1 DEF TypeOK, SupersededInv, InPoll, MainInv, Completing, Past, Over
    <3> QED BY <3>2, <3>3, <3>4, <3>5
  <2>3. CASE UNCHANGED outcome
    BY <1>2, <2>3
  <2> QED BY <1>2, <2>2, <2>3 DEF TaskStep, Poll, Run, AwaitReply, Wake, DropOuter, Start,
             Look, Suggest, Seal, Deliver, listVars
<1>3. AcInv /\ [Next]_vars =>
         [\A i \in Keystroke :
             outcome[i] \notin {"absent", "pending"} /\ outcome'[i] # outcome[i] =>
                /\ outcome[i] = "aborted" /\ abort[i] = "midpoll"
                /\ node[i] \in Ends /\ outcome'[i] = Told(node[i])]_vars
  BY <1>1, <1>2 DEF Next
<1> QED BY <1>3, AutocompleteInvariant, PTL DEF Spec, OutcomeStays
=============================================================================
