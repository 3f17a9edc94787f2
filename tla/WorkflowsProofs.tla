-------------------------- MODULE WorkflowsProofs --------------------------
(***************************************************************************)
(* What the two example programs compute and when they may look at it,     *)
(* proved for every batch, every file system and every order of the tasks: *)
(* the tests of swe_agent.rs see every edit, the execution graph is        *)
(* complete at the answer, and the answer is the reference's.              *)
(*                                                                         *)
(* The stages follow a script: what each stage is given and what each task *)
(* returns is fixed by the lines of the pipeline, and by the file system   *)
(* and the listing of it that the agent began with. The inductive          *)
(* invariant says how far the tree has grown (Tree), which run this is     *)
(* (Cache), and that whatever has happened so far is in the script         *)
(* (Values).                                                               *)
(***************************************************************************)
EXTENDS Workflows, SequenceTheorems, FunctionTheorems, FiniteSetTheorems,
        WellFoundedInduction, TLAPS

(***************************************************************************)
(* The inductive invariant                                                 *)
(***************************************************************************)

Life == {"absent", "ready", "body", "ran", "closed", "answered"}
Done(id) == state[id] \in {"ran", "closed", "answered"}
Last == Len(Shape)
Both == {"user.rs", "user_test.rs"}

\* How many items stage s fans out over.
Width(s) == IF program = "pipeline" THEN IF s \in {1, 2} THEN Len(lines) ELSE 0
            ELSE IF s = 1 THEN Cardinality(DOMAIN fs)
            ELSE IF s = 3 /\ Both \subseteq DOMAIN fs THEN 2 ELSE 0

TypeOK ==
    /\ program \in {"solve", "pipeline"}
    /\ main \in {"ready", "running", "done", "panicked"}
    /\ run \in 0 .. 3
    /\ stage \in 0 .. Last
    /\ state \in [Ids -> Life]
    /\ out = [id \in Ids |-> out[id]]
    /\ program = "pipeline" => lines \in Batches
    /\ \A s \in 1 .. 5 : Width(s) \in 0 .. MaxItems

\* Nothing of stage t is spawned.
Absent(t) == \A i \in 0 .. MaxItems : state[<<t, i>>] = "absent"

\* Everything of stage t is spawned and has answered well.
Whole(t) == /\ Shape[t] # "all" => Good(Head1(t))
            /\ \A i \in 1 .. Width(t) : Good(<<t, i>>)

\* Stage t has no task but its head and its items, spawned in order.
InOrder(t) ==
    /\ Shape[t] = "all" => state[Head1(t)] = "absent"
    /\ \E k \in 0 .. Width(t) :
          \A i \in 1 .. MaxItems : state[<<t, i>>] # "absent" <=> i <= k

\* The task of a stage that fans out spawns its items in its body, all of them,
\* and its good answer awaits theirs.
Fanned(t) ==
    FansOut(t) =>
        /\ state[Head1(t)] \in {"absent", "ready"} =>
              \A i \in 1 .. MaxItems : state[<<t, i>>] = "absent"
        /\ Done(Head1(t)) => \A i \in 1 .. Width(t) : state[<<t, i>>] # "absent"
        /\ Done(Head1(t)) /\ out[Head1(t)].ok => \A i \in 1 .. Width(t) : Good(<<t, i>>)

Tree ==
    /\ state[Root] \in {"absent", "ready"} => stage = 0
    /\ state[Root] = "body" => stage # 0
    /\ \A t \in 1 .. 5 : t > stage => Absent(t)
    /\ \A t \in 1 .. Last : t < stage => Whole(t)
    /\ \A t \in 1 .. Last : InOrder(t)
    /\ \A t \in 1 .. Last : Fanned(t)
    /\ stage # 0 /\ Done(Root) /\ out[Root].ok => stage = Last /\ Whole(Last)

Cache ==
    /\ program = "solve" => run <= 1
    /\ run = 0 => state[Root] = "absent"
    /\ main = "ready" /\ run # 0 => Done(Root) /\ out[Root].ok
    /\ run \in {1, 2} /\ Done(Root) => stage # 0
    /\ run <= 1 => ~entry.ok
    /\ run = 2 => (entry.ok <=> Done(Root) /\ out[Root].ok)
    /\ run = 3 => entry.ok /\ stage = 0

\* How the orchestrator has ended: with the answer of its last stage, or with the
\* error of the stage it is in.
Outcome(returned) ==
    \/ stage = Last /\ Good(Head1(Last)) /\ out[Root] = Ok(returned[Head1(Last)].val)
    \/ /\ Shape[stage] # "all" /\ Bad(Head1(stage))
       /\ out[Root] = Err(returned[Head1(stage)].by)
    \/ Shape[stage] = "all" /\ \E i \in 1 .. Width(stage) : Bad(<<stage, i>>)

\* The run so far is in the script: given[s] is what stage s is given, and
\* returned[id] what task id returns.
Follows(given, returned) ==
    /\ stage # 0 => carried = given[stage]
    /\ \A id \in Ids \ {Root} : Done(id) => out[id] = returned[id]
    /\ stage # 0 /\ Done(Root) => Outcome(returned)

\* The script of the pipeline.
FirstBad == CHOOSE i \in BadLines : \A j \in BadLines : i <= j
Classified == [i \in 1 .. Len(lines) |-> Classify(lines[i]).val]

PipelineGiven ==
    [s \in 1 .. 4 |-> IF s <= 2 THEN lines
                      ELSE IF s = 3 THEN Classified ELSE Filter(Classified).val]

PipelineReturned ==
    [id \in Ids |->
        IF id[2] # 0 THEN IF id[1] = 1 THEN Parse(id, lines[id[2]]) ELSE Classify(lines[id[2]])
        ELSE IF id[1] = 1 THEN IF BadLines = {} THEN Ok(lines) ELSE Err(<<1, FirstBad>>)
        ELSE IF id[1] = 2 THEN Ok(Classified)
        ELSE IF id[1] = 3 THEN Filter(Classified) ELSE Aggregate(Filter(Classified).val)]

PipelineValues ==
    /\ Follows(PipelineGiven, PipelineReturned)
    /\ entry.ok => BadLines = {} /\ entry = PipelineReturned[Head1(4)]
    /\ stage = 0 /\ Done(Root) => out[Root] = entry /\ entry.ok

\* The script of the agent, from the file system f and the listing q of it.
ListingsOf(f) == {q \in [1 .. Cardinality(DOMAIN f) -> DOMAIN f] :
                     \A i, j \in DOMAIN q : i # j => q[i] # q[j]}
Summaries(f, q) == [i \in 1 .. Len(q) |-> [path |-> q[i], text |-> f[q[i]]]]
Source(f) == IF "impl" \in f["user.rs"] THEN f["user.rs"] \cup {"greet"} ELSE f["user.rs"]
Tests(f) == f["user_test.rs"] \cup {"greet"}
Planned(f) == IF Both \subseteq DOMAIN f
              THEN Ok(<<[path |-> "user.rs", text |-> Source(f)],
                        [path |-> "user_test.rs", text |-> Tests(f)]>>)
              ELSE Err(Head1(2))
Verdict(f) == Tests(f) \cap {"greet", "new"} \subseteq Source(f)

SolveGiven(f, q) ==
    [s \in 1 .. 5 |-> IF s = 1 THEN q ELSE IF s = 2 THEN Summaries(f, q)
                      ELSE IF s = 3 THEN Planned(f).val
                      ELSE IF s = 4 THEN [i \in 1 .. Len(Planned(f).val) |-> Planned(f).val[i].path]
                      ELSE [passed |-> Verdict(f)]]

SolveReturned(f, q) ==
    [id \in Ids |->
        IF id[1] = 1 THEN Ok(IF id[2] = 0 THEN Summaries(f, q)
                             ELSE [path |-> q[id[2]], text |-> f[q[id[2]]]])
        ELSE IF id[1] = 2 THEN Planned(f)
        ELSE IF id[1] = 3 THEN Ok(Planned(f).val[id[2]].path)
        ELSE IF id[1] = 4 THEN Ok([passed |-> Verdict(f)])
        ELSE Ok([success |-> Verdict(f)])]

\* The file system is f with the edits that have run.
Applied(f, i) == Both \subseteq DOMAIN f /\ Done(<<3, i>>)
Edited(f) ==
    [p \in DOMAIN f |-> IF p = "user.rs" /\ Applied(f, 1) THEN Source(f)
                        ELSE IF p = "user_test.rs" /\ Applied(f, 2) THEN Tests(f) ELSE f[p]]

SolveValues ==
    IF stage = 0 THEN fs \in FileSystems
    ELSE \E f \in FileSystems : \E q \in ListingsOf(f) :
            fs = Edited(f) /\ Follows(SolveGiven(f, q), SolveReturned(f, q))

Values == IF program = "pipeline" THEN PipelineValues ELSE SolveValues

WInv == TypeOK /\ Tree /\ Cache /\ Values

(***************************************************************************)
(* Tasks and shapes                                                        *)
(***************************************************************************)

\* The tasks are the orchestrator and the places of the stages, all different.
LEMMA IdsAre ==
    /\ Root \in Ids
    /\ \A s \in 1 .. 5, i \in 0 .. MaxItems : <<s, i>> \in Ids /\ <<s, i>> # Root
    /\ \A s \in 1 .. 5 : Head1(s) \in Ids /\ Head1(s) # Root
    /\ \A id \in Ids \ {Root} : /\ id[1] \in 1 .. 5 /\ id[2] \in 0 .. MaxItems
                                /\ id = <<id[1], id[2]>>
    /\ Root[1] = 0 /\ Root[2] = 0
<1>1. 0 \in 0 .. MaxItems
  BY BoundsAssumption
<1> QED
  BY <1>1 DEF Ids, Root, Stages, Head1

\* The shapes of the stages, program by program.
LEMMA ShapesAre ==
    ASSUME program \in {"solve", "pipeline"}
    PROVE  /\ program = "solve" =>
                /\ Last = 5 /\ Shape[1] = "each" /\ Shape[2] = "one" /\ Shape[3] = "all"
                /\ Shape[4] = "one" /\ Shape[5] = "one"
           /\ program = "pipeline" =>
                /\ Last = 4 /\ Shape[1] = "map" /\ Shape[2] = "map"
                /\ Shape[3] = "one" /\ Shape[4] = "one"
<1>1. CASE program = "solve"
  <2>1. Shape = <<"each", "one", "all", "one", "one">>
    BY <1>1 DEF Shape
  <2> QED
    BY <1>1, <2>1 DEF Last
<1>2. CASE program = "pipeline"
  <2>1. Shape = <<"map", "map", "one", "one">>
    BY <1>2 DEF Shape
  <2> QED
    BY <1>2, <2>1 DEF Last
<1> QED
  BY <1>1, <1>2

\* The same, as the actions ask for it.
LEMMA StagesAre ==
    ASSUME program \in {"solve", "pipeline"}
    PROVE  /\ Last = IF program = "solve" THEN 5 ELSE 4
           /\ \A s \in 1 .. Last :
                /\ Shape[s] \in {"each", "map", "one", "all"}
                /\ FansOut(s) <=> Shape[s] # "one" /\ Shape[s] # "all"
                /\ Shape[s] = "one" => Width(s) = 0
                /\ Shape[s] = "all" => s < Last
                /\ FansOut(s) => s < Last
<1>1. \A s \in 1 .. Last : s = 1 \/ s = 2 \/ s = 3 \/ s = 4 \/ (s = 5 /\ program = "solve")
  BY ShapesAre
<1> QED
  BY <1>1, ShapesAre DEF FansOut, Width

(***************************************************************************)
(* The scripts                                                             *)
(***************************************************************************)

\* What one stage makes of its input is the input of the next. A stage that fans
\* out returns what its items did, or the first of their errors.
ScriptAt(given, returned, s) ==
    /\ Shape[s] # "one" => Len(given[s]) = Width(s)
    /\ FansOut(s) =>
          \/ /\ \A i \in 1 .. Width(s) : returned[<<s, i>>].ok
             /\ returned[Head1(s)] = Ok([i \in 1 .. Width(s) |-> returned[<<s, i>>].val])
          \/ \E i \in 1 .. Width(s) :
                /\ ~returned[<<s, i>>].ok
                /\ \A j \in 1 .. Width(s) : j < i => returned[<<s, j>>].ok
                /\ returned[Head1(s)] = Err(<<s, i>>)
    /\ s < Last /\ Shape[s] = "all" /\ (\A i \in 1 .. Width(s) : returned[<<s, i>>].ok) =>
          given[s + 1] = [i \in 1 .. Width(s) |-> returned[<<s, i>>].val]
    /\ s < Last /\ Shape[s] # "all" /\ returned[Head1(s)].ok =>
          given[s + 1] = returned[Head1(s)].val

Script(given, returned) == \A s \in 1 .. Last : ScriptAt(given, returned, s)

\* Induction over the numbers: a set of them that is not empty has a least element.
LEMMA LeastNat ==
    ASSUME NEW T \in SUBSET Nat, T # {}
    PROVE  \E m \in T : \A k \in T : m <= k
<1> DEFINE R == OpToRel(<, Nat)
<1>1. IsWellFoundedOn(R, Nat)
  BY NatLessThanWellFounded
<1>2. \A k, m \in Nat : k < m => <<k, m>> \in R
  BY DEF OpToRel
<1> HIDE DEF R
<1>3. PICK m \in T : \A k \in T : <<k, m>> \notin R
  BY <1>1, WFMin
<1>4. ASSUME NEW k \in T PROVE m <= k
  <2>1. k \in Nat /\ m \in Nat /\ ~(k < m)
    BY <1>2, <1>3
  <2> QED
    BY <2>1
<1> QED
  BY <1>4

\* The lines are typed, and the first bad one is well-defined.
LEMMA LinesAre ==
    ASSUME TypeOK, program = "pipeline"
    PROVE  /\ lines \in Seq([well : BOOLEAN, text : SUBSET STRING, value : Int])
           /\ Len(lines) \in 0 .. MaxItems
           /\ BadLines = {i \in 1 .. Len(lines) : ~lines[i].well}
           /\ BadLines # {} => FirstBad \in BadLines /\ \A j \in BadLines : FirstBad <= j
<1>1. lines \in Batches
  BY DEF TypeOK
<1>2. /\ lines \in Seq([well : BOOLEAN, text : SUBSET STRING, value : Int])
      /\ Len(lines) <= MaxItems
  BY <1>1, LinesAssumption
<1>3. Len(lines) \in Nat /\ DOMAIN lines = 1 .. Len(lines)
  BY <1>2
<1>4. BadLines = {i \in 1 .. Len(lines) : ~lines[i].well}
  BY <1>3 DEF BadLines
<1>5. ASSUME BadLines # {}
      PROVE  FirstBad \in BadLines /\ \A j \in BadLines : FirstBad <= j
  <2>1. BadLines \in SUBSET Nat
    BY <1>3, <1>4
  <2>2. \E i \in BadLines : \A j \in BadLines : i <= j
    <3> HIDE DEF BadLines
    <3> QED
      BY <1>5, <2>1, LeastNat
  <2> QED
    BY <2>2 DEF FirstBad
<1> QED
  BY <1>2, <1>3, <1>4, <1>5, BoundsAssumption

LEMMA PipelineScript ==
    ASSUME TypeOK, program = "pipeline"
    PROVE  Script(PipelineGiven, PipelineReturned)
<1> DEFINE given == PipelineGiven
           returned == PipelineReturned
           n == Len(lines)
<1>1. n \in Nat /\ n <= MaxItems /\ Width(1) = n /\ Width(2) = n
      /\ Width(3) = 0 /\ Width(4) = 0
  BY LinesAre, BoundsAssumption DEF Width
<1>2. /\ Last = 4 /\ Shape[1] = "map" /\ Shape[2] = "map" /\ Shape[3] = "one"
      /\ Shape[4] = "one"
      /\ FansOut(1) /\ FansOut(2) /\ ~FansOut(3) /\ ~FansOut(4)
  BY ShapesAre DEF FansOut
<1>3. /\ given[1] = lines /\ given[2] = lines /\ given[3] = Classified
      /\ given[4] = Filter(Classified).val
  BY DEF PipelineGiven
<1>4. /\ returned[Head1(1)] = IF BadLines = {} THEN Ok(lines) ELSE Err(<<1, FirstBad>>)
      /\ returned[Head1(2)] = Ok(Classified)
      /\ returned[Head1(3)] = Filter(Classified)
      /\ returned[Head1(4)] = Aggregate(Filter(Classified).val)
  BY IdsAre DEF PipelineReturned, Head1
<1>5. \A i \in 1 .. n : /\ returned[<<1, i>>] = Parse(<<1, i>>, lines[i])
                        /\ returned[<<2, i>>] = Classify(lines[i])
  <2>1. \A i \in 1 .. n : /\ <<1, i>> \in Ids /\ <<2, i>> \in Ids
                          /\ i # 0
    <3>1. \A i \in 1 .. n : i \in 0 .. MaxItems /\ i # 0
      BY <1>1, BoundsAssumption
    <3>2. 1 \in 1 .. 5 /\ 2 \in 1 .. 5
      OBVIOUS
    <3> QED
      BY <3>1, <3>2, IdsAre
  <2>2. \A i : /\ <<1, i>>[1] = 1 /\ <<1, i>>[2] = i
               /\ <<2, i>>[1] = 2 /\ <<2, i>>[2] = i
    OBVIOUS
  <2> QED
    BY <2>1, <2>2 DEF PipelineReturned
<1>6. ASSUME NEW i \in 1 .. n
      PROVE  /\ lines[i].well => returned[<<1, i>>].ok /\ returned[<<1, i>>].val = lines[i]
             /\ ~lines[i].well => ~returned[<<1, i>>].ok
             /\ returned[<<2, i>>].ok /\ returned[<<2, i>>].val = Classify(lines[i]).val
  <2> HIDE DEF returned
  <2>1. /\ returned[<<1, i>>] = IF lines[i].well THEN Ok(lines[i]) ELSE Err(<<1, i>>)
        /\ returned[<<2, i>>] = Classify(lines[i])
    BY <1>5 DEF Parse
  <2>2. Classify(lines[i]).ok
    BY DEF Classify, Ok
  <2> QED
    BY <2>1, <2>2 DEF Ok, Err
<1> HIDE DEF given, returned, n
<1>7. Len(given[1]) = Width(1) /\ Len(given[2]) = Width(2)
  BY <1>1, <1>3 DEF n
<1>10. ScriptAt(given, returned, 2)
  <2>1. Classified = [i \in 1 .. n |-> returned[<<2, i>>].val]
    BY <1>6 DEF Classified, n
  <2>2. returned[Head1(2)] = Ok([i \in 1 .. Width(2) |-> returned[<<2, i>>].val])
    BY <1>1, <1>4, <2>1
  <2>3. \A i \in 1 .. Width(2) : returned[<<2, i>>].ok
    BY <1>1, <1>6
  <2>4. given[3] = returned[Head1(2)].val
    BY <1>3, <1>4 DEF Ok
  <2> QED
    BY <1>2, <1>7, <2>2, <2>3, <2>4 DEF ScriptAt
<1>8. CASE BadLines = {}
  <2>1. \A i \in 1 .. n : lines[i].well
    BY <1>8, LinesAre DEF n
  <2>2. lines = [i \in 1 .. n |-> returned[<<1, i>>].val]
    <3>1. lines = [i \in 1 .. n |-> lines[i]]
      BY LinesAre DEF n
    <3>2. [i \in 1 .. n |-> lines[i]] = [i \in 1 .. n |-> returned[<<1, i>>].val]
      BY <1>6, <2>1
    <3> QED
      BY <3>1, <3>2
  <2>4. returned[Head1(1)] = Ok(lines) /\ \A i \in 1 .. n : returned[<<1, i>>].ok
    BY <1>4, <1>6, <1>8, <2>1
  <2>5. ScriptAt(given, returned, 1)
    BY <1>1, <1>2, <1>3, <1>6, <1>7, <2>2, <2>4 DEF ScriptAt, Ok
  <2>7. ScriptAt(given, returned, 3) /\ ScriptAt(given, returned, 4)
    BY <1>1, <1>2, <1>3, <1>4 DEF ScriptAt
  <2> QED
    BY <1>2, <1>10, <2>5, <2>7 DEF Script, given, returned
<1>9. CASE BadLines # {}
  <2>1. /\ FirstBad \in 1 .. n /\ ~lines[FirstBad].well
        /\ \A j \in 1 .. n : j < FirstBad => lines[j].well
    BY <1>9, LinesAre DEF n
  <2>2. /\ ~returned[<<1, FirstBad>>].ok
        /\ \A j \in 1 .. n : j < FirstBad => returned[<<1, j>>].ok
        /\ returned[Head1(1)] = Err(<<1, FirstBad>>) /\ ~returned[Head1(1)].ok
    <3>1. returned[Head1(1)] = Err(<<1, FirstBad>>)
      BY <1>4, <1>9
    <3>2. ~returned[Head1(1)].ok
      BY <3>1 DEF Err
    <3> QED
      BY <1>6, <2>1, <3>1, <3>2
  <2>5. ScriptAt(given, returned, 1)
    BY <1>1, <1>2, <1>3, <1>7, <2>1, <2>2 DEF ScriptAt
  <2>7. ScriptAt(given, returned, 3) /\ ScriptAt(given, returned, 4)
    BY <1>1, <1>2, <1>3, <1>4 DEF ScriptAt
  <2> QED
    BY <1>2, <1>10, <2>5, <2>7 DEF Script, given, returned
<1> QED
  BY <1>8, <1>9

\* The edits keep the file system's paths.
LEMMA FilesAre ==
    ASSUME NEW f \in FileSystems, fs = Edited(f)
    PROVE  /\ DOMAIN fs = DOMAIN f /\ f = [p \in DOMAIN f |-> f[p]]
           /\ IsFiniteSet(DOMAIN f) /\ Cardinality(DOMAIN f) \in 0 .. MaxItems
           /\ \A p \in DOMAIN f : fs[p] =
                 IF p = "user.rs" /\ Applied(f, 1) THEN Source(f)
                 ELSE IF p = "user_test.rs" /\ Applied(f, 2) THEN Tests(f) ELSE f[p]
<1>1. f \in [DOMAIN f -> SUBSET STRING] /\ IsFiniteSet(DOMAIN f)
      /\ Cardinality(DOMAIN f) <= MaxItems
  BY FilesAssumption
<1>2. Cardinality(DOMAIN f) \in Nat
  BY <1>1, FS_CardinalityType
<1> QED
  BY <1>1, <1>2, BoundsAssumption DEF Edited

\* A listing is a sequence of every path of the file system.
LEMMA ListingIs ==
    ASSUME NEW f, IsFiniteSet(DOMAIN f), NEW q \in ListingsOf(f)
    PROVE  /\ Len(q) = Cardinality(DOMAIN f) /\ Len(q) \in Nat
           /\ \A i \in 1 .. Len(q) : q[i] \in DOMAIN f
           /\ \A p \in DOMAIN f : \E i \in 1 .. Len(q) : q[i] = p
<1> DEFINE n == Cardinality(DOMAIN f)
<1>1. n \in Nat
  BY FS_CardinalityType
<1>2. q \in [1 .. n -> DOMAIN f] /\ \A i, j \in 1 .. n : i # j => q[i] # q[j]
  BY DEF ListingsOf
<1>3. Len(q) = n
  <2>1. q \in Seq(DOMAIN f)
    BY <1>1, <1>2, SeqDef
  <2>2. DOMAIN q = 1 .. n /\ DOMAIN q = 1 .. Len(q) /\ Len(q) \in Nat
    BY <1>2, <2>1
  <2> QED
    BY <1>1, <2>2
<1>4. \A p \in DOMAIN f : \E i \in 1 .. n : q[i] = p
  <2>1. q \in Injection(1 .. n, DOMAIN f)
    BY <1>2 DEF Injection, IsInjective
  <2>2. Cardinality(1 .. n) = Cardinality(DOMAIN f)
    BY <1>1, FS_Interval
  <2>3. q \in Surjection(1 .. n, DOMAIN f)
    BY <2>1, <2>2, FS_Injection
  <2> QED
    BY <2>3 DEF Surjection
<1> QED
  BY <1>1, <1>2, <1>3, <1>4

\* PlanTask, given the summaries of every file, plans the two edits of Planned.
LEMMA PlanIs ==
    ASSUME NEW f, IsFiniteSet(DOMAIN f), NEW q \in ListingsOf(f)
    PROVE  Plan(Head1(2), Summaries(f, q)) = Planned(f)
<1> DEFINE S == Summaries(f, q)
           At(p) == CHOOSE j \in DOMAIN S : S[j].path = p
<1>1. /\ DOMAIN S = 1 .. Len(q)
      /\ \A i \in 1 .. Len(q) : S[i].path = q[i] /\ S[i].text = f[q[i]]
  BY DEF Summaries
<1> HIDE DEF S
<1>2. \A p \in DOMAIN f : S[At(p)].text = f[p]
  <2> SUFFICES ASSUME NEW p \in DOMAIN f PROVE S[At(p)].text = f[p]
    OBVIOUS
  <2>1. \E j \in DOMAIN S : S[j].path = p
    BY <1>1, ListingIs
  <2>2. At(p) \in DOMAIN S /\ S[At(p)].path = p
    BY <2>1
  <2> QED
    BY <1>1, <2>2
<1>3. {S[i].path : i \in DOMAIN S} = DOMAIN f
  <2>1. \A i \in 1 .. Len(q) : q[i] \in DOMAIN f
    BY ListingIs
  <2>2. \A p \in DOMAIN f : \E i \in 1 .. Len(q) : q[i] = p
    BY ListingIs
  <2> QED
    <3>1. {S[i].path : i \in DOMAIN S} \subseteq DOMAIN f
      BY <1>1, <2>1
    <3>2. ASSUME NEW p \in DOMAIN f PROVE p \in {S[i].path : i \in DOMAIN S}
      <4>1. PICK i \in 1 .. Len(q) : q[i] = p
        BY <2>2
      <4> QED
        BY <1>1, <4>1
    <3> QED
      BY <3>1, <3>2
<1>4. Plan(Head1(2), S) =
        IF Both \ DOMAIN f # {} THEN Err(Head1(2))
        ELSE Ok(<<[path |-> "user.rs",
                   text |-> IF "impl" \in S[At("user.rs")].text
                            THEN S[At("user.rs")].text \cup {"greet"}
                            ELSE S[At("user.rs")].text],
                  [path |-> "user_test.rs",
                   text |-> S[At("user_test.rs")].text \cup {"greet"}]>>)
  BY <1>3 DEF Plan, Both
<1>5. CASE Both \subseteq DOMAIN f
  <2>1. S[At("user.rs")].text = f["user.rs"] /\ S[At("user_test.rs")].text = f["user_test.rs"]
    BY <1>2, <1>5 DEF Both
  <2>2. Both \ DOMAIN f = {}
    BY <1>5
  <2> HIDE DEF At
  <2> QED
    BY <1>4, <1>5, <2>1, <2>2 DEF Planned, Source, Tests, S
<1>6. CASE ~(Both \subseteq DOMAIN f)
  <2>1. Both \ DOMAIN f # {}
    BY <1>6
  <2> HIDE DEF At
  <2> QED
    BY <1>4, <1>6, <2>1 DEF Planned, S
<1> QED
  BY <1>5, <1>6

LEMMA SolveScript ==
    ASSUME program = "solve", NEW f \in FileSystems, NEW q \in ListingsOf(f), fs = Edited(f)
    PROVE  Script(SolveGiven(f, q), SolveReturned(f, q))
<1> DEFINE given == SolveGiven(f, q)
           returned == SolveReturned(f, q)
           n == Len(q)
<1>1. /\ n \in Nat /\ n <= MaxItems /\ Width(1) = n /\ Width(2) = 0 /\ Width(4) = 0
      /\ Width(5) = 0 /\ Width(3) = IF Both \subseteq DOMAIN f THEN 2 ELSE 0
  BY FilesAre, ListingIs, BoundsAssumption DEF Width
<1>2. /\ Last = 5 /\ Shape[1] = "each" /\ Shape[2] = "one" /\ Shape[3] = "all"
      /\ Shape[4] = "one" /\ Shape[5] = "one"
      /\ FansOut(1) /\ ~FansOut(2) /\ ~FansOut(3) /\ ~FansOut(4) /\ ~FansOut(5)
  BY ShapesAre DEF FansOut
<1>3. /\ given[1] = q /\ given[2] = Summaries(f, q) /\ given[3] = Planned(f).val
      /\ given[4] = [i \in 1 .. Len(Planned(f).val) |-> Planned(f).val[i].path]
      /\ given[5] = [passed |-> Verdict(f)]
  BY DEF SolveGiven
<1>4. /\ returned[Head1(1)] = Ok(Summaries(f, q)) /\ returned[Head1(2)] = Planned(f)
      /\ returned[Head1(4)] = Ok([passed |-> Verdict(f)])
      /\ returned[Head1(5)] = Ok([success |-> Verdict(f)])
  BY IdsAre DEF SolveReturned, Head1
<1>5. \A i \in 1 .. n : returned[<<1, i>>] = Ok([path |-> q[i], text |-> f[q[i]]])
  <2>1. \A i \in 1 .. n : i \in 0 .. MaxItems /\ i # 0 /\ 1 \in 1 .. 5
    BY <1>1, BoundsAssumption
  <2>2. \A i \in 1 .. n : <<1, i>> \in Ids /\ i # 0
    BY <2>1, IdsAre
  <2>3. \A i : <<1, i>>[1] = 1 /\ <<1, i>>[2] = i
    OBVIOUS
  <2> QED
    BY <2>2, <2>3 DEF SolveReturned
<1>6. \A i \in 1 .. Width(3) :
         returned[<<3, i>>] = Ok(Planned(f).val[i].path)
  <2>1. \A i \in 1 .. Width(3) : i \in 0 .. MaxItems /\ 3 \in 1 .. 5
    <3>1. CASE Both \subseteq DOMAIN f
      <4>1. Cardinality(Both) = 2
        <5>1. Cardinality({"user.rs"}) = 1 /\ IsFiniteSet({"user.rs"})
          BY FS_Singleton
        <5>2. Cardinality({"user.rs"} \cup {"user_test.rs"}) = 2
          <6>1. "user_test.rs" \notin {"user.rs"}
            OBVIOUS
          <6> QED
            BY ONLY <5>1, <6>1, FS_AddElement
        <5>3. Both = {"user.rs"} \cup {"user_test.rs"}
          BY DEF Both
        <5> QED
          BY <5>2, <5>3
      <4>2. Cardinality(Both) <= Cardinality(DOMAIN f)
        BY <3>1, FilesAre, FS_Subset
      <4>3. 2 <= MaxItems
        BY <4>1, <4>2, FilesAre, BoundsAssumption
      <4> QED
        BY <1>1, <3>1, <4>3, BoundsAssumption
    <3>2. CASE ~(Both \subseteq DOMAIN f)
      BY <1>1, <3>2
    <3> QED
      BY <3>1, <3>2
  <2>2. \A i \in 1 .. Width(3) : <<3, i>> \in Ids
    BY <2>1, IdsAre
  <2>3. ASSUME NEW i \in 1 .. Width(3)
        PROVE  returned[<<3, i>>] = Ok(Planned(f).val[i].path)
    <3>1. <<3, i>>[1] = 3 /\ <<3, i>>[2] = i /\ <<3, i>> \in Ids
      BY <2>2
    <3> QED
      BY <3>1 DEF SolveReturned
  <2> QED
    BY <2>3
<1> HIDE DEF given, returned, n
<1>7. ScriptAt(given, returned, 1)
  <2>1. Summaries(f, q) = [i \in 1 .. n |-> returned[<<1, i>>].val]
    <3>1. ASSUME NEW i \in 1 .. n
          PROVE  returned[<<1, i>>].val = [path |-> q[i], text |-> f[q[i]]]
      <4>1. returned[<<1, i>>] = Ok([path |-> q[i], text |-> f[q[i]]])
        BY <1>5
      <4> QED
        BY <4>1 DEF Ok
    <3> QED
      BY <3>1 DEF Summaries, n
  <2>2. ASSUME NEW i \in 1 .. Width(1) PROVE returned[<<1, i>>].ok
    <3>1. returned[<<1, i>>] = Ok([path |-> q[i], text |-> f[q[i]]])
      BY <1>1, <1>5
    <3> QED
      BY <3>1 DEF Ok
  <2>3. returned[Head1(1)] = Ok([i \in 1 .. Width(1) |-> returned[<<1, i>>].val])
    BY <1>1, <1>4, <2>1
  <2>4. Len(given[1]) = Width(1) /\ given[2] = returned[Head1(1)].val
    BY <1>1, <1>3, <1>4 DEF Ok, n
  <2> QED
    BY <1>2, <2>2, <2>3, <2>4 DEF ScriptAt
<1>8. ScriptAt(given, returned, 2)
  BY <1>2, <1>3, <1>4 DEF ScriptAt
<1>9. ScriptAt(given, returned, 3)
  <2>1. Len(given[3]) = Width(3)
    <3>1. CASE Both \subseteq DOMAIN f
      <4>1. given[3] = <<[path |-> "user.rs", text |-> Source(f)],
                         [path |-> "user_test.rs", text |-> Tests(f)]>>
        BY <1>3, <3>1 DEF Planned, Ok
      <4> QED
        BY <1>1, <3>1, <4>1
    <3>2. CASE ~(Both \subseteq DOMAIN f)
      <4>1. given[3] = <<>>
        BY <1>3, <3>2 DEF Planned, Err
      <4> QED
        BY <1>1, <3>2, <4>1
    <3> QED
      BY <3>1, <3>2
  <2>2. ASSUME NEW i \in 1 .. Width(3)
        PROVE  returned[<<3, i>>].val = Planned(f).val[i].path
    <3>1. returned[<<3, i>>] = Ok(Planned(f).val[i].path)
      BY <1>6
    <3> QED
      BY <3>1 DEF Ok
  <2>3. given[4] = [i \in 1 .. Width(3) |-> returned[<<3, i>>].val]
    BY <1>3, <2>1, <2>2
  <2> QED
    BY <1>2, <2>1, <2>3 DEF ScriptAt
<1>10. ScriptAt(given, returned, 4) /\ ScriptAt(given, returned, 5)
  BY <1>2, <1>3, <1>4 DEF ScriptAt, Ok
<1>11. \A s \in 1 .. Last : s \in {1, 2, 3, 4, 5}
  BY <1>2
<1> QED
  BY <1>7, <1>8, <1>9, <1>10, <1>11 DEF Script, given, returned

(***************************************************************************)
(* A state of the invariant                                                *)
(***************************************************************************)

\* Once the orchestrator has begun its body, a script is followed.
LEMMA Scripted ==
    ASSUME WInv, stage # 0
    PROVE  \E given, returned : Script(given, returned) /\ Follows(given, returned)
<1>1. CASE program = "pipeline"
  <2>1. Script(PipelineGiven, PipelineReturned) /\ Follows(PipelineGiven, PipelineReturned)
    BY <1>1, PipelineScript DEF WInv, Values, PipelineValues
  <2> QED
    BY <2>1
<1>2. CASE program = "solve"
  <2>1. PICK f \in FileSystems :
           \E q \in ListingsOf(f) :
              fs = Edited(f) /\ Follows(SolveGiven(f, q), SolveReturned(f, q))
    BY <1>2 DEF WInv, Values, SolveValues
  <2>2. PICK q \in ListingsOf(f) :
           fs = Edited(f) /\ Follows(SolveGiven(f, q), SolveReturned(f, q))
    BY <2>1
  <2> QED
    BY <1>2, <2>2, SolveScript
<1> QED
  BY <1>1, <1>2 DEF WInv, TypeOK

\* A task that has begun and not answered yet is of the stage the orchestrator
\* is in; no task of a later stage is there, nor any place beyond the items.
LEMMA NowIs ==
    ASSUME WInv, NEW id \in Ids \ {Root}, state[id] # "absent"
    PROVE  /\ stage # 0 /\ id[1] \in 1 .. stage /\ stage \in 1 .. Last
           /\ id = <<id[1], id[2]>> /\ id[2] \in 0 .. Width(id[1])
           /\ id[2] = 0 => Shape[id[1]] # "all"
           /\ state[id] # "answered" => id[1] = stage
<1>1. /\ id[1] \in 1 .. 5 /\ id[2] \in 0 .. MaxItems /\ id = <<id[1], id[2]>>
  BY IdsAre
<1>2. stage \in 0 .. Last /\ Last \in {4, 5}
  BY StagesAre DEF WInv, TypeOK
<1>3. id[1] <= stage
  BY <1>1, <1>2 DEF WInv, Tree, Absent
<1>4. id[1] \in 1 .. stage /\ stage \in 1 .. Last /\ id[1] \in 1 .. Last
  BY <1>1, <1>2, <1>3
<1>5. InOrder(id[1])
  BY <1>4 DEF WInv, Tree
<1>6. id[2] \in 0 .. Width(id[1])
  <2>1. PICK k \in 0 .. Width(id[1]) :
           \A i \in 1 .. MaxItems : state[<<id[1], i>>] # "absent" <=> i <= k
    BY <1>5 DEF InOrder
  <2>2. Width(id[1]) \in 0 .. MaxItems
    BY <1>1 DEF WInv, TypeOK
  <2>3. id[2] # 0 => id[2] <= k
    BY <1>1, <2>1
  <2> QED
    BY <1>1, <2>2, <2>3, BoundsAssumption
<1>7. id[2] = 0 => Shape[id[1]] # "all"
  BY <1>1, <1>5 DEF InOrder, Head1
<1>8. ASSUME id[1] < stage PROVE state[id] = "answered"
  <2>1. Whole(id[1])
    BY <1>4, <1>8 DEF WInv, Tree
  <2>2. CASE id[2] = 0
    BY <1>1, <1>7, <2>1, <2>2 DEF Whole, Good, Answered, Head1
  <2>3. CASE id[2] # 0
    <3>1. id[2] \in 1 .. Width(id[1])
      BY <1>6, <2>3
    <3> QED
      BY <1>1, <2>1, <3>1 DEF Whole, Good, Answered
  <2> QED
    BY <2>2, <2>3
<1> QED
  BY <1>1, <1>2, <1>4, <1>6, <1>7, <1>8

\* The items of the stage, and those of them that are spawned.
LEMMA ItemsAre ==
    ASSUME WInv, stage # 0
    PROVE  /\ stage \in 1 .. Last
           /\ Shape[stage] # "one" => Len(carried) = Width(stage)
           /\ Width(stage) \in 0 .. MaxItems
           /\ Items(stage) = {<<stage, i>> : i \in 1 .. Width(stage)}
           /\ \E k \in 0 .. Width(stage) :
                 /\ \A i \in 1 .. MaxItems : state[<<stage, i>>] # "absent" <=> i <= k
                 /\ Cardinality(Spawned(stage)) = k
                 /\ Spawned(stage) = Items(stage) <=> k = Width(stage)
<1>1. stage \in 1 .. Last /\ Last \in {4, 5}
  BY StagesAre DEF WInv, TypeOK
<1>2. Width(stage) \in 0 .. MaxItems
  BY <1>1 DEF WInv, TypeOK
<1>3. Shape[stage] # "one" => Len(carried) = Width(stage)
  BY <1>1, Scripted DEF Script, ScriptAt, Follows
<1>4. Items(stage) = {<<stage, i>> : i \in 1 .. Width(stage)}
  <2>1. CASE Shape[stage] = "one"
    <3>1. Width(stage) = 0
      BY <1>1, <2>1, StagesAre DEF WInv, TypeOK
    <3> QED
      BY <2>1, <3>1 DEF Items
  <2>2. CASE Shape[stage] # "one"
    BY <1>3, <2>2 DEF Items
  <2> QED
    BY <2>1, <2>2
<1>5. PICK k \in 0 .. Width(stage) :
         \A i \in 1 .. MaxItems : state[<<stage, i>>] # "absent" <=> i <= k
  BY <1>1 DEF WInv, Tree, InOrder
<1>6. Spawned(stage) = {<<stage, i>> : i \in 1 .. k}
  <2>1. \A i \in 1 .. Width(stage) : i \in 1 .. MaxItems
    BY <1>2, BoundsAssumption
  <2>2. \A i \in 1 .. k : i \in 1 .. Width(stage)
    BY <1>2
  <2> QED
    BY <1>4, <1>5, <2>1, <2>2 DEF Spawned
<1>7. Cardinality(Spawned(stage)) = k
  <2> DEFINE g == [i \in 1 .. k |-> <<stage, i>>]
  <2>1. g \in Bijection(1 .. k, Spawned(stage))
    <3>1. g \in [1 .. k -> Spawned(stage)]
      BY <1>6
    <3>2. \A i, j \in 1 .. k : g[i] = g[j] => i = j
      OBVIOUS
    <3>3. \A id \in Spawned(stage) : \E i \in 1 .. k : g[i] = id
      BY <1>6
    <3> HIDE DEF g
    <3> QED
      BY <3>1, <3>2, <3>3, Fun_IsBij
  <2>2. k \in Nat /\ 1 \in Int /\ k \in Int
    BY <1>2
  <2>3. Cardinality(1 .. k) = k /\ IsFiniteSet(1 .. k)
    BY <2>2, FS_Interval
  <2> HIDE DEF g
  <2> QED
    BY <2>1, <2>3, FS_Bijection DEF ExistsBijection
<1>8. Spawned(stage) = Items(stage) <=> k = Width(stage)
  <2>1. ASSUME k # Width(stage) PROVE Spawned(stage) # Items(stage)
    <3>1. Width(stage) \in 1 .. Width(stage) /\ ~(Width(stage) \in 1 .. k)
      BY <1>2, <2>1
    <3>2. <<stage, Width(stage)>> \in Items(stage) /\ <<stage, Width(stage)>> \notin Spawned(stage)
      BY <1>4, <1>6, <3>1
    <3> QED
      BY <3>2
  <2> QED
    BY <1>4, <1>6, <2>1
<1> QED
  BY <1>1, <1>2, <1>3, <1>4, <1>5, <1>7, <1>8

\* What has been awaited when the items are over, well or with an error.
LEMMA AwaitedAre ==
    ASSUME WInv, stage # 0
    PROVE  /\ ItemsOk(stage) => \A i \in 1 .. Width(stage) : Good(<<stage, i>>)
           /\ Spawned(stage) = Items(stage) =>
                 \A i \in 1 .. Width(stage) : state[<<stage, i>>] # "absent"
           /\ \A id \in Items(stage) : FirstError(stage, id) =>
                 \E i \in 1 .. Width(stage) :
                    /\ id = <<stage, i>> /\ Bad(<<stage, i>>)
                    /\ \A j \in 1 .. Width(stage) : j < i => Good(<<stage, j>>)
<1>1. /\ Items(stage) = {<<stage, i>> : i \in 1 .. Width(stage)}
      /\ Width(stage) \in 0 .. MaxItems
  BY ItemsAre
<1>2. ASSUME Spawned(stage) = Items(stage), NEW i \in 1 .. Width(stage)
      PROVE  state[<<stage, i>>] # "absent"
  BY <1>1, <1>2 DEF Spawned
<1>3. ASSUME ItemsOk(stage), NEW i \in 1 .. Width(stage) PROVE Good(<<stage, i>>)
  BY <1>1, <1>3 DEF ItemsOk
<1>4. ASSUME NEW id \in Items(stage), FirstError(stage, id)
      PROVE  \E i \in 1 .. Width(stage) :
                /\ id = <<stage, i>> /\ Bad(<<stage, i>>)
                /\ \A j \in 1 .. Width(stage) : j < i => Good(<<stage, j>>)
  <2>1. PICK i \in 1 .. Width(stage) : id = <<stage, i>>
    BY <1>1
  <2>2. Bad(<<stage, i>>) /\ id[2] = i
    BY <1>4, <2>1 DEF FirstError
  <2>3. ASSUME NEW j \in 1 .. Width(stage), j < i PROVE Good(<<stage, j>>)
    <3>1. <<stage, j>> \in Items(stage) /\ <<stage, j>>[2] = j
      BY <1>1
    <3> QED
      BY <1>4, <2>2, <2>3, <3>1 DEF FirstError
  <2> QED
    BY <2>1, <2>2, <2>3
<1> QED
  BY <1>2, <1>3, <1>4

\* An edit that is ready is one of the two of the plan.
LEMMA EditsAre ==
    ASSUME WInv, NEW id \in Ids \ {Root}, state[id] = "ready", Edits(id),
           NEW f \in FileSystems, NEW q \in ListingsOf(f), fs = Edited(f),
           Follows(SolveGiven(f, q), SolveReturned(f, q))
    PROVE  /\ Both \subseteq DOMAIN f /\ stage = 3 /\ id[2] \in {1, 2} /\ id = <<3, id[2]>>
           /\ id[2] = 1 => carried[id[2]] = [path |-> "user.rs", text |-> Source(f)]
           /\ id[2] = 2 => carried[id[2]] = [path |-> "user_test.rs", text |-> Tests(f)]
<1>1. program = "solve" /\ id[1] = 3
  BY DEF Edits
<1>2. stage = 3 /\ id = <<3, id[2]>> /\ id[2] \in 0 .. Width(3) /\ id[2] # 0
  BY <1>1, NowIs, ShapesAre
<1>3. DOMAIN fs = DOMAIN f
  BY FilesAre
<1>4. Width(3) = IF Both \subseteq DOMAIN f THEN 2 ELSE 0
  BY <1>1, <1>3 DEF Width
<1>5. Both \subseteq DOMAIN f /\ id[2] \in {1, 2}
  BY <1>2, <1>4
<1>6. carried = <<[path |-> "user.rs", text |-> Source(f)],
                  [path |-> "user_test.rs", text |-> Tests(f)]>>
  <2>1. carried = Planned(f).val
    BY <1>2 DEF Follows, SolveGiven
  <2> QED
    BY <1>5, <2>1 DEF Planned, Ok
<1> QED
  BY <1>2, <1>5, <1>6

\* No step changes which program runs, its lines, or which files there are.
LEMMA SetupKept ==
    ASSUME WInv, Next
    PROVE  /\ program' = program /\ lines' = lines /\ DOMAIN fs' = DOMAIN fs
           /\ Shape' = Shape /\ Last' = Last
           /\ \A s : Width(s)' = Width(s) /\ (FansOut(s))' = FansOut(s)
<1>1. program' = program /\ lines' = lines
  BY DEF Next, Call, Return, Body, Begin, SpawnStage, SpawnItem, Advance, GiveUp, FanBegin,
         FanEnd, Step, RunLeaf, Close, Reply
<1>2. DOMAIN fs' = DOMAIN fs
  <2>1. ASSUME NEW id \in Ids, RunLeaf(id), Edits(id) PROVE DOMAIN fs' = DOMAIN fs
    <3>1. id \in Ids \ {Root} /\ state[id] = "ready" /\ program = "solve"
      BY <2>1 DEF RunLeaf, Edits
    <3>2. stage # 0
      BY <3>1, NowIs
    <3>3. PICK f \in FileSystems :
             \E q \in ListingsOf(f) :
                fs = Edited(f) /\ Follows(SolveGiven(f, q), SolveReturned(f, q))
      BY <3>1, <3>2 DEF WInv, Values, SolveValues
    <3>4. PICK q \in ListingsOf(f) :
             fs = Edited(f) /\ Follows(SolveGiven(f, q), SolveReturned(f, q))
      BY <3>3
    <3>5. id[2] # 0 /\ carried[id[2]].path \in DOMAIN fs
      <4>1. Both \subseteq DOMAIN f /\ id[2] \in {1, 2} /\ carried[id[2]].path \in Both
        <5>1. /\ Both \subseteq DOMAIN f /\ id[2] \in {1, 2}
              /\ id[2] = 1 => carried[id[2]] = [path |-> "user.rs", text |-> Source(f)]
              /\ id[2] = 2 => carried[id[2]] = [path |-> "user_test.rs", text |-> Tests(f)]
          BY <2>1, <3>1, <3>4, EditsAre
        <5> QED
          BY <5>1 DEF Both
      <4> QED
        BY <3>4, <4>1, FilesAre
    <3> QED
      BY <2>1, <3>5 DEF RunLeaf
  <2>2. ASSUME NEW id \in Ids, RunLeaf(id), ~Edits(id) PROVE fs' = fs
    BY <2>2 DEF RunLeaf
  <2>3. ASSUME NEW id \in Ids, Close(id) \/ Reply(id) PROVE fs' = fs
    BY <2>3 DEF Close, Reply
  <2>4. ASSUME Call \/ Return \/ Body PROVE fs' = fs
    BY <2>4 DEF Call, Return, Body, Begin, SpawnStage, SpawnItem, Advance, GiveUp, FanBegin,
                FanEnd
  <2> QED
    BY <2>1, <2>2, <2>3, <2>4 DEF Next, Step
<1>3. Shape' = Shape
  BY <1>1 DEF Shape
<1> QED
  BY <1>1, <1>2, <1>3 DEF Last, Width, FansOut

(***************************************************************************)
(* The tree grows                                                          *)
(***************************************************************************)

\* Task id, which has begun and has no answer yet, goes on to b. Nothing else does.
Moves(id, b) ==
    /\ id \in Ids /\ state[id] \notin {"absent", "answered"}
    /\ b \in {"body", "ran", "closed", "answered"}
    /\ Done(id) => b # "body" /\ out'[id] = out[id]
    /\ state' = [state EXCEPT ![id] = b]
    /\ \A x \in Ids : x # id => out'[x] = out[x]
    /\ stage' = stage

\* What else it takes to keep the tree: for the task of a stage that fans out and
\* for the orchestrator.
Awaits(id, b) ==
    /\ id # Root /\ FansOut(id[1]) /\ id[2] = 0 /\ b # "body" /\ ~Done(id) =>
          /\ \A i \in 1 .. Width(id[1]) : state[<<id[1], i>>] # "absent"
          /\ out'[id].ok => \A i \in 1 .. Width(id[1]) : Good(<<id[1], i>>)
    /\ id = Root => b # "body"
    /\ id = Root /\ stage # 0 /\ ~Done(id) /\ out'[id].ok => stage = Last /\ Whole(Last)

LEMMA MovesTree ==
    ASSUME WInv, Next, NEW id, NEW b, Moves(id, b), Awaits(id, b)
    PROVE  Tree'
<1>1. /\ Shape' = Shape /\ Last' = Last /\ Last \in {4, 5}
      /\ \A s : Width(s)' = Width(s) /\ (FansOut(s))' = FansOut(s)
  BY SetupKept, StagesAre DEF WInv, TypeOK
<1>2. /\ \A x \in Ids : state'[x] = IF x = id THEN b ELSE state[x]
      /\ state \in [Ids -> Life]
  BY DEF Moves, WInv, TypeOK
<1>3. /\ \A x \in Ids : /\ state'[x] = "absent" <=> state[x] = "absent"
                        /\ state'[x] = "ready" => state[x] = "ready"
                        /\ Good(x) => Good(x)'
  BY <1>2 DEF Moves, Good, Answered
<1>4. \A t \in 1 .. 5, i \in 0 .. MaxItems : <<t, i>> \in Ids /\ <<t, i>> # Root
  BY IdsAre
<1>5. \A t \in 1 .. Last : Width(t) \in 0 .. MaxItems /\ t \in 1 .. 5 /\ Head1(t) \in Ids
  <2>1. \A t \in 1 .. Last : t \in 1 .. 5
    BY <1>1
  <2>2. \A t \in 1 .. 5 : Width(t) \in 0 .. MaxItems
    BY DEF WInv, TypeOK
  <2> QED
    BY <2>1, <2>2, IdsAre
<1>6. \A t \in 1 .. Last : \A i \in 1 .. Width(t) : <<t, i>> \in Ids
  <2>1. \A t \in 1 .. Last : \A i \in 1 .. Width(t) : i \in 0 .. MaxItems
    BY <1>5, BoundsAssumption
  <2> QED
    BY <1>4, <1>5, <2>1
<1>7. ASSUME NEW t \in 1 .. Last, Whole(t) PROVE Whole(t)'
  BY <1>1, <1>3, <1>5, <1>6, <1>7 DEF Whole
<1>8. ASSUME NEW t \in 1 .. 5, Absent(t) PROVE Absent(t)'
  BY <1>3, <1>4, <1>8 DEF Absent
<1>9. ASSUME NEW t \in 1 .. Last, InOrder(t) PROVE InOrder(t)'
  <2>1. \A i \in 1 .. MaxItems : <<t, i>> \in Ids
    BY <1>4, <1>5, BoundsAssumption
  <2>2. PICK k \in 0 .. Width(t) :
           \A i \in 1 .. MaxItems : state[<<t, i>>] # "absent" <=> i <= k
    BY <1>9 DEF InOrder
  <2>3. \A i \in 1 .. MaxItems : state'[<<t, i>>] # "absent" <=> i <= k
    BY <1>3, <2>1, <2>2
  <2>4. Shape[t] = "all" => state'[Head1(t)] = "absent"
    BY <1>3, <1>5, <1>9 DEF InOrder
  <2> QED
    BY <1>1, <2>3, <2>4 DEF InOrder, Head1
<1>10. ASSUME NEW t \in 1 .. Last, Fanned(t) PROVE Fanned(t)'
  <2> SUFFICES ASSUME FansOut(t) PROVE Fanned(t)'
    BY <1>1 DEF Fanned
  <2>1. \A i \in 1 .. MaxItems : <<t, i>> \in Ids
    BY <1>4, <1>5, BoundsAssumption
  <2>2. state'[Head1(t)] \in {"absent", "ready"} =>
           \A i \in 1 .. MaxItems : state'[<<t, i>>] = "absent"
    BY <1>3, <1>5, <1>10, <2>1 DEF Fanned
  <2>3. CASE Head1(t) # id \/ Done(id)
    <3>1. Done(Head1(t))' => Done(Head1(t)) /\ out'[Head1(t)] = out[Head1(t)]
      BY <1>2, <1>5, <2>3 DEF Done, Moves
    <3>2. Done(Head1(t))' => \A i \in 1 .. Width(t) : state'[<<t, i>>] # "absent"
      BY <1>3, <1>6, <1>10, <3>1 DEF Fanned
    <3>3. Done(Head1(t))' /\ out'[Head1(t)].ok => \A i \in 1 .. Width(t) : Good(<<t, i>>)'
      BY <1>3, <1>6, <1>10, <3>1 DEF Fanned
    <3> QED
      BY <1>1, <2>2, <3>2, <3>3 DEF Fanned
  <2>4. CASE Head1(t) = id /\ ~Done(id)
    <3>1. id # Root /\ id[1] = t /\ id[2] = 0
      BY <1>5, <2>4, IdsAre DEF Head1
    <3>2. Done(Head1(t))' => b # "body"
      BY <1>2, <1>5, <2>4 DEF Done
    <3>3. Done(Head1(t))' => \A i \in 1 .. Width(t) : state'[<<t, i>>] # "absent"
      BY <1>3, <1>6, <2>4, <3>1, <3>2 DEF Awaits
    <3>4. Done(Head1(t))' /\ out'[Head1(t)].ok => \A i \in 1 .. Width(t) : Good(<<t, i>>)'
      BY <1>3, <1>6, <2>4, <3>1, <3>2 DEF Awaits
    <3> QED
      BY <1>1, <2>2, <3>3, <3>4 DEF Fanned
  <2> QED
    BY <2>3, <2>4
<1>11. /\ state'[Root] \in {"absent", "ready"} => stage' = 0
       /\ state'[Root] = "body" => stage' # 0
  BY <1>2, <1>3, IdsAre DEF Moves, Awaits, WInv, Tree
<1>12. ASSUME stage' # 0, Done(Root)', out'[Root].ok
       PROVE  stage' = Last /\ Whole(Last)'
  <2>1. stage = Last /\ Whole(Last)
    BY <1>2, <1>12, IdsAre DEF Moves, Awaits, WInv, Tree, Done
  <2>2. Last \in 1 .. Last
    BY <1>1
  <2> QED
    BY <1>1, <1>7, <2>1, <2>2 DEF Moves
<1>13. /\ \A t \in 1 .. 5 : t > stage' => Absent(t)'
       /\ \A t \in 1 .. Last : t < stage' => Whole(t)'
       /\ \A t \in 1 .. Last : InOrder(t)' /\ Fanned(t)'
  BY <1>7, <1>8, <1>9, <1>10 DEF Moves, WInv, Tree
<1> QED
  BY <1>1, <1>11, <1>12, <1>13 DEF Tree

\* The stage the orchestrator has awaited is whole.
LEMMA AwaitedWhole ==
    ASSUME WInv, stage # 0,
           IF Shape[stage] = "all" THEN ItemsOk(stage) ELSE Good(Head1(stage))
    PROVE  Whole(stage)
<1>1. stage \in 1 .. Last
  BY ItemsAre
<1>2. CASE Shape[stage] = "all"
  BY <1>2, AwaitedAre DEF Whole
<1>3. CASE Shape[stage] = "one"
  <2>1. Width(stage) = 0
    BY <1>1, <1>3, StagesAre DEF WInv, TypeOK
  <2> QED
    BY <1>3, <2>1 DEF Whole
<1>4. CASE FansOut(stage)
  <2>1. Fanned(stage) /\ Good(Head1(stage))
    BY <1>1, <1>4, StagesAre DEF WInv, Tree, TypeOK
  <2>2. \A i \in 1 .. Width(stage) : Good(<<stage, i>>)
    BY <1>4, <2>1 DEF Fanned, Good, Answered, Done
  <2> QED
    BY <2>1, <2>2 DEF Whole
<1> QED
  BY <1>1, <1>2, <1>3, <1>4, StagesAre DEF WInv, TypeOK

\* A task that ends its body or its closure moves, and its result is the new one.
LEMMA EndsMoves ==
    ASSUME WInv, NEW id \in Ids, NEW o, Ends(id, o), stage' = stage,
           state[id] \in {"ready", "body"}
    PROVE  Moves(id, "ran") /\ out'[id] = o /\ ~Done(id)
<1>1. out = [x \in Ids |-> out[x]]
  BY DEF WInv, TypeOK
<1>2. out'[id] = o /\ \A x \in Ids : x # id => out'[x] = out[x]
  BY <1>1 DEF Ends
<1> QED
  BY <1>2 DEF Moves, Ends, Done

\* The steps in which one task goes on.
LEMMA GoesOn ==
    ASSUME WInv,
           \/ Begin /\ stage' = stage
           \/ \E s \in 1 .. Last : \/ Advance(s) /\ stage' = stage
                                   \/ GiveUp(s) \/ FanBegin(s) \/ FanEnd(s)
           \/ \E id \in Ids : Step(id)
    PROVE  \E id, b : Moves(id, b) /\ Awaits(id, b)
<1> USE IdsAre
<1>1. /\ Last \in {4, 5} /\ out = [x \in Ids |-> out[x]] /\ state \in [Ids -> Life]
      /\ \A s \in 1 .. Last : Head1(s) \in Ids \ {Root} /\ Head1(s)[1] = s /\ Head1(s)[2] = 0
  <2>1. Last \in {4, 5}
    BY StagesAre DEF WInv, TypeOK
  <2>2. \A s \in 1 .. Last : s \in 1 .. 5
    BY <2>1
  <2>3. \A s \in 1 .. Last : Head1(s)[1] = s /\ Head1(s)[2] = 0
    BY DEF Head1
  <2> QED
    BY <2>1, <2>2, <2>3 DEF WInv, TypeOK
<1>2. ASSUME Begin, stage' = stage PROVE Moves(Root, "ran") /\ Awaits(Root, "ran")
  <2>1. state[Root] = "ready" /\ stage = 0
    BY <1>2 DEF Begin, WInv, Tree
  <2>2. Ends(Root, entry)
    BY <1>2, <2>1 DEF Begin
  <2> QED
    BY <1>2, <2>1, <2>2, EndsMoves DEF Awaits
<1>3. ASSUME NEW s \in 1 .. Last, Advance(s), stage' = stage
      PROVE  Moves(Root, "ran") /\ Awaits(Root, "ran")
  <2>1. /\ s = stage /\ state[Root] = "body" /\ stage # 0
        /\ IF Shape[stage] = "all" THEN ItemsOk(stage) ELSE Good(Head1(stage))
    BY <1>1, <1>3 DEF Advance, InStage
  <2>2. ~(s < Last) /\ s = Last
    BY <1>1, <1>3, <2>1 DEF Advance, Last
  <2>3. \E o : Ends(Root, o)
    BY <1>3, <2>2 DEF Advance, Last
  <2>4. Whole(Last)
    BY <2>1, <2>2, AwaitedWhole
  <2> QED
    BY <1>3, <2>1, <2>2, <2>3, <2>4, EndsMoves DEF Awaits
<1>4. ASSUME NEW s \in 1 .. Last, GiveUp(s)
      PROVE  Moves(Root, "ran") /\ Awaits(Root, "ran")
  <2>1. state[Root] = "body" /\ stage' = stage
    BY <1>4 DEF GiveUp, InStage
  <2>2. PICK x : Ends(Root, Err(x))
    BY <1>4 DEF GiveUp
  <2>3. Moves(Root, "ran") /\ ~out'[Root].ok
    BY <2>1, <2>2, EndsMoves DEF Err
  <2> QED
    BY <2>3 DEF Awaits
<1>5. ASSUME NEW s \in 1 .. Last, FanBegin(s)
      PROVE  Moves(Head1(s), "body") /\ Awaits(Head1(s), "body")
  BY <1>1, <1>5 DEF FanBegin, Move, Moves, Awaits, Done
<1>6. ASSUME NEW s \in 1 .. Last, FanEnd(s)
      PROVE  Moves(Head1(s), "ran") /\ Awaits(Head1(s), "ran")
  <2>1. state[Head1(s)] = "body" /\ stage' = stage /\ FansOut(s)
    BY <1>6 DEF FanEnd
  <2>2. s = stage /\ stage # 0
    BY <1>1, <2>1, NowIs
  <2>3. CASE ItemsOk(s) /\ Ends(Head1(s), Ok(Collected(s)))
    <3>1. Moves(Head1(s), "ran")
      BY <1>1, <2>1, <2>3, EndsMoves
    <3>2. /\ \A i \in 1 .. Width(s) : Good(<<s, i>>)
          /\ \A i \in 1 .. Width(s) : state[<<s, i>>] # "absent"
      BY <2>2, <2>3, AwaitedAre DEF ItemsOk
    <3> QED
      BY <1>1, <3>1, <3>2 DEF Awaits
  <2>4. ASSUME NEW x \in Items(s), Ends(Head1(s), Err(x)), FirstError(s, x)
        PROVE  Moves(Head1(s), "ran") /\ Awaits(Head1(s), "ran")
    <3>1. Moves(Head1(s), "ran") /\ ~out'[Head1(s)].ok
      BY <1>1, <2>1, <2>4, EndsMoves DEF Err
    <3>2. \A i \in 1 .. Width(s) : state[<<s, i>>] # "absent"
      BY <2>2, <2>4, AwaitedAre DEF FirstError
    <3> QED
      BY <1>1, <3>1, <3>2 DEF Awaits
  <2> QED
    BY <1>6, <2>3, <2>4 DEF FanEnd, JoinedError
<1>7. ASSUME NEW id \in Ids, RunLeaf(id) PROVE Moves(id, "ran") /\ Awaits(id, "ran")
  <2>1. state[id] = "ready" /\ stage' = stage /\ id # Root /\ ~(FansOut(id[1]) /\ id[2] = 0)
    BY <1>7 DEF RunLeaf
  <2>2. \E o : Ends(id, o)
    BY <1>7 DEF RunLeaf
  <2>3. Moves(id, "ran")
    BY <2>1, <2>2, EndsMoves
  <2> QED
    BY <2>1, <2>3 DEF Awaits
<1>8. ASSUME NEW id \in Ids, Close(id) PROVE Moves(id, "closed") /\ Awaits(id, "closed")
  BY <1>1, <1>8 DEF Close, Move, Moves, Awaits, Done
<1>9. ASSUME NEW id \in Ids, Reply(id) PROVE Moves(id, "answered") /\ Awaits(id, "answered")
  BY <1>1, <1>9 DEF Reply, Move, Moves, Awaits, Done
<1> QED
  BY <1>2, <1>3, <1>4, <1>5, <1>6, <1>7, <1>8, <1>9 DEF Step

\* A call begins a new tree.
LEMMA CallTree ==
    ASSUME WInv, Call
    PROVE  Tree' /\ stage' = 0 /\ \A id \in Ids : ~Done(id)'
<1>1. /\ stage' = 0 /\ \A id \in Ids : state'[id] = IF id = Root THEN "ready" ELSE "absent"
  BY IdsAre DEF Call, NoTasks
<1>2. \A s \in 1 .. 5, i \in 0 .. MaxItems : state'[<<s, i>>] = "absent"
  BY <1>1, IdsAre
<1>3. Next
  BY DEF Call, Next
<1>4. /\ Shape' = Shape /\ Last' = Last /\ Last \in {4, 5}
      /\ \A s : Width(s)' = Width(s) /\ (FansOut(s))' = FansOut(s)
  BY <1>3, SetupKept, StagesAre DEF WInv, TypeOK
<1>5. \A t \in 1 .. Last : t \in 1 .. 5 /\ Width(t) \in 0 .. MaxItems
  <2>1. \A t \in 1 .. Last : t \in 1 .. 5
    BY <1>4
  <2> QED
    BY <2>1 DEF WInv, TypeOK
<1>6. 0 \in 0 .. MaxItems /\ \A i \in 1 .. MaxItems : i \in 0 .. MaxItems
  BY BoundsAssumption
<1>7. \A t \in 1 .. 5 : Absent(t)'
  BY <1>2 DEF Absent
<1>8. ASSUME NEW t \in 1 .. Last PROVE InOrder(t)' /\ Fanned(t)'
  <2>1. state'[Head1(t)] = "absent" /\ \A i \in 1 .. MaxItems : state'[<<t, i>>] = "absent"
    BY <1>2, <1>5, <1>6 DEF Head1
  <2>2. 0 \in 0 .. Width(t) /\ \A i \in 1 .. MaxItems : state'[<<t, i>>] # "absent" <=> i <= 0
    BY <1>5, <2>1, BoundsAssumption
  <2> QED
    BY <1>4, <2>1, <2>2 DEF InOrder, Fanned, Done
<1>9. state'[Root] = "ready"
  BY <1>1, IdsAre
<1>10. \A id \in Ids : ~Done(id)'
  BY <1>1 DEF Done
<1>11. \A t \in 1 .. Last : ~(t < 0)
  BY <1>5
<1> QED
  BY <1>1, <1>4, <1>7, <1>8, <1>9, <1>10, <1>11 DEF Tree

\* A task is spawned: the head of the stage, or its next item.
Spawns(i) ==
    /\ stage # 0 /\ i \in 0 .. Width(stage) /\ state[<<stage, i>>] = "absent"
    /\ state' = [state EXCEPT ![<<stage, i>>] = "ready"]
    /\ out' = out /\ stage' = stage
    /\ i = 0 => Shape[stage] # "all"
    /\ i # 0 => /\ \A j \in 1 .. MaxItems : j < i => state[<<stage, j>>] # "absent"
                /\ FansOut(stage) => state[Head1(stage)] = "body"

\* Every spawn is one of these.
LEMMA SpawnIs ==
    ASSUME WInv, NEW s \in 1 .. Last, SpawnStage(s) \/ SpawnItem(s)
    PROVE  \E i \in 0 .. Width(stage) : Spawns(i)
<1>1. Last \in {4, 5} /\ s \in 1 .. 5 /\ s # 0 /\ Head1(s) \in Ids \ {Root} /\ Head1(s)[1] = s
  <2>1. Last \in {4, 5}
    BY StagesAre DEF WInv, TypeOK
  <2>2. s \in 1 .. 5
    BY <2>1
  <2>3. Head1(s)[1] = s
    BY DEF Head1
  <2> QED
    BY <2>1, <2>2, <2>3, IdsAre
<1>2. CASE SpawnStage(s)
  <2>1. /\ s = stage /\ Shape[stage] # "all" /\ state[Head1(s)] = "absent"
        /\ state' = [state EXCEPT ![Head1(s)] = "ready"] /\ out' = out /\ stage' = stage
    BY <1>2 DEF SpawnStage, InStage
  <2>2. 0 \in 0 .. Width(stage)
    BY <1>1, <2>1, ItemsAre
  <2>3. Spawns(0)
    BY <1>1, <2>1, <2>2 DEF Spawns, Head1
  <2> QED
    BY <2>2, <2>3
<1>3. CASE SpawnItem(s)
  <2>1. /\ Spawned(s) # Items(s) /\ out' = out /\ stage' = stage
        /\ state' = [state EXCEPT ![<<s, Cardinality(Spawned(s)) + 1>>] = "ready"]
        /\ \/ s = stage /\ Shape[s] = "all"
           \/ FansOut(s) /\ state[Head1(s)] = "body"
    BY <1>3 DEF SpawnItem, InStage
  <2>2. s = stage /\ (FansOut(stage) => state[Head1(stage)] = "body")
    <3>1. CASE s = stage /\ Shape[s] = "all"
      BY <3>1 DEF FansOut
    <3>2. CASE FansOut(s) /\ state[Head1(s)] = "body"
      BY <1>1, <3>2, NowIs
    <3> QED
      BY <2>1, <3>1, <3>2
  <2>3. PICK k \in 0 .. Width(stage) :
           /\ \A i \in 1 .. MaxItems : state[<<stage, i>>] # "absent" <=> i <= k
           /\ Cardinality(Spawned(stage)) = k
           /\ Spawned(stage) = Items(stage) <=> k = Width(stage)
    BY <1>1, <2>2, ItemsAre
  <2>4. Width(stage) \in 0 .. MaxItems
    BY <1>1, <2>2, ItemsAre
  <2>5. k # Width(stage)
    BY <2>1, <2>2, <2>3
  <2>6. /\ k + 1 \in 0 .. Width(stage) /\ k + 1 \in 1 .. MaxItems /\ ~(k + 1 <= k)
        /\ \A j \in 1 .. MaxItems : j < k + 1 => j <= k
    BY <2>3, <2>4, <2>5, BoundsAssumption
  <2>7. Spawns(k + 1)
    BY <1>1, <2>1, <2>2, <2>3, <2>6 DEF Spawns
  <2> QED
    BY <2>6, <2>7
<1> QED
  BY <1>2, <1>3

LEMMA SpawnsTree ==
    ASSUME WInv, Next, NEW n \in 0 .. Width(stage), Spawns(n)
    PROVE  Tree'
<1> DEFINE id == <<stage, n>>
<1>1. /\ Shape' = Shape /\ Last' = Last /\ Last \in {4, 5}
      /\ \A s : Width(s)' = Width(s) /\ (FansOut(s))' = FansOut(s)
  BY SetupKept, StagesAre DEF WInv, TypeOK
<1>2. stage \in 1 .. Last /\ Width(stage) \in 0 .. MaxItems
  BY ItemsAre DEF Spawns
<1>3. id \in Ids /\ id # Root /\ state[id] = "absent"
  <2>1. n \in 0 .. MaxItems /\ stage \in 1 .. 5
    BY <1>1, <1>2, BoundsAssumption
  <2> QED
    BY <2>1, IdsAre DEF Spawns
<1>4. /\ \A x \in Ids : state'[x] = IF x = id THEN "ready" ELSE state[x]
      /\ out' = out /\ stage' = stage
  BY DEF Spawns, WInv, TypeOK
<1>5. \A x \in Ids : /\ Good(x) => Good(x)'
                     /\ Done(x)' => Done(x)
                     /\ state[x] # "absent" => state'[x] # "absent"
  BY <1>3, <1>4 DEF Good, Answered, Done
<1>6. \A t \in 1 .. 5, i \in 0 .. MaxItems : <<t, i>> \in Ids
  BY IdsAre
<1>7. \A t \in 1 .. Last : t \in 1 .. 5 /\ Width(t) \in 0 .. MaxItems /\ Head1(t) \in Ids
  <2>1. \A t \in 1 .. Last : t \in 1 .. 5
    BY <1>1
  <2> QED
    BY <2>1, IdsAre DEF WInv, TypeOK
<1>8. /\ \A t \in 1 .. Last : \A i \in 1 .. Width(t) : <<t, i>> \in Ids
      /\ \A t \in 1 .. Last : \A i \in 1 .. MaxItems : <<t, i>> \in Ids
  <2>1. \A t \in 1 .. Last : \A i \in 1 .. Width(t) : i \in 0 .. MaxItems
    BY <1>7, BoundsAssumption
  <2>2. \A i \in 1 .. MaxItems : i \in 0 .. MaxItems
    BY BoundsAssumption
  <2> QED
    BY <1>6, <1>7, <2>1, <2>2
<1>9. ASSUME NEW t \in 1 .. Last, Whole(t) PROVE Whole(t)'
  BY <1>1, <1>5, <1>7, <1>8, <1>9 DEF Whole
<1>10. ASSUME NEW t \in 1 .. 5, t > stage PROVE Absent(t)'
  <2>1. Absent(t) /\ \A i \in 0 .. MaxItems : <<t, i>> # id
    BY <1>2, <1>10 DEF WInv, Tree
  <2> QED
    BY <1>4, <1>6, <2>1 DEF Absent
<1>11. ASSUME NEW t \in 1 .. Last, t # stage PROVE InOrder(t)' /\ Fanned(t)'
  <2>1. InOrder(t) /\ Fanned(t)
    BY DEF WInv, Tree
  <2>2. /\ \A i \in 1 .. MaxItems : state'[<<t, i>>] = state[<<t, i>>]
        /\ \A i \in 1 .. Width(t) : state'[<<t, i>>] = state[<<t, i>>]
        /\ state'[Head1(t)] = state[Head1(t)]
    BY <1>4, <1>7, <1>8, <1>11 DEF Head1
  <2>3. \A i \in 1 .. Width(t) : Good(<<t, i>>) => Good(<<t, i>>)'
    BY <1>5, <1>8
  <2>4. InOrder(t)'
    BY <1>1, <2>1, <2>2 DEF InOrder, Head1
  <2>5. Fanned(t)'
    BY <1>1, <1>4, <2>1, <2>2, <2>3 DEF Fanned, Done, Head1
  <2> QED
    BY <2>4, <2>5
<1>12. InOrder(stage)' /\ Fanned(stage)'
  <2>1. InOrder(stage) /\ Fanned(stage)
    BY <1>2 DEF WInv, Tree
  <2>2. CASE n = 0
    <3>1. id = Head1(stage) /\ \A i \in 1 .. MaxItems : <<stage, i>> # id
      BY <2>2 DEF Head1
    <3>2. \A i \in 1 .. MaxItems : state'[<<stage, i>>] = state[<<stage, i>>]
      BY <1>2, <1>4, <1>8, <3>1
    <3>3. state'[Head1(stage)] = "ready" /\ state[Head1(stage)] = "absent"
      BY <1>3, <1>4, <3>1
    <3>4. InOrder(stage)'
      BY <1>1, <1>4, <2>1, <2>2, <3>2 DEF InOrder, Spawns
    <3>5. Fanned(stage)'
      BY <1>1, <1>4, <2>1, <3>2, <3>3 DEF Fanned, Done, Head1
    <3> QED
      BY <3>4, <3>5
  <2>3. CASE n # 0
    <3>1. Head1(stage) # id /\ state'[Head1(stage)] = state[Head1(stage)]
      BY <1>2, <1>4, <1>7, <2>3 DEF Head1
    <3>2. PICK k \in 0 .. Width(stage) :
             \A i \in 1 .. MaxItems : state[<<stage, i>>] # "absent" <=> i <= k
      BY <2>1 DEF InOrder
    <3>3. n = k + 1
      <4>1. n \in 1 .. MaxItems /\ ~(n <= k)
        BY <1>2, <1>3, <2>3, <3>2, BoundsAssumption
      <4>2. \A j \in 1 .. MaxItems : j < n => j <= k
        BY <2>3, <3>2 DEF Spawns
      <4>3. k + 1 < n => FALSE
        <5>1. k + 1 < n => k + 1 \in 1 .. MaxItems
          BY <1>2, <4>1, BoundsAssumption
        <5> QED
          BY <1>2, <4>2, <5>1
      <4> QED
        BY <1>2, <4>1, <4>3, BoundsAssumption
    <3>4. \A i \in 1 .. MaxItems : state'[<<stage, i>>] # "absent" <=> i <= n
      <4>1. \A i \in 1 .. MaxItems : i # n => <<stage, i>> # id
        OBVIOUS
      <4>2. \A i \in 1 .. MaxItems :
               state'[<<stage, i>>] = IF i = n THEN "ready" ELSE state[<<stage, i>>]
        BY <1>2, <1>4, <1>8, <4>1
      <4> QED
        BY <1>2, <3>2, <3>3, <4>2, BoundsAssumption
    <3>5. InOrder(stage)'
      BY <1>1, <1>4, <2>1, <3>1, <3>4 DEF InOrder, Head1
    <3>6. FansOut(stage) => state'[Head1(stage)] = "body"
      BY <2>3, <3>1 DEF Spawns
    <3>7. Fanned(stage)'
      BY <1>1, <1>4, <3>6 DEF Fanned, Done, Head1
    <3> QED
      BY <3>5, <3>7
  <2> QED
    BY <2>2, <2>3
<1>13. /\ state'[Root] = state[Root]
       /\ Root \in Ids
  BY <1>3, <1>4, IdsAre
<1>14. /\ state'[Root] \in {"absent", "ready"} => stage' = 0
       /\ state'[Root] = "body" => stage' # 0
  BY <1>4, <1>13 DEF WInv, Tree
<1>15. ASSUME stage' # 0, Done(Root)', out'[Root].ok PROVE stage' = Last /\ Whole(Last)'
  <2>1. stage = Last /\ Whole(Last) /\ Last \in 1 .. Last
    BY <1>1, <1>4, <1>13, <1>15 DEF WInv, Tree, Done
  <2> QED
    BY <1>4, <1>9, <2>1, <1>1
<1>16. /\ \A t \in 1 .. 5 : t > stage' => Absent(t)'
       /\ \A t \in 1 .. Last : t < stage' => Whole(t)'
       /\ \A t \in 1 .. Last : InOrder(t)' /\ Fanned(t)'
  <2>1. \A t \in 1 .. Last : t < stage => Whole(t)
    BY DEF WInv, Tree
  <2>2. \A t \in 1 .. Last : t = stage => InOrder(t)' /\ Fanned(t)'
    BY <1>4, <1>12
  <2> QED
    BY <1>4, <1>9, <1>10, <1>11, <2>1, <2>2
<1> QED
  BY <1>1, <1>14, <1>15, <1>16 DEF Tree

\* The orchestrator goes on to its next stage, which is the first or follows a
\* whole one.
LEMMA NextStageTree ==
    ASSUME WInv, Next, stage' = stage + 1, stage < Last, out' = out,
           stage # 0 => state' = state /\ state[Root] = "body" /\ Whole(stage),
           stage = 0 => state' = [state EXCEPT ![Root] = "body"]
    PROVE  Tree'
<1>1. /\ Shape' = Shape /\ Last' = Last /\ Last \in {4, 5} /\ stage \in 0 .. Last
      /\ \A s : Width(s)' = Width(s) /\ (FansOut(s))' = FansOut(s)
  BY SetupKept, StagesAre DEF WInv, TypeOK
<1>2. /\ \A x \in Ids \ {Root} : state'[x] = state[x]
      /\ state'[Root] = "body"
  <2>1. state \in [Ids -> Life] /\ Root \in Ids
    BY IdsAre DEF WInv, TypeOK
  <2> QED
    BY <2>1
<1>3. /\ \A t \in 1 .. 5, i \in 0 .. MaxItems : <<t, i>> \in Ids \ {Root}
      /\ \A t \in 1 .. 5 : Head1(t) \in Ids \ {Root}
  BY IdsAre
<1>4. \A t \in 1 .. Last : t \in 1 .. 5 /\ Width(t) \in 0 .. MaxItems
  <2>1. \A t \in 1 .. Last : t \in 1 .. 5
    BY <1>1
  <2> QED
    BY <2>1 DEF WInv, TypeOK
<1>5. /\ \A t \in 1 .. Last : \A i \in 1 .. Width(t) : <<t, i>> \in Ids \ {Root}
      /\ \A t \in 1 .. Last : \A i \in 1 .. MaxItems : <<t, i>> \in Ids \ {Root}
  <2>1. \A t \in 1 .. Last : \A i \in 1 .. Width(t) : i \in 0 .. MaxItems
    BY <1>4, BoundsAssumption
  <2>2. \A i \in 1 .. MaxItems : i \in 0 .. MaxItems
    BY BoundsAssumption
  <2> QED
    BY <1>3, <1>4, <2>1, <2>2
<1>6. ASSUME NEW t \in 1 .. Last, Whole(t) PROVE Whole(t)'
  BY <1>1, <1>2, <1>3, <1>4, <1>5, <1>6 DEF Whole, Good, Answered
<1>7. ASSUME NEW t \in 1 .. 5, Absent(t) PROVE Absent(t)'
  BY <1>2, <1>3, <1>7 DEF Absent
<1>8. ASSUME NEW t \in 1 .. Last, InOrder(t) PROVE InOrder(t)'
  BY <1>1, <1>2, <1>3, <1>4, <1>5, <1>8 DEF InOrder
<1>9. ASSUME NEW t \in 1 .. Last, Fanned(t) PROVE Fanned(t)'
  BY <1>1, <1>2, <1>3, <1>4, <1>5, <1>9 DEF Fanned, Done, Good, Answered
<1>10. \A t \in 1 .. 5 : t > stage' => t > stage
  BY <1>1
<1>11. \A t \in 1 .. Last : t < stage' => t < stage \/ (t = stage /\ stage # 0)
  BY <1>1
<1>12. \A t \in 1 .. Last : t < stage' => Whole(t)
  BY <1>11 DEF WInv, Tree
<1>13. /\ \A t \in 1 .. 5 : t > stage' => Absent(t)'
       /\ \A t \in 1 .. Last : t < stage' => Whole(t)'
       /\ \A t \in 1 .. Last : InOrder(t)' /\ Fanned(t)'
  BY <1>6, <1>7, <1>8, <1>9, <1>10, <1>12 DEF WInv, Tree
<1>14. ~Done(Root)' /\ stage' # 0
  BY <1>1, <1>2 DEF Done
<1> QED
  BY <1>1, <1>2, <1>13, <1>14 DEF Tree

LEMMA TreeNext ==
    ASSUME WInv, Next
    PROVE  Tree'
<1>1. /\ Shape' = Shape /\ Last' = Last /\ Last \in {4, 5} /\ stage \in 0 .. Last
      /\ \A s : Width(s)' = Width(s) /\ (FansOut(s))' = FansOut(s)
  BY SetupKept, StagesAre DEF WInv, TypeOK
<1>2. CASE Call
  BY <1>2, CallTree
<1>3. CASE Return
  BY <1>1, <1>3 DEF Return, WInv, Tree, Absent, Whole, InOrder, Fanned, Good, Answered, Done,
                    Head1
<1>4. CASE Begin
  <2>1. stage = 0 /\ state[Root] = "ready"
    BY <1>4 DEF Begin, WInv, Tree
  <2>2. CASE stage' = stage
    BY <1>4, <2>2, GoesOn, MovesTree
  <2>3. CASE stage' # stage
    BY <1>1, <1>4, <2>1, <2>3, NextStageTree DEF Begin
  <2> QED
    BY <2>2, <2>3
<1>5. ASSUME NEW s \in 1 .. Last, SpawnStage(s) \/ SpawnItem(s) PROVE Tree'
  BY <1>5, SpawnIs, SpawnsTree
<1>6. ASSUME NEW s \in 1 .. Last, Advance(s) PROVE Tree'
  <2>1. /\ s = stage /\ stage # 0 /\ state[Root] = "body"
        /\ IF Shape[stage] = "all" THEN ItemsOk(stage) ELSE Good(Head1(stage))
    BY <1>1, <1>6 DEF Advance, InStage
  <2>2. CASE s < Last
    <3>1. stage' = stage + 1 /\ state' = state /\ out' = out
      BY <1>6, <2>1, <2>2 DEF Advance, Last
    <3> QED
      BY <2>1, <2>2, <3>1, AwaitedWhole, NextStageTree
  <2>3. CASE ~(s < Last)
    <3>1. stage' = stage
      BY <1>6, <2>3 DEF Advance, Last
    <3> QED
      BY <1>6, <3>1, GoesOn, MovesTree
  <2> QED
    BY <2>2, <2>3
<1>7. ASSUME NEW s \in 1 .. Last, GiveUp(s) \/ FanBegin(s) \/ FanEnd(s) PROVE Tree'
  BY <1>7, GoesOn, MovesTree
<1>8. ASSUME NEW id \in Ids, Step(id) PROVE Tree'
  BY <1>8, GoesOn, MovesTree
<1> QED
  BY <1>2, <1>3, <1>4, <1>5, <1>6, <1>7, <1>8 DEF Next, Body, Last

LEMMA TypeOKNext ==
    ASSUME WInv, Next
    PROVE  TypeOK'
<1>1. /\ Shape' = Shape /\ Last' = Last /\ Last \in {4, 5} /\ stage \in 0 .. Last
      /\ program' = program /\ lines' = lines /\ \A s : Width(s)' = Width(s)
  BY SetupKept, StagesAre DEF WInv, TypeOK
<1>2. /\ program \in {"solve", "pipeline"} /\ main \in {"ready", "running", "done", "panicked"}
      /\ run \in 0 .. 3 /\ state \in [Ids -> Life] /\ out = [id \in Ids |-> out[id]]
      /\ program = "pipeline" => lines \in Batches
      /\ \A s \in 1 .. 5 : Width(s) \in 0 .. MaxItems
  BY DEF WInv, TypeOK
<1> DEFINE Fits == /\ run' \in 0 .. 3 /\ main' \in {"ready", "running", "done", "panicked"}
                   /\ state' \in [Ids -> Life] /\ out' = [id \in Ids |-> out'[id]]
                   /\ stage' \in 0 .. Last
<1> SUFFICES Fits
  BY <1>1, <1>2 DEF TypeOK
<1>3. ASSUME NEW id \in Ids, NEW o, Ends(id, o)
      PROVE  state' \in [Ids -> Life] /\ out' = [x \in Ids |-> out'[x]]
  BY <1>2, <1>3 DEF Ends, Life
<1>4. CASE Call
  <2>1. run' = run + 1 /\ run < Runs /\ Runs \in {1, 3}
    BY <1>4 DEF Call, Runs
  <2>2. /\ state' = [NoTasks EXCEPT ![Root] = "ready"] /\ out' = NoOuts /\ stage' = 0
        /\ main' = "running"
    BY <1>4 DEF Call
  <2>3. state' \in [Ids -> Life] /\ out' = [id \in Ids |-> out'[id]]
    BY <2>2 DEF NoTasks, NoOuts, Life
  <2> QED
    BY <1>1, <1>2, <2>1, <2>2, <2>3
<1>5. CASE Return
  BY <1>1, <1>2, <1>5 DEF Return
<1>6. CASE Begin
  <2>1. stage = 0 /\ run' = run /\ main' = main
    BY <1>6 DEF Begin, WInv, Tree
  <2>2. CASE Ends(Root, entry) /\ UNCHANGED stage
    BY <1>1, <1>2, <1>3, <2>1, <2>2, IdsAre
  <2>3. CASE state' = [state EXCEPT ![Root] = "body"] /\ stage' = 1 /\ UNCHANGED out
    <3>1. state' \in [Ids -> Life]
      BY <1>2, <2>3 DEF Life
    <3>2. out' = [id \in Ids |-> out'[id]]
      BY <1>2, <2>3
    <3>3. stage' \in 0 .. Last
      BY <1>1, <2>3
    <3> QED
      BY <1>2, <2>1, <3>1, <3>2, <3>3
  <2> QED
    BY <1>6, <2>2, <2>3 DEF Begin
<1>7. ASSUME NEW s \in 1 .. Last, SpawnStage(s) \/ SpawnItem(s) PROVE Fits
  <2>1. /\ run' = run /\ main' = main /\ stage' = stage /\ out' = out
        /\ \E id : state' = [state EXCEPT ![id] = "ready"]
    BY <1>7 DEF SpawnStage, SpawnItem
  <2> QED
    BY <1>1, <1>2, <2>1 DEF Life
<1>8. ASSUME NEW s \in 1 .. Last, Advance(s) PROVE Fits
  <2>1. run' = run /\ main' = main /\ s = stage
    BY <1>8 DEF Advance, InStage
  <2>2. CASE s < Last
    <3>1. stage' = s + 1 /\ state' = state /\ out' = out
      BY <1>8, <2>2 DEF Advance, Last
    <3> QED
      BY <1>1, <1>2, <2>1, <2>2, <3>1
  <2>3. CASE ~(s < Last)
    <3>1. stage' = stage /\ \E o : Ends(Root, o)
      BY <1>8, <2>3 DEF Advance, Last
    <3> QED
      BY <1>1, <1>2, <1>3, <2>1, <3>1, IdsAre
  <2> QED
    BY <2>2, <2>3
<1>9. ASSUME NEW s \in 1 .. Last, GiveUp(s) \/ FanEnd(s) PROVE Fits
  <2>1. run' = run /\ main' = main /\ stage' = stage
    BY <1>9 DEF GiveUp, FanEnd
  <2>2. Root \in Ids /\ Head1(s) \in Ids
    <3>1. s \in 1 .. 5
      BY <1>1
    <3> QED
      BY <3>1, IdsAre
  <2>3. \E id \in Ids : \E o : Ends(id, o)
    BY <1>9, <2>2 DEF GiveUp, FanEnd
  <2> QED
    BY <1>1, <1>2, <1>3, <2>1, <2>3
<1>10. ASSUME NEW s \in 1 .. Last, FanBegin(s) PROVE Fits
  BY <1>1, <1>2, <1>10 DEF FanBegin, Move, Life
<1>11. ASSUME NEW id \in Ids, Step(id) PROVE Fits
  <2>1. CASE RunLeaf(id)
    <3>1. run' = run /\ main' = main /\ stage' = stage /\ \E o : Ends(id, o)
      BY <2>1 DEF RunLeaf
    <3> QED
      BY <1>1, <1>2, <1>3, <3>1
  <2>2. CASE Close(id) \/ Reply(id)
    BY <1>1, <1>2, <2>2 DEF Close, Reply, Move, Life
  <2> QED
    BY <1>11, <2>1, <2>2 DEF Step
<1> HIDE DEF Fits
<1> QED
  BY <1>4, <1>5, <1>6, <1>7, <1>8, <1>9, <1>10, <1>11 DEF Next, Body, Last

(***************************************************************************)
(* The cache                                                               *)
(***************************************************************************)

\* A step that leaves main, the entry and the orchestrator's answer alone.
LEMMA CacheKept ==
    ASSUME Cache, program' = program, run' = run, main' = main, entry' = entry,
           stage' = 0 <=> stage = 0, Done(Root)' <=> Done(Root), out'[Root] = out[Root],
           state[Root] = "absent" => state'[Root] = "absent"
    PROVE  Cache'
BY DEF Cache

LEMMA CacheNext ==
    ASSUME WInv, Next
    PROVE  Cache'
<1>1. /\ Root \in Ids /\ program' = program /\ run \in 0 .. 3
      /\ main \in {"ready", "running", "done", "panicked"}
      /\ state \in [Ids -> Life] /\ out = [id \in Ids |-> out[id]] /\ Cache
      /\ Last \in {4, 5} /\ program \in {"solve", "pipeline"}
  BY SetupKept, IdsAre, StagesAre DEF WInv, TypeOK
<1>3. CASE Call
  <2>1. /\ run' = run + 1 /\ run < Runs /\ main' = "running" /\ stage' = 0 /\ entry' = entry
        /\ main = "ready" /\ Runs = (IF program = "pipeline" THEN 3 ELSE 1)
    BY <1>3 DEF Call, Runs
  <2>2. ~Done(Root)'
    BY <1>1, <1>3, CallTree
  <2> QED
    BY <1>1, <2>1, <2>2 DEF Cache
<1>4. CASE Return
  <2>1. /\ run' = run /\ entry' = entry /\ stage' = stage /\ state' = state /\ out' = out
        /\ state[Root] = "answered" /\ (main' = "ready" => out[Root].ok)
    BY <1>4 DEF Return, Answered
  <2> QED
    BY <1>1, <2>1 DEF Cache, Done
<1>5. CASE Begin
  <2>1. /\ stage = 0 /\ state[Root] = "ready" /\ run' = run /\ entry' = entry /\ main' = main
        /\ main = "running"
    BY <1>5 DEF Begin, WInv, Tree, Running
  <2>2. ~Done(Root) /\ run # 0
    BY <1>1, <2>1 DEF Done, Cache
  <2>3. CASE Cached /\ entry.ok
    <3>1. run = 3
      BY <1>1, <2>2, <2>3 DEF Cache, Cached
    <3>2. stage' = 0
      BY <1>5, <2>1, <2>3 DEF Begin
    <3> QED
      BY <1>1, <2>1, <3>1, <3>2 DEF Cache
  <2>4. CASE ~(Cached /\ entry.ok)
    <3>1. run # 3
      BY <1>1, <2>4 DEF Cache, Cached
    <3>2. stage' = 1 /\ state'[Root] = "body"
      BY <1>1, <1>5, <2>4 DEF Begin
    <3>3. ~Done(Root)' /\ run \in {1, 2}
      BY <1>1, <2>2, <3>1, <3>2 DEF Done
    <3> QED
      BY <1>1, <2>1, <2>2, <3>2, <3>3 DEF Cache
  <2> QED
    BY <2>3, <2>4
<1>6. ASSUME NEW s \in 1 .. Last, SpawnStage(s) \/ SpawnItem(s) PROVE Cache'
  <2>1. PICK n \in 0 .. Width(stage) : Spawns(n)
    BY <1>6, SpawnIs
  <2>2. <<stage, n>> # Root /\ stage' = stage /\ out' = out
    BY <2>1 DEF Spawns, Root
  <2>3. state'[Root] = state[Root]
    BY <1>1, <2>1, <2>2 DEF Spawns
  <2>4. run' = run /\ main' = main /\ entry' = entry
    BY <1>6 DEF SpawnStage, SpawnItem
  <2> QED
    BY <1>1, <2>2, <2>3, <2>4, CacheKept DEF Done
<1>7. ASSUME NEW s \in 1 .. Last, Advance(s) PROVE Cache'
  <2>1. /\ s = stage /\ stage # 0 /\ state[Root] = "body" /\ run' = run /\ main' = main
        /\ main = "running"
    BY <1>1, <1>7 DEF Advance, InStage, Running
  <2>2. ~Done(Root) /\ run \in {1, 2}
    BY <1>1, <2>1 DEF Done, Cache
  <2>3. CASE s < Last
    <3>1. stage' = s + 1 /\ state' = state /\ out' = out /\ entry' = entry
      BY <1>7, <2>3 DEF Advance, Last
    <3>2. stage' # 0
      BY <1>1, <3>1
    <3> QED
      BY <1>1, <2>1, <3>1, <3>2, CacheKept DEF Done
  <2>4. CASE ~(s < Last)
    <3>1. PICK v : /\ Ends(Root, Ok(v)) /\ stage' = stage
                   /\ entry' = IF Cached THEN Ok(v) ELSE entry
      BY <1>7, <2>4 DEF Advance, Last
    <3>2. state'[Root] = "ran" /\ out'[Root] = Ok(v)
      BY <1>1, <3>1 DEF Ends
    <3>3. Done(Root)' /\ out'[Root].ok
      BY <3>2 DEF Done, Ok
    <3>4. CASE run = 1
      BY <1>1, <2>1, <3>1, <3>2, <3>3, <3>4 DEF Cache, Cached
    <3>5. CASE run = 2
      <4>1. entry'.ok
        BY <3>1, <3>5 DEF Cached, Ok
      <4> QED
        BY <1>1, <2>1, <3>1, <3>2, <3>3, <3>5, <4>1 DEF Cache
    <3> QED
      BY <2>2, <3>4, <3>5
  <2> QED
    BY <2>3, <2>4
<1>8. ASSUME NEW s \in 1 .. Last, GiveUp(s) PROVE Cache'
  <2>1. /\ stage # 0 /\ state[Root] = "body" /\ run' = run /\ main' = main /\ entry' = entry
        /\ main = "running" /\ stage' = stage
    BY <1>1, <1>8 DEF GiveUp, InStage, Running
  <2>2. ~Done(Root) /\ run \in {1, 2}
    BY <1>1, <2>1 DEF Done, Cache
  <2>3. PICK x : Ends(Root, Err(x))
    BY <1>8 DEF GiveUp
  <2>4. state'[Root] = "ran" /\ out'[Root] = Err(x)
    BY <1>1, <2>3 DEF Ends
  <2>5. Done(Root)' /\ ~out'[Root].ok
    BY <2>4 DEF Done, Err
  <2> QED
    BY <1>1, <2>1, <2>2, <2>4, <2>5 DEF Cache
<1>9. ASSUME NEW s \in 1 .. Last, FanBegin(s) \/ FanEnd(s) PROVE Cache'
  <2>1. Head1(s) \in Ids \ {Root}
    <3>1. s \in 1 .. 5
      BY <1>1
    <3> QED
      BY <3>1, IdsAre
  <2>2. /\ run' = run /\ main' = main /\ entry' = entry /\ stage' = stage
        /\ state'[Root] = state[Root] /\ out'[Root] = out[Root]
    <3>1. CASE FanBegin(s)
      BY <1>1, <2>1, <3>1 DEF FanBegin, Move
    <3>2. CASE FanEnd(s)
      <4>1. PICK o : Ends(Head1(s), o)
        BY <3>2 DEF FanEnd
      <4>2. state'[Root] = state[Root] /\ out'[Root] = out[Root]
        BY <1>1, <2>1, <4>1 DEF Ends
      <4> QED
        BY <3>2, <4>2 DEF FanEnd
    <3> QED
      BY <1>9, <3>1, <3>2
  <2> QED
    BY <1>1, <2>2, CacheKept DEF Done
<1>10. ASSUME NEW id \in Ids, Step(id) PROVE Cache'
  <2>1. run' = run /\ main' = main /\ entry' = entry /\ stage' = stage /\ main = "running"
    BY <1>10 DEF Step, RunLeaf, Close, Reply, Running, Move
  <2>2. CASE RunLeaf(id)
    <3>1. id # Root /\ \E o : Ends(id, o)
      BY <2>2 DEF RunLeaf
    <3>2. state'[Root] = state[Root] /\ out'[Root] = out[Root]
      BY <1>1, <3>1 DEF Ends
    <3> QED
      BY <1>1, <2>1, <3>2, CacheKept DEF Done
  <2>3. CASE Close(id) \/ Reply(id)
    <3>1. out' = out /\ (Done(Root)' <=> Done(Root))
          /\ (state[Root] = "absent" => state'[Root] = "absent")
      BY <1>1, <2>3 DEF Close, Reply, Move, Done
    <3> QED
      BY <1>1, <2>1, <3>1, CacheKept
  <2> QED
    BY <1>10, <2>2, <2>3 DEF Step
<1> QED
  BY <1>3, <1>4, <1>5, <1>6, <1>7, <1>8, <1>9, <1>10 DEF Next, Body, Last

(***************************************************************************)
(* The script is followed                                                  *)
(***************************************************************************)

\* A task that goes on follows the script if what it returns is in it.
LEMMA MovesFollow ==
    ASSUME WInv, Next, NEW id, NEW b, Moves(id, b), carried' = carried,
           NEW given, NEW returned, Follows(given, returned),
           id # Root /\ ~Done(id) /\ b # "body" => out'[id] = returned[id],
           id = Root /\ ~Done(id) /\ stage # 0 => Outcome(returned)'
    PROVE  Follows(given, returned)'
<1>1. /\ Shape' = Shape /\ Last' = Last /\ stage \in 0 .. Last /\ stage' = stage
      /\ \A s : Width(s)' = Width(s)
      /\ Last \in {4, 5}
  BY SetupKept, StagesAre DEF WInv, TypeOK, Moves
<1>2. /\ \A x \in Ids : state'[x] = IF x = id THEN b ELSE state[x]
      /\ \A x \in Ids : x # id => out'[x] = out[x]
      /\ Done(id) => out'[id] = out[id]
      /\ id \in Ids /\ state[id] # "answered"
      /\ Done(id)' => b # "body"
  BY DEF Moves, WInv, TypeOK, Done
<1>3. \A x \in Ids : (Good(x) => Good(x)') /\ (Bad(x) => Bad(x)')
  BY <1>2 DEF Good, Bad, Answered
<1>4. ASSUME NEW x \in Ids \ {Root}, Done(x)' PROVE out'[x] = returned[x]
  <2>1. CASE x = id /\ ~Done(id)
    BY <1>2, <1>4, <2>1
  <2>2. CASE x # id \/ Done(id)
    BY <1>2, <1>4, <2>2 DEF Follows, Done
  <2> QED
    BY <2>1, <2>2
<1>5. ASSUME stage # 0, Done(Root)' PROVE Outcome(returned)'
  <2>1. CASE id = Root /\ ~Done(Root)
    BY <1>5, <2>1
  <2>2. CASE id # Root \/ Done(Root)
    <3>1. Done(Root) /\ out'[Root] = out[Root]
      BY <1>2, <1>5, <2>2, IdsAre DEF Done
    <3>2. Outcome(returned)
      BY <1>5, <3>1 DEF Follows
    <3>3. stage \in 1 .. 5 /\ Last \in 1 .. 5 /\ Head1(stage) \in Ids /\ Head1(Last) \in Ids
      <4>1. stage \in 1 .. 5 /\ Last \in 1 .. 5
        BY <1>1, <1>5
      <4> QED
        BY <4>1, IdsAre
    <3>4. \A i \in 1 .. Width(stage) : <<stage, i>> \in Ids
      <4>1. Width(stage) \in 0 .. MaxItems
        BY <3>3 DEF WInv, TypeOK
      <4>2. \A i \in 1 .. Width(stage) : i \in 0 .. MaxItems
        BY <4>1, BoundsAssumption
      <4> QED
        BY <3>3, <4>2, IdsAre
    <3>5. CASE stage = Last /\ Good(Head1(Last)) /\ out[Root] = Ok(returned[Head1(Last)].val)
      BY <1>1, <1>3, <3>1, <3>3, <3>5 DEF Outcome
    <3>6. CASE /\ Shape[stage] # "all" /\ Bad(Head1(stage))
               /\ out[Root] = Err(returned[Head1(stage)].by)
      BY <1>1, <1>3, <3>1, <3>3, <3>6 DEF Outcome
    <3>7. CASE Shape[stage] = "all" /\ \E i \in 1 .. Width(stage) : Bad(<<stage, i>>)
      <4>1. PICK i \in 1 .. Width(stage) : Bad(<<stage, i>>)
        BY <3>7
      <4>2. Bad(<<stage, i>>)'
        BY <1>1, <1>3, <3>4, <4>1 DEF Bad, Answered
      <4>3. i \in 1 .. Width(stage)' /\ (Shape[stage] = "all")'
        BY <1>1, <3>7
      <4> QED
        BY <4>2, <4>3 DEF Outcome
    <3> QED
      BY <3>2, <3>5, <3>6, <3>7 DEF Outcome
  <2> QED
    BY <2>1, <2>2
<1>6. stage' # 0 => carried' = given[stage']
  BY <1>1 DEF Follows
<1> QED
  BY <1>1, <1>4, <1>5, <1>6 DEF Follows

\* What a stage that fans out returns is in the script.
LEMMA FanFollows ==
    ASSUME WInv, stage # 0, FanEnd(stage), NEW given, NEW returned,
           Script(given, returned), Follows(given, returned)
    PROVE  Ends(Head1(stage), returned[Head1(stage)])
<1>1. /\ stage \in 1 .. Last /\ FansOut(stage) /\ Width(stage) \in 0 .. MaxItems
      /\ Len(carried) = Width(stage)
  BY ItemsAre DEF FanEnd, FansOut
<1>2. \/ /\ \A i \in 1 .. Width(stage) : returned[<<stage, i>>].ok
         /\ returned[Head1(stage)] = Ok([i \in 1 .. Width(stage) |-> returned[<<stage, i>>].val])
      \/ \E i \in 1 .. Width(stage) :
            /\ ~returned[<<stage, i>>].ok
            /\ \A j \in 1 .. Width(stage) : j < i => returned[<<stage, j>>].ok
            /\ returned[Head1(stage)] = Err(<<stage, i>>)
  BY <1>1 DEF Script, ScriptAt
<1>3. \A i \in 1 .. Width(stage) : <<stage, i>> \in Ids \ {Root}
  <2>1. stage \in 1 .. 5
    BY <1>1, StagesAre DEF WInv, TypeOK
  <2>2. \A i \in 1 .. Width(stage) : i \in 0 .. MaxItems
    BY <1>1, BoundsAssumption
  <2> QED
    BY <2>1, <2>2, IdsAre
<1>4. \A i \in 1 .. Width(stage) :
         Good(<<stage, i>>) \/ Bad(<<stage, i>>) => out[<<stage, i>>] = returned[<<stage, i>>]
  BY <1>3 DEF Follows, Good, Bad, Answered, Done
<1>5. CASE ItemsOk(stage) /\ Ends(Head1(stage), Ok(Collected(stage)))
  <2>1. \A i \in 1 .. Width(stage) :
           returned[<<stage, i>>].ok /\ out[<<stage, i>>] = returned[<<stage, i>>]
    BY <1>4, <1>5, AwaitedAre DEF Good
  <2>2. returned[Head1(stage)] = Ok([i \in 1 .. Width(stage) |-> returned[<<stage, i>>].val])
    BY <1>2, <2>1
  <2>3. Collected(stage) = [i \in 1 .. Width(stage) |-> returned[<<stage, i>>].val]
    BY <1>1, <2>1 DEF Collected
  <2> QED
    BY <1>5, <2>2, <2>3
<1>6. ASSUME NEW id \in Items(stage), FirstError(stage, id), Ends(Head1(stage), Err(id))
      PROVE  Ends(Head1(stage), returned[Head1(stage)])
  <2>1. PICK i \in 1 .. Width(stage) :
           /\ id = <<stage, i>> /\ Bad(<<stage, i>>)
           /\ \A j \in 1 .. Width(stage) : j < i => Good(<<stage, j>>)
    BY <1>6, AwaitedAre
  <2>2. /\ ~returned[<<stage, i>>].ok
        /\ \A j \in 1 .. Width(stage) : j < i => returned[<<stage, j>>].ok
    BY <1>4, <2>1 DEF Good, Bad
  <2>3. PICK k \in 1 .. Width(stage) :
           /\ ~returned[<<stage, k>>].ok
           /\ \A j \in 1 .. Width(stage) : j < k => returned[<<stage, j>>].ok
           /\ returned[Head1(stage)] = Err(<<stage, k>>)
    BY <1>2, <2>2
  <2>4. k = i
    <3>1. ~(k < i) /\ ~(i < k)
      BY <2>2, <2>3
    <3> QED
      BY <1>1, <3>1
  <2> QED
    BY <1>6, <2>1, <2>3, <2>4
<1> QED
  BY <1>5, <1>6 DEF FanEnd, JoinedError

\* How the orchestrator ends.
LEMMA RootFollows ==
    ASSUME WInv, stage # 0, NEW given, NEW returned, Follows(given, returned), Next,
           (Advance(stage) /\ stage' = stage) \/ GiveUp(stage)
    PROVE  Outcome(returned)'
<1>1. /\ Shape' = Shape /\ Last' = Last /\ stage \in 1 .. Last /\ stage' = stage
      /\ \A s : Width(s)' = Width(s)
      /\ Last \in {4, 5} /\ Root \in Ids
      /\ \A x \in Ids : x # Root => state'[x] = state[x] /\ out'[x] = out[x]
  <2>1. stage' = stage /\ \E o : Ends(Root, o)
    <3>1. CASE Advance(stage) /\ stage' = stage
      BY <3>1, ItemsAre DEF Advance, Last
    <3>2. CASE GiveUp(stage)
      BY <3>2 DEF GiveUp
    <3> QED
      BY <3>1, <3>2
  <2>2. \A x \in Ids : x # Root => state'[x] = state[x] /\ out'[x] = out[x]
    BY <2>1 DEF Ends, WInv, TypeOK
  <2> QED
    BY <2>1, <2>2, SetupKept, ItemsAre, StagesAre, IdsAre DEF WInv, TypeOK
<1>2. stage \in 1 .. 5 /\ Head1(stage) \in Ids \ {Root}
  <2>1. stage \in 1 .. 5
    BY <1>1
  <2> QED
    BY <2>1, IdsAre
<1>3. /\ Good(Head1(stage)) => Good(Head1(stage))'
      /\ Bad(Head1(stage)) => Bad(Head1(stage))'
      /\ Good(Head1(stage)) \/ Bad(Head1(stage)) =>
            out[Head1(stage)] = returned[Head1(stage)]
  BY <1>1, <1>2 DEF Good, Bad, Answered, Done, Follows, Head1
<1>4. CASE Advance(stage) /\ stage' = stage
  <2>1. stage = Last
    BY <1>1, <1>4 DEF Advance, Last
  <2>2. Shape[stage] # "all"
    BY <1>1, <2>1, StagesAre DEF WInv, TypeOK
  <2>3. Good(Head1(stage)) /\ Ends(Root, Ok(out[Head1(stage)].val))
    BY <1>1, <1>4, <2>1, <2>2 DEF Advance, Last
  <2>4. out'[Root] = Ok(returned[Head1(stage)].val)
    BY <1>1, <1>3, <2>3 DEF Ends, WInv, TypeOK
  <2>5. Good(Head1(Last))'
    BY <1>1, <1>3, <2>1, <2>3 DEF Good, Answered, Head1
  <2> QED
    BY <1>1, <2>1, <2>4, <2>5 DEF Outcome, Head1
<1>5. CASE GiveUp(stage) /\ Shape[stage] # "all"
  <2>1. Bad(Head1(stage)) /\ Ends(Root, Err(out[Head1(stage)].by))
    BY <1>5 DEF GiveUp
  <2>2. out'[Root] = Err(returned[Head1(stage)].by)
    BY <1>1, <1>3, <2>1 DEF Ends, WInv, TypeOK
  <2> QED
    BY <1>1, <1>3, <1>5, <2>1, <2>2 DEF Outcome, Head1
<1>6. CASE GiveUp(stage) /\ Shape[stage] = "all"
  <2>1. PICK id \in Items(stage) : FirstError(stage, id)
    BY <1>6 DEF GiveUp
  <2>2. PICK i \in 1 .. Width(stage) : Bad(<<stage, i>>)
    BY <2>1, AwaitedAre
  <2>3. <<stage, i>> \in Ids \ {Root}
    <3>1. Width(stage) \in 0 .. MaxItems
      BY <1>2 DEF WInv, TypeOK
    <3>2. i \in 0 .. MaxItems
      BY <3>1, BoundsAssumption
    <3> QED
      BY <1>2, <3>2, IdsAre
  <2>4. Bad(<<stage, i>>)'
    BY <1>1, <2>2, <2>3 DEF Bad, Answered
  <2>5. i \in 1 .. Width(stage)' /\ (Shape[stage] = "all")'
    BY <1>1, <1>6
  <2> QED
    BY <2>4, <2>5 DEF Outcome
<1> QED
  BY <1>4, <1>5, <1>6

\* Every step after the orchestrator has begun follows the script, if the leaves do.
LEMMA FollowsNext ==
    ASSUME WInv, Next, stage # 0, NEW given, NEW returned,
           Script(given, returned), Follows(given, returned),
           \A id \in Ids : RunLeaf(id) => out'[id] = returned[id]
    PROVE  stage' # 0 => Follows(given, returned)'
<1>1. /\ Shape' = Shape /\ Last' = Last /\ stage \in 1 .. Last
      /\ \A s : Width(s)' = Width(s)
      /\ Last \in {4, 5} /\ Root \in Ids /\ state \in [Ids -> Life]
      /\ out = [id \in Ids |-> out[id]]
  BY SetupKept, ItemsAre, IdsAre, StagesAre DEF WInv, TypeOK
<1>2. \A s \in 1 .. Last : Head1(s) \in Ids \ {Root} /\ Head1(s)[1] = s
  <2>1. \A s \in 1 .. Last : s \in 1 .. 5
    BY <1>1
  <2>2. \A s : Head1(s)[1] = s
    BY DEF Head1
  <2> QED
    BY <2>1, <2>2, IdsAre
<1>3. CASE Call
  BY <1>3 DEF Call
<1>4. CASE Return
  BY <1>1, <1>4 DEF Return, Follows, Outcome, Done, Good, Bad, Answered, Head1
<1>5. ~Begin
  BY DEF Begin, WInv, Tree
<1>6. ASSUME NEW s \in 1 .. Last, SpawnStage(s) \/ SpawnItem(s)
      PROVE  Follows(given, returned)'
  <2>1. PICK n \in 0 .. Width(stage) : Spawns(n)
    BY <1>6, SpawnIs
  <2>2. carried' = carried /\ stage' = stage /\ out' = out
    BY <1>6, <2>1 DEF SpawnStage, SpawnItem, Spawns
  <2>3. \A x \in Ids : /\ Done(x)' => Done(x)
                       /\ state[x] # "absent" => state'[x] = state[x]
    BY <1>1, <2>1 DEF Spawns, Done
  <2>4. \A x \in Ids \ {Root} : Done(x)' => out'[x] = returned[x]
    BY <2>2, <2>3 DEF Follows
  <2>5. ~Done(Root)
    <3>1. CASE SpawnStage(s) \/ InStage(s)
      BY <3>1 DEF SpawnStage, InStage, Done
    <3>2. CASE FansOut(s) /\ state[Head1(s)] = "body"
      <4>1. s = stage
        BY <1>2, <3>2, NowIs
      <4>2. ~Good(Head1(stage)) /\ ~Bad(Head1(stage)) /\ Shape[stage] # "all"
        BY <3>2, <4>1 DEF Good, Bad, Answered, FansOut
      <4>3. Last = stage => Head1(Last) = Head1(stage)
        OBVIOUS
      <4>4. ~Outcome(returned)
        BY <4>2, <4>3 DEF Outcome
      <4> QED
        BY <4>4 DEF Follows
    <3> QED
      BY <1>6, <3>1, <3>2 DEF SpawnItem
  <2>6. ~Done(Root)'
    BY <1>1, <2>3, <2>5
  <2> QED
    BY <2>2, <2>4, <2>6 DEF Follows
<1>7. ASSUME NEW s \in 1 .. Last, Advance(s) PROVE Follows(given, returned)'
  <2>1. s = stage /\ state[Root] = "body"
    BY <1>7 DEF Advance, InStage
  <2>2. CASE s < Last
    <3>1. /\ stage' = s + 1 /\ state' = state /\ out' = out
          /\ carried' = IF Shape[s] = "all" THEN Collected(s) ELSE out[Head1(s)].val
          /\ IF Shape[s] = "all" THEN ItemsOk(s) ELSE Good(Head1(s))
      BY <1>7, <2>2 DEF Advance, Last
    <3>2. CASE Shape[s] = "all"
      <4>1. Len(carried) = Width(s) /\ Width(s) \in 0 .. MaxItems
        BY <2>1, <3>2, ItemsAre
      <4>2. \A i \in 1 .. Width(s) : <<s, i>> \in Ids \ {Root}
        <5>1. s \in 1 .. 5 /\ \A i \in 1 .. Width(s) : i \in 0 .. MaxItems
          BY <1>1, <4>1, BoundsAssumption
        <5> QED
          BY <5>1, IdsAre
      <4>3. \A i \in 1 .. Width(s) : Good(<<s, i>>)
        BY <2>1, <3>1, <3>2, AwaitedAre
      <4>4. \A i \in 1 .. Width(s) :
               returned[<<s, i>>].ok /\ out[<<s, i>>] = returned[<<s, i>>]
        BY <4>2, <4>3 DEF Follows, Good, Answered, Done
      <4>5. carried' = [i \in 1 .. Width(s) |-> returned[<<s, i>>].val]
        BY <3>1, <3>2, <4>1, <4>4 DEF Collected
      <4>6. carried' = given[s + 1]
        BY <2>2, <3>2, <4>4, <4>5 DEF Script, ScriptAt
      <4> QED
        BY <2>1, <3>1, <4>6 DEF Follows, Done
    <3>3. CASE Shape[s] # "all"
      <4>1. Good(Head1(s)) /\ out[Head1(s)] = returned[Head1(s)]
        BY <1>2, <3>1, <3>3 DEF Follows, Good, Answered, Done
      <4>2. carried' = given[s + 1]
        BY <2>2, <3>1, <3>3, <4>1 DEF Script, ScriptAt, Good
      <4> QED
        BY <2>1, <3>1, <4>2 DEF Follows, Done
    <3> QED
      BY <3>2, <3>3
  <2>3. CASE ~(s < Last)
    <3>1. stage' = stage /\ carried' = carried /\ \E o : Ends(Root, o)
      BY <1>7, <2>3 DEF Advance, Last
    <3>2. Moves(Root, "ran")
      BY <1>1, <2>1, <3>1, EndsMoves
    <3>3. Outcome(returned)'
      BY <1>7, <2>1, <3>1, RootFollows
    <3> QED
      BY <3>1, <3>2, <3>3, MovesFollow
  <2> QED
    BY <2>2, <2>3
<1>8. ASSUME NEW s \in 1 .. Last, GiveUp(s) PROVE Follows(given, returned)'
  <2>1. /\ s = stage /\ state[Root] = "body" /\ stage' = stage /\ carried' = carried
        /\ \E o : Ends(Root, o)
    BY <1>8 DEF GiveUp, InStage
  <2>2. Moves(Root, "ran")
    BY <1>1, <2>1, EndsMoves
  <2>3. Outcome(returned)'
    BY <1>8, <2>1, RootFollows
  <2> QED
    BY <2>1, <2>2, <2>3, MovesFollow
<1>9. ASSUME NEW s \in 1 .. Last, FanBegin(s) PROVE Follows(given, returned)'
  <2>1. Moves(Head1(s), "body") /\ carried' = carried
    BY <1>2, <1>9 DEF FanBegin, Move, Moves, Done
  <2> QED
    BY <1>2, <2>1, MovesFollow
<1>10. ASSUME NEW s \in 1 .. Last, FanEnd(s) PROVE Follows(given, returned)'
  <2>1. state[Head1(s)] = "body" /\ stage' = stage /\ carried' = carried
    BY <1>10 DEF FanEnd
  <2>2. s = stage
    BY <1>2, <2>1, NowIs
  <2>3. Ends(Head1(s), returned[Head1(s)])
    BY <1>10, <2>2, FanFollows
  <2>4. Moves(Head1(s), "ran") /\ out'[Head1(s)] = returned[Head1(s)]
    BY <1>2, <2>1, <2>3, EndsMoves
  <2> QED
    BY <1>2, <2>1, <2>4, MovesFollow
<1>11. ASSUME NEW id \in Ids, Step(id) PROVE Follows(given, returned)'
  <2>1. CASE RunLeaf(id)
    <3>1. /\ state[id] = "ready" /\ stage' = stage /\ carried' = carried /\ id # Root
          /\ \E o : Ends(id, o)
      BY <2>1 DEF RunLeaf
    <3>2. Moves(id, "ran") /\ out'[id] = returned[id]
      BY <2>1, <3>1, EndsMoves
    <3> QED
      BY <3>1, <3>2, MovesFollow
  <2>2. CASE Close(id)
    <3>1. Moves(id, "closed") /\ carried' = carried /\ Done(id)
      BY <2>2 DEF Close, Move, Moves, Done
    <3> QED
      BY <3>1, MovesFollow
  <2>3. CASE Reply(id)
    <3>1. Moves(id, "answered") /\ carried' = carried /\ Done(id)
      BY <2>3 DEF Reply, Move, Moves, Done
    <3> QED
      BY <3>1, MovesFollow
  <2> QED
    BY <1>11, <2>1, <2>2, <2>3 DEF Step
<1> QED
  BY <1>3, <1>4, <1>5, <1>6, <1>7, <1>8, <1>9, <1>10, <1>11 DEF Next, Body, Last

\* The orchestrator's first stage begins the script.
LEMMA BeginFollows ==
    ASSUME WInv, stage = 0, NEW given, NEW returned,
           state' = [state EXCEPT ![Root] = "body"], stage' = 1, out' = out,
           carried' = given[1]
    PROVE  Follows(given, returned)'
<1>1. \A id \in Ids \ {Root} : state[id] = "absent"
  BY IdsAre DEF WInv, Tree, Absent
<1>2. ~Done(Root)' /\ \A id \in Ids \ {Root} : ~Done(id)'
  <2>1. state \in [Ids -> Life] /\ Root \in Ids
    BY IdsAre DEF WInv, TypeOK
  <2> QED
    BY <1>1, <2>1 DEF Done
<1> QED
  BY <1>2 DEF Follows

\* The leaves of the pipeline follow its script.
LEMMA PipelineLeaf ==
    ASSUME WInv, program = "pipeline", NEW id \in Ids, RunLeaf(id)
    PROVE  out'[id] = PipelineReturned[id]
<1>1. /\ state[id] = "ready" /\ id # Root /\ ~(FansOut(id[1]) /\ id[2] = 0)
      /\ Ends(id, Leaf(id, IF id[2] = 0 THEN carried ELSE carried[id[2]]))
  BY DEF RunLeaf
<1>2. /\ stage # 0 /\ id[1] = stage /\ stage \in 1 .. 4 /\ id = <<stage, id[2]>>
      /\ id[2] \in 0 .. Width(stage)
  BY <1>1, NowIs, ShapesAre
<1>3. out'[id] = Leaf(id, IF id[2] = 0 THEN carried ELSE carried[id[2]])
  BY <1>1 DEF Ends, WInv, TypeOK
<1>4. carried = PipelineGiven[stage]
  BY <1>2 DEF WInv, Values, PipelineValues, Follows
<1>5. CASE stage = 1
  <2>1. id[2] # 0 /\ carried = lines
    BY <1>1, <1>2, <1>4, <1>5, ShapesAre DEF FansOut, PipelineGiven
  <2>2. Leaf(id, carried[id[2]]) = Parse(id, lines[id[2]])
    BY <1>2, <1>5, <2>1 DEF Leaf
  <2> QED
    BY <1>2, <1>3, <1>5, <2>1, <2>2 DEF PipelineReturned
<1>6. CASE stage = 2
  <2>1. id[2] # 0 /\ carried = lines
    BY <1>1, <1>2, <1>4, <1>6, ShapesAre DEF FansOut, PipelineGiven
  <2>2. Leaf(id, carried[id[2]]) = Classify(lines[id[2]])
    BY <1>2, <1>6, <2>1 DEF Leaf
  <2> QED
    BY <1>2, <1>3, <1>6, <2>1, <2>2 DEF PipelineReturned
<1>7. CASE stage = 3
  <2>1. id[2] = 0 /\ carried = Classified
    BY <1>2, <1>4, <1>7 DEF Width, PipelineGiven
  <2>2. Leaf(id, carried) = Filter(Classified)
    BY <1>2, <1>7, <2>1 DEF Leaf
  <2> QED
    BY <1>2, <1>3, <1>7, <2>1, <2>2 DEF PipelineReturned
<1>8. CASE stage = 4
  <2>1. id[2] = 0 /\ carried = Filter(Classified).val
    BY <1>2, <1>4, <1>8 DEF Width, PipelineGiven
  <2>2. Leaf(id, carried) = Aggregate(Filter(Classified).val)
    BY <1>2, <1>8, <2>1 DEF Leaf
  <2> QED
    BY <1>2, <1>3, <1>8, <2>1, <2>2 DEF PipelineReturned
<1> QED
  BY <1>2, <1>5, <1>6, <1>7, <1>8

\* Before the stage of the edits the file system is the one the agent began with;
\* after it every edit is there.
LEMMA EditedAre ==
    ASSUME WInv, program = "solve", stage # 0,
           NEW f \in FileSystems, NEW q \in ListingsOf(f), fs = Edited(f),
           Follows(SolveGiven(f, q), SolveReturned(f, q))
    PROVE  /\ stage < 3 => fs = f
           /\ stage > 2 => Both \subseteq DOMAIN f
           /\ stage > 3 => /\ Good(<<3, 1>>) /\ Good(<<3, 2>>)
                           /\ fs["user.rs"] = Source(f) /\ fs["user_test.rs"] = Tests(f)
<1>1. stage \in 1 .. 5 /\ Last = 5
  BY ItemsAre, ShapesAre
<1>2. /\ DOMAIN fs = DOMAIN f /\ f = [p \in DOMAIN f |-> f[p]]
      /\ \A p \in DOMAIN f : fs[p] =
            IF p = "user.rs" /\ Applied(f, 1) THEN Source(f)
            ELSE IF p = "user_test.rs" /\ Applied(f, 2) THEN Tests(f) ELSE f[p]
  BY FilesAre
<1>3. ASSUME stage < 3 PROVE fs = f
  <2>1. Absent(3)
    BY <1>1, <1>3 DEF WInv, Tree
  <2>2. Both \subseteq DOMAIN f => 1 \in 0 .. MaxItems /\ 2 \in 0 .. MaxItems
    <3>1. Width(3) \in 0 .. MaxItems
      BY DEF WInv, TypeOK
    <3>2. Both \subseteq DOMAIN f => Width(3) = 2
      BY <1>2 DEF Width
    <3> QED
      BY <3>1, <3>2, BoundsAssumption
  <2>3. ~Applied(f, 1) /\ ~Applied(f, 2)
    BY <2>1, <2>2 DEF Absent, Applied, Done
  <2>4. fs = [p \in DOMAIN f |-> f[p]]
    BY <2>3 DEF Edited
  <2> QED
    BY <1>2, <2>4
<1>4. ASSUME stage > 2 PROVE Both \subseteq DOMAIN f
  <2>1. Whole(2) /\ Shape[2] = "one"
    BY <1>1, <1>4, ShapesAre DEF WInv, Tree
  <2>2. Good(Head1(2)) /\ Head1(2) \in Ids \ {Root} /\ Head1(2)[1] = 2
    BY <2>1, IdsAre DEF Whole, Head1
  <2>3. out[Head1(2)] = SolveReturned(f, q)[Head1(2)]
    BY <2>2 DEF Follows, Good, Answered, Done
  <2>4. SolveReturned(f, q)[Head1(2)] = Planned(f)
    BY <2>2 DEF SolveReturned
  <2> QED
    BY <2>2, <2>3, <2>4 DEF Planned, Good, Err
<1>5. ASSUME stage > 3
      PROVE  /\ Good(<<3, 1>>) /\ Good(<<3, 2>>)
             /\ fs["user.rs"] = Source(f) /\ fs["user_test.rs"] = Tests(f)
  <2>1. Whole(3) /\ Both \subseteq DOMAIN f
    BY <1>1, <1>4, <1>5 DEF WInv, Tree
  <2>2. Width(3) = 2
    BY <1>2, <2>1 DEF Width
  <2>3. Good(<<3, 1>>) /\ Good(<<3, 2>>)
    BY <2>1, <2>2 DEF Whole
  <2> QED
    BY <1>2, <2>1, <2>3 DEF Good, Answered, Done, Both, Applied
<1> QED
  BY <1>3, <1>4, <1>5

\* The leaves of the agent follow its script.
LEMMA SolveLeaf ==
    ASSUME WInv, program = "solve", NEW id \in Ids, RunLeaf(id),
           NEW f \in FileSystems, NEW q \in ListingsOf(f), fs = Edited(f),
           Follows(SolveGiven(f, q), SolveReturned(f, q))
    PROVE  out'[id] = SolveReturned(f, q)[id]
<1> DEFINE x == IF id[2] = 0 THEN carried ELSE carried[id[2]]
           returned == SolveReturned(f, q)
<1>1. /\ state[id] = "ready" /\ id # Root /\ ~(FansOut(id[1]) /\ id[2] = 0)
      /\ Ends(id, Leaf(id, x))
  BY DEF RunLeaf
<1>2. /\ stage # 0 /\ id[1] = stage /\ stage \in 1 .. 5 /\ id = <<stage, id[2]>>
      /\ id[2] \in 0 .. Width(stage)
  BY <1>1, NowIs, ShapesAre
<1>3. out'[id] = Leaf(id, x)
  BY <1>1 DEF Ends, WInv, TypeOK
<1>4. carried = SolveGiven(f, q)[stage]
  BY <1>2 DEF Follows
<1>5. /\ DOMAIN fs = DOMAIN f /\ IsFiniteSet(DOMAIN f)
  BY FilesAre
<1>6. /\ stage < 3 => fs = f
      /\ stage > 3 => /\ Both \subseteq DOMAIN f
                      /\ fs["user.rs"] = Source(f) /\ fs["user_test.rs"] = Tests(f)
  BY <1>2, EditedAre
<1>7. CASE stage = 1
  <2>1. id[2] # 0 /\ carried = q /\ fs = f
    BY <1>1, <1>2, <1>4, <1>6, <1>7, ShapesAre DEF FansOut, SolveGiven
  <2>2. Width(1) = Len(q)
    BY <1>5, ListingIs DEF Width
  <2>3. q[id[2]] \in DOMAIN f
    BY <1>2, <1>5, <1>7, <2>1, <2>2, ListingIs
  <2>4. Leaf(id, x) = Read(id, q[id[2]])
    BY <1>2, <1>7, <2>1 DEF Leaf
  <2>5. Leaf(id, x) = Ok([path |-> q[id[2]], text |-> f[q[id[2]]]])
    BY <2>1, <2>3, <2>4 DEF Read
  <2>6. returned[id] = Ok([path |-> q[id[2]], text |-> f[q[id[2]]]])
    BY <1>2, <1>7, <2>1 DEF SolveReturned
  <2> QED
    BY <1>3, <2>5, <2>6
<1>8. CASE stage = 2
  <2>1. id[2] = 0 /\ carried = Summaries(f, q) /\ id = Head1(2)
    BY <1>2, <1>4, <1>8 DEF Width, SolveGiven, Head1
  <2>2. Leaf(id, x) = Plan(Head1(2), Summaries(f, q))
    BY <1>2, <1>8, <2>1 DEF Leaf
  <2>3. returned[id] = Planned(f)
    BY <1>2, <1>8 DEF SolveReturned
  <2> QED
    BY <1>3, <1>5, <2>2, <2>3, PlanIs
<1>9. CASE stage = 3
  <2>1. Edits(id) /\ id \in Ids \ {Root}
    BY <1>1, <1>2, <1>9 DEF Edits
  <2>2. carried = Planned(f).val /\ id[2] # 0
    <3>1. carried = Planned(f).val
      BY <1>4, <1>9 DEF SolveGiven
    <3>2. id[2] \in {1, 2}
      BY <1>1, <2>1, EditsAre
    <3> QED
      BY <3>1, <3>2
  <2>3. Leaf(id, x) = Ok(Planned(f).val[id[2]].path)
    BY <1>2, <1>9, <2>2 DEF Leaf
  <2>4. returned[id] = Ok(Planned(f).val[id[2]].path)
    BY <1>2, <1>9 DEF SolveReturned
  <2> QED
    BY <1>3, <2>3, <2>4
<1>10. CASE stage = 4
  <2>1. Leaf(id, x) = Test(id)
    BY <1>2, <1>10 DEF Leaf
  <2>2. Test(id) = Ok([passed |-> Verdict(f)])
    BY <1>5, <1>6, <1>10 DEF Test, Verdict, Both
  <2>3. returned[id] = Ok([passed |-> Verdict(f)])
    BY <1>2, <1>10 DEF SolveReturned
  <2> QED
    BY <1>3, <2>1, <2>2, <2>3
<1>11. CASE stage = 5
  <2>1. id[2] = 0 /\ carried = [passed |-> Verdict(f)]
    BY <1>2, <1>4, <1>11 DEF Width, SolveGiven
  <2>2. Leaf(id, x) = Validate(carried)
    BY <1>2, <1>11, <2>1 DEF Leaf
  <2>3. returned[id] = Ok([success |-> Verdict(f)])
    BY <1>2, <1>11 DEF SolveReturned
  <2> QED
    BY <1>3, <2>1, <2>2, <2>3 DEF Validate
<1> QED
  BY <1>2, <1>7, <1>8, <1>9, <1>10, <1>11

\* The file system changes by the edits that run, and by nothing else.
LEMMA EditedNext ==
    ASSUME WInv, program = "solve", stage # 0, Next,
           NEW f \in FileSystems, NEW q \in ListingsOf(f), fs = Edited(f),
           Follows(SolveGiven(f, q), SolveReturned(f, q))
    PROVE  fs' = Edited(f)' /\ stage' # 0
<1>1. /\ stage \in 1 .. Last /\ Last \in {4, 5} /\ state \in [Ids -> Life]
      /\ program' = program
  BY ItemsAre, SetupKept, StagesAre DEF WInv, TypeOK
<1>2. ASSUME fs' = fs, Applied(f, 1)' <=> Applied(f, 1), Applied(f, 2)' <=> Applied(f, 2)
      PROVE  fs' = Edited(f)'
  BY <1>2 DEF Edited
<1>3. ~Call /\ ~Begin
  <2>1. state[Root] # "absent" /\ state[Root] # "ready"
    BY DEF WInv, Tree
  <2>2. run # 0
    BY <2>1 DEF WInv, Cache
  <2>3. ~Call
    BY <2>2 DEF Call, Runs, WInv, TypeOK
  <2> QED
    BY <2>1, <2>3 DEF Begin
<1>4. Both \subseteq DOMAIN f => <<3, 1>> \in Ids \ {Root} /\ <<3, 2>> \in Ids \ {Root}
  <2>1. Both \subseteq DOMAIN f => Width(3) = 2
    BY FilesAre DEF Width
  <2>2. Width(3) \in 0 .. MaxItems
    BY DEF WInv, TypeOK
  <2>3. Both \subseteq DOMAIN f => 1 \in 0 .. MaxItems /\ 2 \in 0 .. MaxItems
    BY <2>1, <2>2, BoundsAssumption
  <2> QED
    BY <2>3, IdsAre
<1>5. ASSUME NEW id \in Ids, NEW b \in Life, state' = [state EXCEPT ![id] = b],
             \/ b \in {"ready", "body"} /\ ~Done(id)
             \/ b \in {"ran", "closed", "answered"} /\ Done(id)
             \/ id[1] # 3 \/ id[2] = 0
      PROVE  (Applied(f, 1)' <=> Applied(f, 1)) /\ (Applied(f, 2)' <=> Applied(f, 2))
  BY <1>1, <1>4, <1>5 DEF Applied, Done
<1>6. CASE Return
  BY <1>2, <1>6 DEF Return, Applied, Done
<1>7. ASSUME NEW s \in 1 .. Last, SpawnStage(s) \/ SpawnItem(s)
      PROVE  fs' = Edited(f)' /\ stage' # 0
  <2>1. PICK n \in 0 .. Width(stage) : Spawns(n)
    BY <1>7, SpawnIs
  <2>2. fs' = fs /\ stage' # 0
    BY <1>7, <2>1 DEF SpawnStage, SpawnItem, Spawns
  <2>3. <<stage, n>> \in Ids
    <3>1. Width(stage) \in 0 .. MaxItems /\ stage \in 1 .. 5
      BY <1>1, ItemsAre
    <3>2. n \in 0 .. MaxItems
      BY <3>1, BoundsAssumption
    <3> QED
      BY <3>1, <3>2, IdsAre
  <2>4. ~Done(<<stage, n>>) /\ "ready" \in Life /\ state' = [state EXCEPT ![<<stage, n>>] = "ready"]
    BY <2>1 DEF Spawns, Done, Life
  <2> QED
    BY <1>2, <1>5, <2>2, <2>3, <2>4
<1>8. ASSUME NEW s \in 1 .. Last, Advance(s) \/ GiveUp(s)
      PROVE  fs' = Edited(f)' /\ stage' # 0
  <2>1. fs' = fs /\ s = stage
    BY <1>8 DEF Advance, GiveUp, InStage
  <2>2. \/ state' = state
        \/ \E o : Ends(Root, o)
    BY <1>8 DEF Advance, GiveUp, Last
  <2>3. stage' # 0
    BY <1>1, <1>8, <2>1 DEF Advance, GiveUp
  <2>4. CASE state' = state
    BY <1>2, <2>1, <2>3, <2>4 DEF Applied, Done
  <2>5. CASE \E o : Ends(Root, o)
    <3>1. state' = [state EXCEPT ![Root] = "ran"] /\ "ran" \in Life /\ Root \in Ids /\ Root[2] = 0
      BY <2>5, IdsAre DEF Ends, Life
    <3> QED
      BY <1>2, <1>5, <2>1, <2>3, <3>1
  <2> QED
    BY <2>2, <2>4, <2>5
<1>9. ASSUME NEW s \in 1 .. Last, FanBegin(s) \/ FanEnd(s)
      PROVE  fs' = Edited(f)' /\ stage' # 0
  <2>1. fs' = fs /\ stage' = stage
    BY <1>9 DEF FanBegin, FanEnd
  <2>2. Head1(s) \in Ids /\ Head1(s)[2] = 0
    <3>1. s \in 1 .. 5 /\ Head1(s)[2] = 0
      BY <1>1 DEF Head1
    <3> QED
      BY <3>1, IdsAre
  <2>3. \E b \in Life : state' = [state EXCEPT ![Head1(s)] = b]
    BY <1>9 DEF FanBegin, FanEnd, Move, Ends, Life
  <2> QED
    BY <1>2, <1>5, <2>1, <2>2, <2>3
<1>10. ASSUME NEW id \in Ids, Close(id) \/ Reply(id)
       PROVE  fs' = Edited(f)' /\ stage' # 0
  <2>1. fs' = fs /\ stage' = stage
    BY <1>10 DEF Close, Reply
  <2>2. \E b \in {"closed", "answered"} : Done(id) /\ state' = [state EXCEPT ![id] = b]
    BY <1>10 DEF Close, Reply, Move, Done
  <2> QED
    BY <1>2, <1>5, <2>1, <2>2 DEF Life
<1>11. ASSUME NEW id \in Ids, RunLeaf(id)
       PROVE  fs' = Edited(f)' /\ stage' # 0
  <2>1. /\ state[id] = "ready" /\ id # Root /\ stage' = stage
        /\ state' = [state EXCEPT ![id] = "ran"]
    BY <1>11 DEF RunLeaf, Ends
  <2>2. id[1] = stage
    BY <2>1, NowIs
  <2>3. CASE stage # 3
    <3>1. fs' = fs /\ id[1] # 3
      BY <1>11, <2>2, <2>3 DEF RunLeaf, Edits
    <3> QED
      BY <1>2, <1>5, <2>1, <3>1 DEF Life
  <2>4. CASE stage = 3
    <3>1. Edits(id)
      BY <2>2, <2>4 DEF Edits
    <3>2. /\ Both \subseteq DOMAIN f /\ id[2] \in {1, 2} /\ id = <<3, id[2]>>
          /\ id[2] = 1 => carried[id[2]] = [path |-> "user.rs", text |-> Source(f)]
          /\ id[2] = 2 => carried[id[2]] = [path |-> "user_test.rs", text |-> Tests(f)]
      BY <2>1, <3>1, EditsAre
    <3>3. fs' = [p \in DOMAIN fs \cup {carried[id[2]].path} |->
                    IF p = carried[id[2]].path THEN carried[id[2]].text ELSE fs[p]]
      BY <1>11, <3>1, <3>2 DEF RunLeaf
    <3>4. DOMAIN fs = DOMAIN f
          /\ \A p \in DOMAIN f : fs[p] =
                IF p = "user.rs" /\ Applied(f, 1) THEN Source(f)
                ELSE IF p = "user_test.rs" /\ Applied(f, 2) THEN Tests(f) ELSE f[p]
      BY FilesAre
    <3>5. "user.rs" \in DOMAIN f /\ "user_test.rs" \in DOMAIN f
      BY <3>2 DEF Both
    <3>6. CASE id[2] = 1
      <4>1. Applied(f, 1)' /\ (Applied(f, 2)' <=> Applied(f, 2))
        BY <1>1, <1>4, <2>1, <3>2, <3>6 DEF Applied, Done
      <4>2. fs' = [p \in DOMAIN f |-> IF p = "user.rs" THEN Source(f) ELSE fs[p]]
        BY <3>2, <3>3, <3>4, <3>5, <3>6
      <4>3. fs' = [p \in DOMAIN f |->
                      IF p = "user.rs" /\ Applied(f, 1)' THEN Source(f)
                      ELSE IF p = "user_test.rs" /\ Applied(f, 2)' THEN Tests(f) ELSE f[p]]
        BY <3>4, <4>1, <4>2
      <4> QED
        BY <2>1, <4>3 DEF Edited
    <3>7. CASE id[2] = 2
      <4>1. Applied(f, 2)' /\ (Applied(f, 1)' <=> Applied(f, 1))
        BY <1>1, <1>4, <2>1, <3>2, <3>7 DEF Applied, Done
      <4>2. fs' = [p \in DOMAIN f |-> IF p = "user_test.rs" THEN Tests(f) ELSE fs[p]]
        BY <3>2, <3>3, <3>4, <3>5, <3>7
      <4>3. fs' = [p \in DOMAIN f |->
                      IF p = "user.rs" /\ Applied(f, 1)' THEN Source(f)
                      ELSE IF p = "user_test.rs" /\ Applied(f, 2)' THEN Tests(f) ELSE f[p]]
        BY <3>4, <4>1, <4>2
      <4> QED
        BY <2>1, <4>3 DEF Edited
    <3> QED
      BY <3>2, <3>6, <3>7
  <2> QED
    BY <2>3, <2>4
<1> QED
  BY <1>3, <1>6, <1>7, <1>8, <1>9, <1>10, <1>11 DEF Next, Body, Step, Last

\* Before the orchestrator's body there is nothing but the orchestrator.
LEMMA BeforeBody ==
    ASSUME WInv, stage = 0, Next
    PROVE  \/ Call \/ Begin
           \/ Return
           \/ \E b \in {"closed", "answered"} :
                 /\ Moves(Root, b) /\ Done(Root)
                 /\ UNCHANGED <<program, lines, fs, carried, out, entry>>
<1>1. \A id \in Ids \ {Root} : state[id] = "absent"
  BY IdsAre DEF WInv, Tree, Absent
<1>2. state[Root] # "body" /\ Root \in Ids
  BY IdsAre DEF WInv, Tree
<1>3. Last \in {4, 5}
  BY StagesAre DEF WInv, TypeOK
<1>4. \A s \in 1 .. Last : Head1(s) \in Ids \ {Root} /\ s # 0
  <2>1. \A s \in 1 .. Last : s \in 1 .. 5 /\ s # 0
    BY <1>3
  <2> QED
    BY <2>1, IdsAre
<1>5. ASSUME NEW s \in 1 .. Last
      PROVE  ~(SpawnStage(s) \/ SpawnItem(s) \/ Advance(s) \/ GiveUp(s) \/ FanBegin(s)
               \/ FanEnd(s))
  <2>1. ~InStage(s)
    BY <1>2 DEF InStage
  <2>2. state[Head1(s)] = "absent"
    BY <1>1, <1>4
  <2> QED
    BY <2>1, <2>2 DEF SpawnStage, SpawnItem, Advance, GiveUp, FanBegin, FanEnd, Move
<1>6. ASSUME NEW id \in Ids, Step(id)
      PROVE  \E b \in {"closed", "answered"} :
                /\ Moves(Root, b) /\ Done(Root)
                /\ UNCHANGED <<program, lines, fs, carried, out, entry>>
  <2>1. id = Root /\ ~RunLeaf(id)
    BY <1>1, <1>6 DEF Step, RunLeaf, Close, Reply, Move
  <2>2. CASE Close(id)
    BY <1>2, <2>1, <2>2 DEF Close, Move, Moves, Done
  <2>3. CASE Reply(id)
    BY <1>2, <2>1, <2>3 DEF Reply, Move, Moves, Done
  <2> QED
    BY <1>6, <2>1, <2>2, <2>3 DEF Step
<1> QED
  BY <1>5, <1>6 DEF Next, Body, Last

LEMMA SolveNext ==
    ASSUME WInv, Next, program = "solve"
    PROVE  SolveValues'
<1>1. CASE stage = 0
  <2>0. fs \in FileSystems /\ run <= 1
    BY <1>1 DEF WInv, Values, SolveValues, Cache
  <2>1. CASE Call \/ Return \/ \E b \in {"closed", "answered"} :
               Moves(Root, b) /\ UNCHANGED <<program, lines, fs, carried, out, entry>>
    <3>1. fs' = fs /\ stage' = 0
      BY <1>1, <2>1 DEF Call, Return, Moves
    <3> QED
      BY <2>0, <3>1 DEF SolveValues
  <2>2. CASE Begin
    <3>1. ~Cached
      BY <2>0 DEF Cached, WInv, TypeOK
    <3>2. /\ state' = [state EXCEPT ![Root] = "body"] /\ stage' = 1 /\ out' = out
          /\ fs' = fs /\ carried' \in Listings
      BY <2>2, <3>1 DEF Begin
    <3>3. carried' \in ListingsOf(fs)
      BY <3>2 DEF Listings, ListingsOf
    <3>4. PICK f : f = fs
      OBVIOUS
    <3>5. PICK q : q = carried'
      OBVIOUS
    <3>6. q = SolveGiven(f, q)[1]
      BY DEF SolveGiven
    <3>7. Follows(SolveGiven(f, q), SolveReturned(f, q))'
      BY <1>1, <3>2, <3>5, <3>6, BeginFollows
    <3>8. fs' = Edited(f)'
      <4>1. f = [p \in DOMAIN f |-> f[p]] /\ f \in FileSystems
        BY <2>0, <3>4, FilesAssumption
      <4>2. ~Applied(f, 1)' /\ ~Applied(f, 2)'
        <5>1. Both \subseteq DOMAIN f => 1 \in 0 .. MaxItems /\ 2 \in 0 .. MaxItems
          <6>1. Width(3) \in 0 .. MaxItems
            BY DEF WInv, TypeOK
          <6>2. Both \subseteq DOMAIN f => Width(3) = 2
            BY <3>4 DEF Width
          <6> QED
            BY <6>1, <6>2, BoundsAssumption
        <5>2. Absent(3)
          BY <1>1 DEF WInv, Tree
        <5>3. Both \subseteq DOMAIN f => /\ state[<<3, 1>>] = "absent"
                                         /\ state[<<3, 2>>] = "absent"
                                         /\ <<3, 1>> # Root /\ <<3, 2>> # Root
                                         /\ <<3, 1>> \in Ids /\ <<3, 2>> \in Ids
          BY <5>1, <5>2, IdsAre DEF Absent
        <5> QED
          BY <3>2, <5>3 DEF Applied, Done, WInv, TypeOK
      <4>3. Edited(f)' = [p \in DOMAIN f |-> f[p]]
        BY <4>2 DEF Edited
      <4> QED
        BY <3>2, <3>4, <4>1, <4>3
    <3>9. f \in FileSystems /\ q \in ListingsOf(f)
      BY <2>0, <3>3, <3>4, <3>5
    <3> QED
      BY <3>2, <3>7, <3>8, <3>9 DEF SolveValues
  <2> QED
    BY <1>1, <2>1, <2>2, BeforeBody
<1>2. CASE stage # 0
  <2>1. PICK f \in FileSystems :
           \E q \in ListingsOf(f) :
              fs = Edited(f) /\ Follows(SolveGiven(f, q), SolveReturned(f, q))
    BY <1>2 DEF WInv, Values, SolveValues
  <2>2. PICK q \in ListingsOf(f) :
           fs = Edited(f) /\ Follows(SolveGiven(f, q), SolveReturned(f, q))
    BY <2>1
  <2>3. Script(SolveGiven(f, q), SolveReturned(f, q))
    BY <2>2, SolveScript
  <2>4. \A id \in Ids : RunLeaf(id) => out'[id] = SolveReturned(f, q)[id]
    BY <2>2, SolveLeaf
  <2>5. fs' = Edited(f)' /\ stage' # 0
    BY <1>2, <2>2, EditedNext
  <2>6. Follows(SolveGiven(f, q), SolveReturned(f, q))'
    BY <1>2, <2>2, <2>3, <2>4, <2>5, FollowsNext
  <2> QED
    BY <2>5, <2>6 DEF SolveValues
<1> QED
  BY <1>1, <1>2

\* The script of the pipeline is fixed by its lines.
LEMMA PipelineKept ==
    ASSUME lines' = lines
    PROVE  /\ PipelineGiven' = PipelineGiven /\ PipelineReturned' = PipelineReturned
           /\ BadLines' = BadLines
<1>1. BadLines' = BadLines /\ Classified' = Classified
  BY DEF BadLines, Classified
<1>2. FirstBad' = FirstBad
  BY <1>1 DEF FirstBad
<1>3. (Filter(Classified))' = Filter(Classified)
  BY <1>1 DEF Filter, PassingTo, Ok
<1>4. (Aggregate(Filter(Classified).val))' = Aggregate(Filter(Classified).val)
  BY <1>3 DEF Aggregate, Total, SumTo, Ok
<1> QED
  BY <1>1, <1>2, <1>3, <1>4 DEF PipelineGiven, PipelineReturned

LEMMA PipelineNext ==
    ASSUME WInv, Next, program = "pipeline"
    PROVE  PipelineValues'
<1>1. PICK given : given = PipelineGiven
  OBVIOUS
<1>2. PICK returned : returned = PipelineReturned
  OBVIOUS
<1>3. /\ given = PipelineGiven' /\ returned = PipelineReturned' /\ BadLines' = BadLines
      /\ Script(given, returned) /\ Follows(given, returned)
      /\ entry.ok => BadLines = {} /\ entry = returned[Head1(4)]
      /\ stage = 0 /\ Done(Root) => out[Root] = entry /\ entry.ok
  <2>1. PipelineValues
    BY DEF WInv, Values
  <2>2. lines' = lines
    BY SetupKept
  <2> QED
    BY <1>1, <1>2, <2>1, <2>2, PipelineKept, PipelineScript DEF PipelineValues, WInv
<1>4. Last = 4 /\ Root \in Ids /\ state \in [Ids -> Life] /\ out = [id \in Ids |-> out[id]]
  BY ShapesAre, IdsAre DEF WInv, TypeOK
<1> DEFINE Good0 == /\ Follows(given, returned)'
                    /\ entry'.ok => BadLines = {} /\ entry' = returned[Head1(4)]
                    /\ stage' = 0 /\ Done(Root)' => out'[Root] = entry' /\ entry'.ok
<1> SUFFICES Good0
  BY <1>3 DEF PipelineValues, Head1
<1>5. CASE Call
  <2>1. stage' = 0 /\ entry' = entry /\ \A id \in Ids : ~Done(id)'
    BY <1>5, CallTree DEF Call
  <2> QED
    BY <1>3, <1>4, <2>1 DEF Follows
<1>6. CASE stage = 0 /\ ~Call
  <2>1. CASE Return
    <3>1. UNCHANGED <<stage, state, out, entry, carried>>
      BY <2>1 DEF Return
    <3>2. Follows(given, returned)'
      BY <1>3, <1>6, <3>1 DEF Follows, Done
    <3> QED
      BY <1>3, <3>1, <3>2 DEF Done
  <2>2. ASSUME NEW b \in {"closed", "answered"}, Moves(Root, b), Done(Root),
               UNCHANGED <<program, lines, fs, carried, out, entry>>
        PROVE  Good0
    <3>1. stage' = stage
      BY <2>2 DEF Moves
    <3>2. Follows(given, returned)'
      BY <1>3, <1>6, <2>2, MovesFollow
    <3> QED
      BY <1>3, <1>6, <2>2, <3>1, <3>2
  <2>3. CASE Begin /\ Cached /\ entry.ok
    <3>1. Ends(Root, entry) /\ stage' = stage /\ carried' = carried /\ entry' = entry
          /\ state[Root] = "ready"
      BY <2>3 DEF Begin
    <3>2. Moves(Root, "ran") /\ out'[Root] = entry
      BY <1>4, <3>1, EndsMoves
    <3>3. Follows(given, returned)'
      BY <1>3, <1>6, <3>1, <3>2, MovesFollow
    <3> QED
      BY <1>3, <2>3, <3>1, <3>2, <3>3
  <2>4. CASE Begin /\ ~(Cached /\ entry.ok)
    <3>1. /\ state' = [state EXCEPT ![Root] = "body"] /\ stage' = 1 /\ out' = out
          /\ entry' = entry /\ carried' = lines
      BY <2>4 DEF Begin
    <3>2. carried' = given[1]
      BY <1>1, <3>1 DEF PipelineGiven
    <3>3. Follows(given, returned)'
      BY <1>6, <3>1, <3>2, BeginFollows
    <3> QED
      BY <1>3, <3>1, <3>3
  <2> HIDE DEF Good0
  <2> QED
    BY <1>6, <2>1, <2>2, <2>3, <2>4, BeforeBody
<1>7. CASE stage # 0 /\ ~Call
  <2>1. \A id \in Ids : RunLeaf(id) => out'[id] = returned[id]
    BY <1>2, PipelineLeaf
  <2> DEFINE EntryStays == /\ stage' # 0
                           /\ \/ entry' = entry
                              \/ /\ stage = 4 /\ Good(Head1(4))
                                 /\ entry' = Ok(out[Head1(4)].val)
  <2>2. EntryStays
    <3>1. ~Begin
      BY <1>7 DEF Begin, WInv, Tree
    <3>2. CASE Return
      BY <1>7, <3>2 DEF Return
    <3>3. ASSUME NEW s \in 1 .. Last, Advance(s) PROVE EntryStays
      <4>1. s = stage /\ Shape[4] = "one"
        BY <1>4, <3>3, ShapesAre DEF Advance, InStage
      <4>2. CASE s < Last
        <5>1. stage' = s + 1 /\ entry' = entry
          BY <3>3, <4>2 DEF Advance, Last
        <5> QED
          BY <1>4, <5>1
      <4>3. CASE ~(s < Last)
        <5>1. s = 4 /\ stage' = stage
          BY <1>4, <3>3, <4>3 DEF Advance, Last
        <5>2. Good(Head1(4)) /\ entry' = IF Cached THEN Ok(out[Head1(4)].val) ELSE entry
          BY <3>3, <4>1, <4>3, <5>1 DEF Advance, Last
        <5> QED
          BY <1>7, <4>1, <5>1, <5>2
      <4> QED
        BY <4>2, <4>3
    <3>4. ASSUME NEW s \in 1 .. Last, SpawnStage(s) \/ SpawnItem(s) \/ GiveUp(s) \/ FanBegin(s)
                                      \/ FanEnd(s)
          PROVE  EntryStays
      BY <1>7, <3>4 DEF SpawnStage, SpawnItem, GiveUp, FanBegin, FanEnd
    <3>5. ASSUME NEW id \in Ids, Step(id) PROVE EntryStays
      BY <1>7, <3>5 DEF Step, RunLeaf, Close, Reply
    <3> QED
      BY <1>7, <3>1, <3>2, <3>3, <3>4, <3>5 DEF Next, Body, Last
  <2>3. Follows(given, returned)'
    BY <1>3, <1>7, <2>1, <2>2, FollowsNext
  <2>4. ASSUME stage = 4, Good(Head1(4)), entry' = Ok(out[Head1(4)].val)
        PROVE  BadLines = {} /\ entry' = returned[Head1(4)]
    <3>1. Head1(4) \in Ids \ {Root} /\ Head1(1) \in Ids \ {Root}
      BY IdsAre
    <3>2. out[Head1(4)] = returned[Head1(4)]
      BY <1>3, <2>4, <3>1 DEF Follows, Good, Answered, Done
    <3>3. returned[Head1(4)] = Aggregate(Filter(Classified).val)
      BY <1>2, <3>1 DEF PipelineReturned, Head1
    <3>4. \E v : returned[Head1(4)] = Ok(v)
      BY <3>3 DEF Aggregate
    <3>5. entry' = returned[Head1(4)]
      BY <2>4, <3>2, <3>4 DEF Ok
    <3>6. Good(Head1(1))
      <4>1. Whole(1) /\ Shape[1] = "map"
        BY <1>4, <2>4, ShapesAre DEF WInv, Tree
      <4> QED
        BY <4>1 DEF Whole
    <3>7. out[Head1(1)] = returned[Head1(1)] /\ returned[Head1(1)].ok
      BY <1>3, <3>1, <3>6 DEF Follows, Good, Answered, Done
    <3>8. returned[Head1(1)] = IF BadLines = {} THEN Ok(lines) ELSE Err(<<1, FirstBad>>)
      BY <1>2, <3>1 DEF PipelineReturned, Head1
    <3> QED
      BY <3>5, <3>7, <3>8 DEF Err
  <2> QED
    BY <1>3, <2>2, <2>3, <2>4
<1> HIDE DEF Good0
<1> QED
  BY <1>5, <1>6, <1>7

(***************************************************************************)
(* The invariant                                                           *)
(***************************************************************************)

LEMMA WInvInit == Init => WInv
<1> SUFFICES ASSUME Init PROVE WInv
  OBVIOUS
<1>1. /\ program \in {"solve", "pipeline"} /\ run = 0 /\ stage = 0 /\ main = "ready"
      /\ \A id \in Ids : state[id] = "absent"
      /\ state \in [Ids -> Life] /\ out = [id \in Ids |-> out[id]]
      /\ ~entry.ok
  BY BoundsAssumption DEF Init, NoTasks, NoOuts, Life, None
<1>2. /\ program = "pipeline" => lines \in Batches
      /\ program = "solve" => fs \in FileSystems
  BY DEF Init
<1>3. \A s \in 1 .. 5 : Width(s) \in 0 .. MaxItems
  <2>1. CASE program = "pipeline"
    <3>1. lines \in Seq([well : BOOLEAN, text : SUBSET STRING, value : Int])
          /\ Len(lines) <= MaxItems
      BY <1>2, <2>1, LinesAssumption
    <3>2. Len(lines) \in 0 .. MaxItems
      BY <3>1, BoundsAssumption
    <3> QED
      BY <2>1, <3>2, BoundsAssumption DEF Width
  <2>2. CASE program = "solve"
    <3>1. IsFiniteSet(DOMAIN fs) /\ Cardinality(DOMAIN fs) <= MaxItems
      BY <1>2, <2>2, FilesAssumption
    <3>2. Cardinality(DOMAIN fs) \in 0 .. MaxItems
      BY <3>1, FS_CardinalityType, BoundsAssumption
    <3>3. Both \subseteq DOMAIN fs => 2 \in 0 .. MaxItems
      <4> SUFFICES ASSUME Both \subseteq DOMAIN fs PROVE 2 <= MaxItems
        BY BoundsAssumption
      <4>1. Cardinality({"user.rs"}) = 1 /\ IsFiniteSet({"user.rs"})
        BY FS_Singleton
      <4>2. "user_test.rs" \notin {"user.rs"}
        OBVIOUS
      <4>3. Cardinality({"user.rs"} \cup {"user_test.rs"}) = 2
        BY ONLY <4>1, <4>2, FS_AddElement
      <4>4. Both = {"user.rs"} \cup {"user_test.rs"}
        BY DEF Both
      <4>5. Cardinality(Both) <= Cardinality(DOMAIN fs) /\ Cardinality(Both) = 2
        BY <3>1, <4>3, <4>4, FS_Subset
      <4> QED
        BY <3>2, <4>5, BoundsAssumption
    <3> QED
      BY <2>2, <3>2, <3>3, BoundsAssumption DEF Width
  <2> QED
    BY <1>1, <2>1, <2>2
<1>4. Last \in {4, 5}
  BY <1>1, StagesAre
<1>5. TypeOK
  BY <1>1, <1>2, <1>3, <1>4 DEF TypeOK
<1>6. Tree
  <2>1. /\ \A t \in 1 .. 5, i \in 0 .. MaxItems : state[<<t, i>>] = "absent"
        /\ \A t \in 1 .. 5 : state[Head1(t)] = "absent"
        /\ state[Root] = "absent"
    BY <1>1, IdsAre
  <2>2. \A t \in 1 .. Last : t \in 1 .. 5 /\ ~(t < 0)
    BY <1>4
  <2>3. \A t \in 1 .. 5 : Absent(t)
    BY <2>1 DEF Absent
  <2>4. \A i \in 1 .. MaxItems : i \in 0 .. MaxItems /\ ~(i <= 0)
    BY BoundsAssumption
  <2>5. ASSUME NEW t \in 1 .. Last PROVE InOrder(t) /\ Fanned(t)
    <3>1. 0 \in 0 .. Width(t)
      BY <1>3, <2>2
    <3>2. \A i \in 1 .. MaxItems : state[<<t, i>>] = "absent" /\ ~(i <= 0)
      BY <2>1, <2>2, <2>4
    <3> QED
      BY <2>1, <2>2, <3>1, <3>2 DEF InOrder, Fanned, Done
  <2> QED
    BY <1>1, <2>1, <2>2, <2>3, <2>5 DEF Tree
<1>7. ~Done(Root) /\ \A id \in Ids : ~Done(id)
  BY <1>1, IdsAre DEF Done
<1>8. Cache
  BY <1>1, <1>7, IdsAre DEF Cache
<1>9. Values
  BY <1>1, <1>2, <1>7 DEF Values, PipelineValues, SolveValues, Follows
<1> QED
  BY <1>5, <1>6, <1>8, <1>9 DEF WInv

LEMMA WInvNext == WInv /\ [Next]_vars => WInv'
<1> SUFFICES ASSUME WInv, [Next]_vars PROVE WInv'
  OBVIOUS
<1>1. CASE Next
  <2>1. program' = program /\ program \in {"solve", "pipeline"}
    BY <1>1, SetupKept DEF WInv, TypeOK
  <2>2. Values'
    BY <1>1, <2>1, PipelineNext, SolveNext DEF Values
  <2> QED
    BY <1>1, <2>2, TypeOKNext, TreeNext, CacheNext DEF WInv
<1>2. CASE UNCHANGED vars
  <2>1. UNCHANGED <<program, lines, fs, run, stage, carried, state, out, entry, main>>
    BY <1>2 DEF vars
  <2>2. Shape' = Shape /\ Last' = Last
    BY <2>1 DEF Shape, Last
  <2>3. \A s : Width(s)' = Width(s) /\ (FansOut(s))' = FansOut(s)
    BY <2>1, <2>2 DEF Width, FansOut
  <2>4. TypeOK'
    BY <2>1, <2>2, <2>3 DEF WInv, TypeOK
  <2>5. Tree'
    BY <2>1, <2>2, <2>3 DEF WInv, Tree, Absent, Whole, InOrder, Fanned, Good, Answered, Done,
                            Head1
  <2>6. Cache'
    BY <2>1 DEF WInv, Cache, Done
  <2>7. ASSUME NEW given, NEW returned, Follows(given, returned)
        PROVE  Follows(given, returned)'
    BY <2>1, <2>2, <2>3, <2>7 DEF Follows, Outcome, Done, Good, Bad, Answered, Head1
  <2>8. CASE program = "pipeline"
    <3>1. PICK given : given = PipelineGiven
      OBVIOUS
    <3>2. PICK returned : returned = PipelineReturned
      OBVIOUS
    <3>3. given = PipelineGiven' /\ returned = PipelineReturned' /\ BadLines' = BadLines
      BY <2>1, <3>1, <3>2, PipelineKept
    <3>4. Follows(given, returned)'
      BY <2>7, <2>8, <3>1, <3>2 DEF WInv, Values, PipelineValues
    <3> QED
      BY <2>1, <2>4, <2>5, <2>6, <2>8, <3>1, <3>2, <3>3, <3>4
      DEF WInv, Values, PipelineValues, Done, Head1
  <2>9. CASE program # "pipeline"
    <3>1. SolveValues
      BY <2>9 DEF WInv, Values
    <3>2. SolveValues'
      <4>1. CASE stage = 0
        BY <2>1, <3>1, <4>1 DEF SolveValues
      <4>2. CASE stage # 0
        <5>1. PICK f \in FileSystems :
                 \E q \in ListingsOf(f) :
                    fs = Edited(f) /\ Follows(SolveGiven(f, q), SolveReturned(f, q))
          BY <3>1, <4>2 DEF SolveValues
        <5>2. PICK q \in ListingsOf(f) :
                 fs = Edited(f) /\ Follows(SolveGiven(f, q), SolveReturned(f, q))
          BY <5>1
        <5>3. fs' = Edited(f)'
          BY <2>1, <5>2 DEF Edited, Applied, Done
        <5>4. Follows(SolveGiven(f, q), SolveReturned(f, q))'
          BY <2>7, <5>2
        <5> QED
          BY <2>1, <4>2, <5>3, <5>4 DEF SolveValues
      <4> QED
        BY <4>1, <4>2
    <3> QED
      BY <2>1, <2>4, <2>5, <2>6, <2>9, <3>2 DEF WInv, Values
  <2> QED
    BY <2>8, <2>9
<1> QED
  BY <1>1, <1>2

\* Whatever has happened in a run is in the script of its input.
THEOREM WorkflowsInvariant == Spec => []WInv
BY WInvInit, WInvNext, PTL DEF Spec

(***************************************************************************)
(* The tests see every edit                                                *)
(***************************************************************************)

\* From the spawn of TestTask on, every planned edit of swe_agent.rs is in the
\* shared file system and the other files are as AnalyzeTask read them.
THEOREM EditsAreSeen == Spec => []TestsSeeEveryEdit
<1>1. WInv => TestsSeeEveryEdit
  <2> SUFFICES ASSUME WInv, program = "solve", state[Head1(4)] # "absent"
               PROVE  TestsSeeEveryEdit
    BY DEF TestsSeeEveryEdit
  <2>1. Head1(4) \in Ids \ {Root} /\ Head1(2) \in Ids \ {Root} /\ Head1(4)[1] = 4
        /\ Head1(2)[1] = 2
    BY IdsAre DEF Head1
  <2>2. stage # 0 /\ stage > 3 /\ stage \in 1 .. 5
    BY <2>1, NowIs, ShapesAre
  <2>3. PICK f \in FileSystems :
           \E q \in ListingsOf(f) :
              fs = Edited(f) /\ Follows(SolveGiven(f, q), SolveReturned(f, q))
    BY <2>2 DEF WInv, Values, SolveValues
  <2>4. PICK q \in ListingsOf(f) :
           fs = Edited(f) /\ Follows(SolveGiven(f, q), SolveReturned(f, q))
    BY <2>3
  <2>5. /\ Both \subseteq DOMAIN f /\ Good(<<3, 1>>) /\ Good(<<3, 2>>)
        /\ fs["user.rs"] = Source(f) /\ fs["user_test.rs"] = Tests(f)
    BY <2>2, <2>4, EditedAre
  <2>6. Whole(1) /\ Whole(2) /\ Shape[2] = "one"
    BY <2>2, ShapesAre DEF WInv, Tree
  <2>7. out[Head1(2)] = Planned(f)
    <3>1. out[Head1(2)] = SolveReturned(f, q)[Head1(2)]
      BY <2>1, <2>4, <2>6 DEF Whole, Good, Answered, Done, Follows
    <3> QED
      BY <2>1, <3>1 DEF SolveReturned
  <2> DEFINE edits == out[Head1(2)].val
             edited == {edits[i].path : i \in DOMAIN edits}
             asRead == {out[id].val : id \in {d \in Ids : d[1] = 1 /\ d[2] > 0 /\ Good(d)}}
  <2>8. edits = <<[path |-> "user.rs", text |-> Source(f)],
                  [path |-> "user_test.rs", text |-> Tests(f)]>>
    BY <2>5, <2>7 DEF Planned, Ok
  <2>9. edited = Both
    BY <2>8 DEF Both
  <2>10. ASSUME NEW i \in DOMAIN edits
         PROVE  Answered(<<3, i>>) /\ fs[edits[i].path] = edits[i].text
    <3>1. i = 1 \/ i = 2
      BY <2>8
    <3> QED
      BY <2>5, <2>8, <3>1 DEF Good
  <2>11. ASSUME NEW p \in DOMAIN fs \ edited
         PROVE  [path |-> p, text |-> fs[p]] \in asRead
    <3>1. /\ p \in DOMAIN f /\ IsFiniteSet(DOMAIN f) /\ fs[p] = f[p]
          /\ Width(1) = Cardinality(DOMAIN f)
      BY <2>4, <2>9, FilesAre DEF Both, Width
    <3>2. PICK i \in 1 .. Len(q) : q[i] = p
      BY <3>1, ListingIs
    <3>3. i \in 1 .. Width(1) /\ i \in 0 .. MaxItems /\ i > 0
      BY <2>4, <3>1, <3>2, ListingIs, FilesAre, BoundsAssumption
    <3>4. <<1, i>> \in Ids \ {Root} /\ <<1, i>>[1] = 1 /\ <<1, i>>[2] = i
      BY <3>3, IdsAre
    <3>5. Good(<<1, i>>)
      BY <2>6, <3>3 DEF Whole
    <3>6. out[<<1, i>>] = SolveReturned(f, q)[<<1, i>>]
      BY <2>4, <3>4, <3>5 DEF Follows, Good, Answered, Done
    <3>7. SolveReturned(f, q)[<<1, i>>] = Ok([path |-> q[i], text |-> f[q[i]]])
      BY <3>3, <3>4 DEF SolveReturned
    <3>8. out[<<1, i>>].val = [path |-> p, text |-> fs[p]]
      BY <3>1, <3>2, <3>6, <3>7 DEF Ok
    <3> QED
      BY <3>3, <3>4, <3>5, <3>8
  <2> HIDE DEF edits, edited, asRead
  <2> QED
    BY <2>10, <2>11 DEF TestsSeeEveryEdit, edits, edited, asRead
<1> QED
  BY <1>1, WorkflowsInvariant, PTL

(***************************************************************************)
(* The execution graph at the answer                                       *)
(***************************************************************************)

\* A stage whose tasks are at the places from lo to hi has that many.
LEMMA StageCount ==
    ASSUME NEW s \in 1 .. 5, NEW lo \in {0, 1}, NEW hi \in 0 .. MaxItems,
           \A i \in 0 .. MaxItems : state[<<s, i>>] # "absent" <=> i \in lo .. hi
    PROVE  Cardinality({id \in Ids : id[1] = s /\ state[id] # "absent"}) = hi - lo + 1
<1> DEFINE here == {id \in Ids : id[1] = s /\ state[id] # "absent"}
           g == [i \in lo .. hi |-> <<s, i>>]
<1>1. here = {<<s, i>> : i \in lo .. hi}
  <2>1. ASSUME NEW id \in here PROVE \E i \in lo .. hi : id = <<s, i>>
    <3>1. id # Root
      BY IdsAre
    <3>2. id = <<s, id[2]>> /\ id[2] \in 0 .. MaxItems
      BY <3>1, IdsAre
    <3>3. id[2] \in lo .. hi
      BY <3>2
    <3> QED
      BY <3>2, <3>3
  <2>2. ASSUME NEW i \in lo .. hi PROVE <<s, i>> \in here
    <3>1. i \in 0 .. MaxItems
      BY BoundsAssumption
    <3> QED
      BY <3>1, IdsAre
  <2> QED
    BY <2>1, <2>2
<1>2. g \in Bijection(lo .. hi, here)
  <2>1. g \in [lo .. hi -> here]
    BY <1>1
  <2>2. \A i, j \in lo .. hi : g[i] = g[j] => i = j
    OBVIOUS
  <2>3. \A id \in here : \E i \in lo .. hi : g[i] = id
    BY <1>1
  <2> HIDE DEF g, here
  <2> QED
    BY <2>1, <2>2, <2>3, Fun_IsBij
<1>3. IsFiniteSet(lo .. hi) /\ Cardinality(lo .. hi) = hi - lo + 1
  <2>1. lo \in Int /\ hi \in Int /\ lo <= hi + 1
    BY BoundsAssumption
  <2>2. IsFiniteSet(lo .. hi) /\ Cardinality(lo .. hi) = IF lo > hi THEN 0 ELSE hi - lo + 1
    BY <2>1, FS_Interval
  <2> QED
    BY <2>1, <2>2
<1> HIDE DEF g, here
<1>4. Cardinality(here) = hi - lo + 1
  BY <1>2, <1>3, FS_Bijection DEF ExistsBijection
<1> QED
  BY <1>4 DEF here

\* When the orchestrator has run well, its body has run all its stages, or it is
\* the run that the cache serves.
LEMMA WholeTree ==
    ASSUME WInv, Done(Root), out[Root].ok
    PROVE  \/ /\ stage = Last /\ run # 3 /\ \A t \in 1 .. Last : Whole(t)
           \/ stage = 0 /\ run = 3
<1>1. run \in 0 .. 3 /\ run # 0 /\ Last \in {4, 5}
  BY StagesAre DEF WInv, TypeOK, Cache, Done
<1>2. CASE stage = 0
  BY <1>1, <1>2 DEF WInv, Cache
<1>3. CASE stage # 0
  <2>1. stage = Last /\ Whole(Last) /\ run # 3
    BY <1>3 DEF WInv, Tree, Cache
  <2>2. \A t \in 1 .. Last : t = Last \/ t < Last
    BY <1>1
  <2> QED
    BY <2>1, <2>2 DEF WInv, Tree
<1> QED
  BY <1>2, <1>3

\* What the mains of data_pipeline.rs and swe_agent.rs assert of the graph holds
\* when they are answered.
THEOREM GraphIsComplete == Spec => []GraphIsCompleteAtTheAnswer
<1> DEFINE spawned(s) == {id \in Ids : id[1] = s /\ state[id] # "absent"}
           width == IF program = "pipeline" THEN Len(lines) ELSE Cardinality(DOMAIN fs)
           size == [solve |-> <<width + 1, 1, 2, 1, 1>>,
                    pipeline |-> <<width + 1, width + 1, 1, 1>>][program]
<1>1. ASSUME WInv, Answered(Root), out[Root].ok, NEW id \in Ids
      PROVE  state[id] \in {"absent", "closed", "answered"} /\ (state[id] # "absent" => out[id].ok)
  <2> SUFFICES ASSUME id # Root, state[id] # "absent" PROVE Good(id)
    BY <1>1 DEF Good, Answered
  <2>1. /\ stage # 0 /\ id[1] \in 1 .. stage /\ stage \in 1 .. Last /\ id = <<id[1], id[2]>>
        /\ id[2] \in 0 .. Width(id[1]) /\ (id[2] = 0 => Shape[id[1]] # "all")
    BY <1>1, NowIs
  <2>2. stage = Last /\ Whole(id[1])
    BY <1>1, <2>1, WholeTree DEF Done, Answered
  <2>3. CASE id[2] = 0
    BY <2>1, <2>2, <2>3 DEF Whole, Head1
  <2>4. CASE id[2] # 0
    <3>1. Width(id[1]) \in Nat
      <4>1. id[1] \in 1 .. 5
        BY <2>1, StagesAre, <1>1 DEF WInv, TypeOK
      <4> QED
        BY <4>1, <1>1, BoundsAssumption DEF WInv, TypeOK
    <3>2. id[2] \in 1 .. Width(id[1])
      BY <2>1, <2>4, <3>1
    <3> QED
      BY <2>1, <2>2, <3>2 DEF Whole
  <2> QED
    BY <2>3, <2>4
<1>2. ASSUME WInv, Answered(Root), out[Root].ok, NEW s \in 1 .. Last
      PROVE  Cardinality(spawned(s)) = IF run = 3 THEN 0
                                       ELSE IF Shape[s] = "all" THEN Width(s) ELSE Width(s) + 1
  <2>1. s \in 1 .. 5 /\ Width(s) \in 0 .. MaxItems /\ Head1(s) = <<s, 0>> /\ 0 \in 0 .. MaxItems
    <3>1. s \in 1 .. 5
      BY <1>2, StagesAre DEF WInv, TypeOK
    <3> QED
      BY <1>2, <3>1, BoundsAssumption DEF WInv, TypeOK, Head1
  <2>2. CASE stage = 0 /\ run = 3
    <3>1. Absent(s)
      BY <1>2, <2>1, <2>2 DEF WInv, Tree
    <3>2. \A i \in 0 .. MaxItems : state[<<s, i>>] # "absent" <=> i \in 1 .. 0
      BY <3>1 DEF Absent
    <3>3. Cardinality(spawned(s)) = 0 - 1 + 1
      <4> HIDE DEF spawned
      <4> QED
        BY <2>1, <3>2, StageCount DEF spawned
    <3> QED
      BY <2>2, <3>3
  <2>3. CASE stage = Last /\ run # 3 /\ Whole(s)
    <3>1. PICK k \in 0 .. Width(s) :
             \A i \in 1 .. MaxItems : state[<<s, i>>] # "absent" <=> i <= k
      BY <1>2 DEF WInv, Tree, InOrder
    <3>2. k = Width(s)
      <4> SUFFICES ASSUME k < Width(s) PROVE FALSE
        BY <2>1
      <4>1. Width(s) \in 1 .. Width(s) /\ Width(s) \in 1 .. MaxItems
        BY <2>1
      <4>2. state[<<s, Width(s)>>] = "answered"
        BY <2>3, <4>1 DEF Whole, Good, Answered
      <4>3. Width(s) <= k
        BY <3>1, <4>1, <4>2
      <4> QED
        BY <2>1, <4>3
    <3>3. CASE Shape[s] = "all"
      <4>1. state[<<s, 0>>] = "absent"
        BY <1>2, <2>1, <3>3 DEF WInv, Tree, InOrder
      <4>2. \A i \in 0 .. MaxItems : state[<<s, i>>] # "absent" <=> i \in 1 .. Width(s)
        BY <2>1, <3>1, <3>2, <4>1
      <4>3. Cardinality(spawned(s)) = Width(s) - 1 + 1
        BY <2>1, <4>2, StageCount
      <4> QED
        BY <2>1, <2>3, <3>3, <4>3
    <3>4. CASE Shape[s] # "all"
      <4>1. state[<<s, 0>>] # "absent"
        BY <2>1, <2>3, <3>4 DEF Whole, Good, Answered
      <4>2. \A i \in 0 .. MaxItems : state[<<s, i>>] # "absent" <=> i \in 0 .. Width(s)
        BY <2>1, <3>1, <3>2, <4>1
      <4>3. Cardinality(spawned(s)) = Width(s) - 0 + 1
        BY <2>1, <4>2, StageCount
      <4> QED
        BY <2>1, <2>3, <3>4, <4>3
    <3> QED
      BY <3>3, <3>4
  <2> HIDE DEF spawned
  <2> QED
    BY <1>2, <2>2, <2>3, WholeTree DEF Answered, Done
<1>3. ASSUME WInv, Answered(Root), out[Root].ok
      PROVE  \A s \in DOMAIN size : Cardinality(spawned(s)) = IF run = 3 THEN 0 ELSE size[s]
  <2> HIDE DEF spawned
  <2>1. CASE program = "pipeline"
    <3>1. size = <<width + 1, width + 1, 1, 1>> /\ width = Len(lines)
      BY <2>1
    <3>2. /\ Last = 4 /\ Shape[1] = "map" /\ Shape[2] = "map" /\ Shape[3] = "one"
          /\ Shape[4] = "one"
      BY <2>1, ShapesAre
    <3>3. Width(1) = width /\ Width(2) = width /\ Width(3) = 0 /\ Width(4) = 0
      BY <2>1, <3>1 DEF Width
    <3> HIDE DEF size, width
    <3>4. \A s \in 1 .. 4 :
             Cardinality(spawned(s)) = IF run = 3 THEN 0 ELSE Width(s) + 1
      <4>1. \A s \in 1 .. 4 : Shape[s] # "all"
        BY <3>2
      <4> QED
        BY <1>2, <1>3, <3>2, <4>1
    <3>5. /\ size[1] = Width(1) + 1 /\ size[2] = Width(2) + 1 /\ size[3] = Width(3) + 1
          /\ size[4] = Width(4) + 1 /\ DOMAIN size = 1 .. 4
      BY <3>1, <3>3
    <3>6. \A s \in 1 .. 4 : size[s] = Width(s) + 1
      <4>1. \A s \in 1 .. 4 : s = 1 \/ s = 2 \/ s = 3 \/ s = 4
        OBVIOUS
      <4> QED
        BY <3>5, <4>1
    <3> QED
      BY <3>4, <3>5, <3>6
  <2>2. CASE program = "solve"
    <3>1. size = <<width + 1, 1, 2, 1, 1>> /\ width = Cardinality(DOMAIN fs)
      BY <2>2
    <3>2. /\ Last = 5 /\ Shape[1] = "each" /\ Shape[2] = "one" /\ Shape[3] = "all"
          /\ Shape[4] = "one" /\ Shape[5] = "one"
      BY <2>2, ShapesAre
    <3>3. stage = 5 /\ run # 3
      BY <1>3, <2>2, <3>2, WholeTree DEF Answered, Done, WInv, Cache
    <3>4. PICK f \in FileSystems :
             \E q \in ListingsOf(f) :
                fs = Edited(f) /\ Follows(SolveGiven(f, q), SolveReturned(f, q))
      BY <1>3, <2>2, <3>3 DEF WInv, Values, SolveValues
    <3>5. Both \subseteq DOMAIN f /\ DOMAIN fs = DOMAIN f
      BY <1>3, <2>2, <3>3, <3>4, EditedAre, FilesAre
    <3>6. /\ Width(1) = width /\ Width(2) = 0 /\ Width(3) = 2 /\ Width(4) = 0 /\ Width(5) = 0
      BY <2>2, <3>1, <3>5 DEF Width
    <3> HIDE DEF size, width
    <3>7. \A s \in 1 .. 5 : s = 1 \/ s = 2 \/ s = 3 \/ s = 4 \/ s = 5
      OBVIOUS
    <3>8. \A s \in 1 .. 5 : Cardinality(spawned(s)) =
                               IF Shape[s] = "all" THEN Width(s) ELSE Width(s) + 1
      BY <1>2, <1>3, <3>2, <3>3
    <3>9. /\ size[1] = Width(1) + 1 /\ size[2] = Width(2) + 1 /\ size[3] = Width(3)
          /\ size[4] = Width(4) + 1 /\ size[5] = Width(5) + 1 /\ DOMAIN size = 1 .. 5
      BY <3>1, <3>6
    <3> QED
      BY <3>2, <3>3, <3>7, <3>8, <3>9
  <2> HIDE DEF size
  <2> QED
    BY <1>3, <2>1, <2>2 DEF WInv, TypeOK
<1>4. WInv => GraphIsCompleteAtTheAnswer
  <2> HIDE DEF size, spawned
  <2>1. ASSUME WInv, Answered(Root), out[Root].ok
        PROVE  \A s \in DOMAIN size : Cardinality(spawned(s)) = IF run = 3 THEN 0 ELSE size[s]
    BY <1>3, <2>1
  <2> QED
    BY <1>1, <2>1 DEF GraphIsCompleteAtTheAnswer, size, spawned, width
<1> QED
  BY <1>4, WorkflowsInvariant, PTL

(***************************************************************************)
(* The answer                                                              *)
(***************************************************************************)

\* What FilterRecords keeps of the first i records satisfies its equation.
LEMMA PassingToDef ==
    ASSUME NEW rs, Len(rs) \in Nat
    PROVE  PassingTo(rs) =
               [i \in 0 .. Len(rs) |->
                   IF i = 0 THEN <<>>
                   ELSE IF Passes(rs[i]) THEN Append(PassingTo(rs)[i - 1], rs[i])
                   ELSE PassingTo(rs)[i - 1]]
<1> DEFINE n == Len(rs)
           At(g, i) == IF i = 0 THEN <<>>
                       ELSE IF Passes(rs[i]) THEN Append(g[i - 1], rs[i]) ELSE g[i - 1]
           Solves(g, m) == g = [i \in 0 .. m |-> At(g, i)]
           Unsolved == {m \in Nat : m <= n /\ ~\E g : Solves(g, m)}
<1>1. \E g : Solves(g, 0)
  <2>1. Solves([i \in 0 .. 0 |-> <<>>], 0)
    OBVIOUS
  <2> QED
    BY <2>1
<1>2. ASSUME NEW m \in Nat, m < n, NEW g, Solves(g, m)
      PROVE  \E h : Solves(h, m + 1)
  <2> DEFINE h == [i \in 0 .. m + 1 |-> At(g, i)]
  <2>1. \A i \in 0 .. m : g[i] = At(g, i)
    BY <1>2
  <2>2. \A i \in 0 .. m + 1 : h[i] = At(g, i)
    OBVIOUS
  <2>3. \A i \in 0 .. m : h[i] = g[i]
    BY <2>1, <2>2
  <2>4. \A i \in 0 .. m + 1 : i # 0 => i - 1 \in 0 .. m
    OBVIOUS
  <2>5. \A i \in 0 .. m + 1 : At(h, i) = At(g, i)
    <3> HIDE DEF h
    <3> QED
      BY <2>3, <2>4
  <2>6. Solves(h, m + 1)
    BY <2>5
  <2> QED
    BY <2>6
<1>3. PassingTo(rs) = CHOOSE g : Solves(g, n)
  BY DEF PassingTo
<1> HIDE DEF Solves
<1>4. Unsolved = {}
  <2> SUFFICES ASSUME Unsolved # {} PROVE FALSE
    OBVIOUS
  <2>1. PICK m \in Unsolved : \A k \in Unsolved : m <= k
    <3>1. Unsolved \subseteq Nat
      OBVIOUS
    <3> QED
      BY <3>1, LeastNat
  <2>2. m # 0
    BY <1>1
  <2>3. m - 1 \in Nat /\ m - 1 < n /\ m - 1 \notin Unsolved /\ (m - 1) + 1 = m
    BY <2>1, <2>2
  <2>4. PICK g : Solves(g, m - 1)
    BY <2>3
  <2> QED
    BY <2>1, <2>3, <2>4, <1>2
<1>5. Solves(PassingTo(rs), n)
  BY <1>3, <1>4
<1> QED
  BY <1>5 DEF Solves

\* The sum of the first i values satisfies its equation.
LEMMA SumToDef ==
    ASSUME NEW vs, Len(vs) \in Nat
    PROVE  SumTo(vs) =
               [i \in 0 .. Len(vs) |-> IF i = 0 THEN 0 ELSE SumTo(vs)[i - 1] + vs[i]]
<1> DEFINE n == Len(vs)
           At(g, i) == IF i = 0 THEN 0 ELSE g[i - 1] + vs[i]
           Solves(g, m) == g = [i \in 0 .. m |-> At(g, i)]
           Unsolved == {m \in Nat : m <= n /\ ~\E g : Solves(g, m)}
<1>1. \E g : Solves(g, 0)
  <2>1. Solves([i \in 0 .. 0 |-> 0], 0)
    OBVIOUS
  <2> QED
    BY <2>1
<1>2. ASSUME NEW m \in Nat, m < n, NEW g, Solves(g, m)
      PROVE  \E h : Solves(h, m + 1)
  <2> DEFINE h == [i \in 0 .. m + 1 |-> At(g, i)]
  <2>1. \A i \in 0 .. m : g[i] = At(g, i)
    BY <1>2
  <2>2. \A i \in 0 .. m + 1 : h[i] = At(g, i)
    OBVIOUS
  <2>3. \A i \in 0 .. m : h[i] = g[i]
    BY <2>1, <2>2
  <2>4. \A i \in 0 .. m + 1 : i # 0 => i - 1 \in 0 .. m
    OBVIOUS
  <2>5. \A i \in 0 .. m + 1 : At(h, i) = At(g, i)
    <3> HIDE DEF h
    <3> QED
      BY <2>3, <2>4
  <2>6. Solves(h, m + 1)
    BY <2>5
  <2> QED
    BY <2>6
<1>3. SumTo(vs) = CHOOSE g : Solves(g, n)
  BY DEF SumTo
<1> HIDE DEF Solves
<1>4. Unsolved = {}
  <2> SUFFICES ASSUME Unsolved # {} PROVE FALSE
    OBVIOUS
  <2>1. PICK m \in Unsolved : \A k \in Unsolved : m <= k
    <3>1. Unsolved \subseteq Nat
      OBVIOUS
    <3> QED
      BY <3>1, LeastNat
  <2>2. m # 0
    BY <1>1
  <2>3. m - 1 \in Nat /\ m - 1 < n /\ m - 1 \notin Unsolved /\ (m - 1) + 1 = m
    BY <2>1, <2>2
  <2>4. PICK g : Solves(g, m - 1)
    BY <2>3
  <2> QED
    BY <2>1, <2>3, <2>4, <1>2
<1>5. Solves(SumTo(vs), n)
  BY <1>3, <1>4
<1> QED
  BY <1>5 DEF Solves

\* The sum of the first m values depends on these alone.
LEMMA SumsAgree ==
    ASSUME NEW vs, NEW ws, Len(vs) \in Nat, Len(ws) \in Nat, NEW m \in Nat,
           m <= Len(vs), m <= Len(ws), \A i \in 1 .. m : vs[i] = ws[i]
    PROVE  SumTo(vs)[m] = SumTo(ws)[m]
<1> DEFINE Wrong == {k \in Nat : k <= m /\ SumTo(vs)[k] # SumTo(ws)[k]}
<1>1. \A k \in 0 .. m : /\ SumTo(vs)[k] = IF k = 0 THEN 0 ELSE SumTo(vs)[k - 1] + vs[k]
                        /\ SumTo(ws)[k] = IF k = 0 THEN 0 ELSE SumTo(ws)[k - 1] + ws[k]
  BY SumToDef
<1>2. Wrong = {}
  <2> SUFFICES ASSUME Wrong # {} PROVE FALSE
    OBVIOUS
  <2>1. PICK k \in Wrong : \A j \in Wrong : k <= j
    <3>1. Wrong \subseteq Nat
      OBVIOUS
    <3> QED
      BY <3>1, LeastNat
  <2>2. k \in 0 .. m /\ k # 0
    BY <1>1, <2>1
  <2>3. k - 1 \in Nat /\ k - 1 <= m /\ k - 1 \notin Wrong /\ k \in 1 .. m
    BY <2>1, <2>2
  <2> QED
    BY <1>1, <2>1, <2>2, <2>3
<1> QED
  BY <1>2

\* The total of one value more.
LEMMA TotalAppend ==
    ASSUME NEW vs, NEW k \in Nat, Len(vs) = k, NEW ws, Len(ws) = k + 1,
           \A i \in 1 .. k : ws[i] = vs[i]
    PROVE  Total(ws) = Total(vs) + ws[k + 1]
<1>1. SumTo(ws)[k] = SumTo(vs)[k]
  <2>1. Len(vs) \in Nat /\ Len(ws) \in Nat /\ k <= Len(vs) /\ k <= Len(ws)
    OBVIOUS
  <2> QED
    BY <2>1, SumsAgree
<1>2. SumTo(ws)[k + 1] = SumTo(ws)[k] + ws[k + 1]
  BY SumToDef
<1> QED
  BY <1>1, <1>2 DEF Total

\* What FilterRecords and AggregateRecords make of the first m lines: their count,
\* their values and their categories are those of the lines that are kept.
LEMMA FilteredAre ==
    ASSUME TypeOK, program = "pipeline", NEW m \in 0 .. Len(lines)
    PROVE  LET rs == PassingTo(Classified)[m]
               kept == {i \in 1 .. m : i \in Kept}
           IN /\ Len(rs) \in Nat /\ DOMAIN rs = 1 .. Len(rs) /\ rs = [i \in 1 .. Len(rs) |-> rs[i]]
              /\ IsFiniteSet(kept) /\ Len(rs) = Cardinality(kept)
              /\ {rs[i].category : i \in DOMAIN rs} = {Category(lines[i].text) : i \in kept}
              /\ Total([i \in 1 .. Len(rs) |-> rs[i].value]) =
                    SumTo([i \in 1 .. Len(lines) |->
                              IF i \in Kept THEN lines[i].value ELSE 0])[m]
              /\ SumTo([i \in 1 .. Len(lines) |->
                              IF i \in Kept THEN lines[i].value ELSE 0])[m] \in Int
<1> DEFINE n == Len(lines)
           P == PassingTo(Classified)
           L == [i \in 1 .. n |-> IF i \in Kept THEN lines[i].value ELSE 0]
           K(k) == {i \in 1 .. k : i \in Kept}
           V(rs) == [i \in 1 .. Len(rs) |-> rs[i].value]
           IsSeq(rs) == Len(rs) \in Nat /\ DOMAIN rs = 1 .. Len(rs)
                        /\ rs = [i \in 1 .. Len(rs) |-> rs[i]]
           Counts(k) == IsSeq(P[k]) /\ IsFiniteSet(K(k)) /\ Len(P[k]) = Cardinality(K(k))
           Tells(k) == {P[k][i].category : i \in DOMAIN P[k]}
                          = {Category(lines[i].text) : i \in K(k)}
           Adds(k) == Total(V(P[k])) = SumTo(L)[k] /\ SumTo(L)[k] \in Int
           Right(k) == Counts(k) /\ Tells(k) /\ Adds(k)
           Wrong == {k \in Nat : k <= n /\ ~Right(k)}
<1>1. /\ n \in Nat /\ Len(Classified) = n /\ Len(L) = n
      /\ \A i \in 1 .. n : /\ lines[i].value \in Int
                           /\ Classified[i].value = lines[i].value
                           /\ Classified[i].category = Category(lines[i].text)
                           /\ L[i] = IF i \in Kept THEN lines[i].value ELSE 0
                           /\ Passes(Classified[i]) <=> i \in Kept
  <2>1. /\ lines \in Seq([well : BOOLEAN, text : SUBSET STRING, value : Int])
        /\ n \in Nat /\ DOMAIN lines = 1 .. n
    BY LinesAre, BoundsAssumption
  <2>2. Len(Classified) = n /\ Len(L) = n
    BY <2>1 DEF Classified
  <2>3. ASSUME NEW i \in 1 .. n
        PROVE  Classified[i] = [text |-> lines[i].text, value |-> lines[i].value,
                                category |-> Category(lines[i].text)]
    BY <2>3 DEF Classified, Classify, Ok
  <2>4. ASSUME NEW i \in 1 .. n
        PROVE  /\ Classified[i].value = lines[i].value
               /\ Classified[i].category = Category(lines[i].text)
    <3>1. Classified[i] = [text |-> lines[i].text, value |-> lines[i].value,
                           category |-> Category(lines[i].text)]
      BY <2>3
    <3> HIDE DEF n
    <3> QED
      BY <3>1
  <2>5. \A i \in 1 .. n : Passes(Classified[i]) <=> i \in Kept
    BY <2>1, <2>4 DEF Passes, Kept
  <2>6. \A i \in 1 .. n : lines[i].value \in Int
    <3>1. \A i \in 1 .. n : lines[i] \in [well : BOOLEAN, text : SUBSET STRING, value : Int]
      BY <2>1, ElementOfSeq
    <3> QED
      BY <3>1
  <2>7. \A i \in 1 .. n : L[i] = IF i \in Kept THEN lines[i].value ELSE 0
    OBVIOUS
  <2> HIDE DEF L
  <2> QED
    BY <2>1, <2>2, <2>4, <2>5, <2>6, <2>7
<1>2. \A k \in 0 .. n :
         /\ P[k] = IF k = 0 THEN <<>>
                   ELSE IF k \in Kept THEN Append(P[k - 1], Classified[k]) ELSE P[k - 1]
         /\ SumTo(L)[k] = IF k = 0 THEN 0 ELSE SumTo(L)[k - 1] + L[k]
  <2>1. \A k \in 0 .. n : k # 0 => k \in 1 .. n
    BY <1>1
  <2>2. PassingTo(Classified) = [i \in 0 .. n |->
            IF i = 0 THEN <<>>
            ELSE IF Passes(Classified[i]) THEN Append(PassingTo(Classified)[i - 1], Classified[i])
            ELSE PassingTo(Classified)[i - 1]]
    BY <1>1, PassingToDef
  <2> HIDE DEF L
  <2>3. SumTo(L) = [i \in 0 .. n |-> IF i = 0 THEN 0 ELSE SumTo(L)[i - 1] + L[i]]
    BY <1>1, SumToDef
  <2> QED
    BY <1>1, <2>1, <2>2, <2>3
<1> HIDE DEF P, L, n
<1>3. Right(0)
  <2>1. P[0] = <<>> /\ K(0) = {} /\ SumTo(L)[0] = 0
    <3>1. 0 \in 0 .. n
      BY <1>1
    <3>2. P[0] = <<>> /\ SumTo(L)[0] = 0
      <4> HIDE DEF K
      <4> QED
        BY <1>2, <3>1
    <3> QED
      BY <3>2
  <2>2. Counts(0)
    BY <2>1, FS_EmptySet
  <2>3. Tells(0)
    BY <2>1
  <2>4. Total(V(P[0])) = 0
    <3>1. V(P[0]) = <<>>
      BY <2>1
    <3>2. Len(V(P[0])) = 0
      BY <3>1
    <3> HIDE DEF V
    <3>3. SumTo(V(P[0]))[0] = 0
      BY <3>2, SumToDef
    <3> QED
      BY <3>2, <3>3 DEF Total
  <2> QED
    BY <2>1, <2>2, <2>3, <2>4
<1>4. ASSUME NEW k \in 1 .. n, Right(k - 1) PROVE Right(k)
  <2>1. k \in 0 .. n /\ k # 0 /\ k - 1 \in Nat
    BY <1>1
  <2>2. CASE k \notin Kept
    <3>1. P[k] = P[k - 1] /\ K(k) = K(k - 1)
      <4>1. \A i \in 1 .. k : i = k \/ i \in 1 .. k - 1
        BY <2>1
      <4>2. \A i \in 1 .. k - 1 : i \in 1 .. k
        BY <2>1
      <4> QED
        BY <1>2, <2>1, <2>2, <4>1, <4>2
    <3>2. SumTo(L)[k] = SumTo(L)[k - 1]
      BY <1>1, <1>2, <1>4, <2>1, <2>2
    <3> HIDE DEF V, K, IsSeq
    <3> QED
      BY <1>4, <3>1, <3>2
  <2>3. CASE k \in Kept
    <3> DEFINE rs == P[k - 1]
               c == Classified[k]
               l == Len(rs)
    <3>1. IsSeq(rs) /\ P[k] = Append(rs, c) /\ l \in Nat
      BY <1>2, <1>4, <2>1, <2>3
    <3>2. /\ Len(P[k]) = l + 1 /\ DOMAIN P[k] = 1 .. l + 1 /\ P[k][l + 1] = c
          /\ \A i \in 1 .. l : P[k][i] = rs[i]
          /\ P[k] = [i \in 1 .. l + 1 |-> P[k][i]]
      <4>1. P[k] = [i \in 1 .. l + 1 |-> IF i = l + 1 THEN c ELSE rs[i]]
        <5> HIDE DEF c
        <5> QED
          BY <3>1
      <4> QED
        BY <3>1, <4>1
    <3>3. K(k) = K(k - 1) \cup {k} /\ k \notin K(k - 1)
      <4>1. \A i \in 1 .. k : i = k \/ i \in 1 .. k - 1
        BY <2>1
      <4>2. \A i \in 1 .. k - 1 : i \in 1 .. k /\ i # k
        BY <2>1
      <4> QED
        BY <2>3, <4>1, <4>2
    <3>4. IsFiniteSet(K(k)) /\ Cardinality(K(k)) = l + 1
      <4> HIDE DEF K, V, rs
      <4>1. IsFiniteSet(K(k - 1)) /\ Len(P[k - 1]) = Cardinality(K(k - 1))
        BY <1>4
      <4>2. K(k - 1) \cup {k} = K(k)
        BY <3>3
      <4>3. IsFiniteSet(K(k)) /\ Cardinality(K(k)) = Cardinality(K(k - 1)) + 1
        BY <3>3, <4>1, <4>2, FS_AddElement
      <4> QED
        BY <4>1, <4>3 DEF rs
    <3>5. Counts(k)
      <4>1. IsSeq(P[k])
        <5> HIDE DEF rs, c
        <5> QED
          BY <3>1, <3>2
      <4> HIDE DEF K, IsSeq, rs
      <4> QED
        BY <3>2, <3>4, <4>1
    <3>6. Tells(k)
      <4> DEFINE told(j) == {P[j][i].category : i \in DOMAIN P[j]}
                 said(j) == {Category(lines[i].text) : i \in K(j)}
      <4>1. told(k) = told(k - 1) \cup {c.category}
        <5>1. DOMAIN P[k - 1] = 1 .. l
          BY <3>1
        <5>2. \A i \in 1 .. l + 1 : i = l + 1 \/ i \in 1 .. l
          BY <3>1
        <5>3. l + 1 \in 1 .. l + 1 /\ \A i \in 1 .. l : i \in 1 .. l + 1
          BY <3>1
        <5> DEFINE new == P[k]
                   old == P[k - 1]
        <5>4. /\ DOMAIN new = 1 .. l + 1 /\ DOMAIN old = 1 .. l /\ new[l + 1] = c
              /\ \A i \in 1 .. l : new[i] = old[i]
          BY <3>2, <5>1
        <5> HIDE DEF c, l, new, old
        <5>5. ASSUME NEW i \in DOMAIN new
              PROVE  new[i].category \in {old[j].category : j \in DOMAIN old} \cup {c.category}
          BY <5>2, <5>4
        <5>6. \A i \in DOMAIN old : \E j \in DOMAIN new : old[i].category = new[j].category
          BY <5>3, <5>4
        <5>7. \E j \in DOMAIN new : c.category = new[j].category
          BY <5>3, <5>4
        <5>8. {new[i].category : i \in DOMAIN new}
                 = {old[i].category : i \in DOMAIN old} \cup {c.category}
          BY <5>5, <5>6, <5>7
        <5> QED
          BY <5>8 DEF new, old
      <4>2. said(k) = said(k - 1) \cup {Category(lines[k].text)}
        <5> HIDE DEF K
        <5> QED
          BY <3>3
      <4>3. told(k - 1) = said(k - 1) /\ c.category = Category(lines[k].text)
        BY <1>1, <1>4
      <4> HIDE DEF told, said, c
      <4>4. told(k) = said(k)
        BY <4>1, <4>2, <4>3
      <4> QED
        BY <4>4 DEF told, said
    <3>7. Adds(k)
      <4>1. Len(V(rs)) = l /\ Len(V(P[k])) = l + 1
        BY <3>1, <3>2
      <4>2. \A i \in 1 .. l : V(P[k])[i] = V(rs)[i]
        BY <3>1, <3>2
      <4>3. V(P[k])[l + 1] = lines[k].value
        BY <1>1, <3>1, <3>2
      <4>4. SumTo(L)[k] = SumTo(L)[k - 1] + lines[k].value
        BY <1>1, <1>2, <2>1, <2>3
      <4>5. lines[k].value \in Int
        BY <1>1
      <4>6. Total(V(rs)) = SumTo(L)[k - 1] /\ SumTo(L)[k - 1] \in Int
        BY <1>4
      <4> HIDE DEF V, rs
      <4>7. Total(V(P[k])) = Total(V(rs)) + V(P[k])[l + 1]
        BY <3>1, <4>1, <4>2, TotalAppend
      <4> QED
        BY <4>3, <4>4, <4>5, <4>6, <4>7
    <3> HIDE DEF Counts, Tells, Adds
    <3> QED
      BY <3>5, <3>6, <3>7
  <2> QED
    BY <2>2, <2>3
<1> HIDE DEF Right
<1>5. Wrong = {}
  <2> SUFFICES ASSUME Wrong # {} PROVE FALSE
    OBVIOUS
  <2>1. PICK k \in Wrong : \A j \in Wrong : k <= j
    <3>1. Wrong \subseteq Nat
      OBVIOUS
    <3> QED
      BY <3>1, LeastNat
  <2>2. k # 0 /\ k \in Nat /\ k <= n
    BY <1>3, <2>1
  <2>3. k - 1 \in Nat /\ k - 1 <= n /\ k - 1 \notin Wrong /\ k \in 1 .. n
    BY <1>1, <2>1, <2>2
  <2> QED
    BY <1>4, <2>1, <2>3
<1>6. Right(m)
  BY <1>1, <1>5 DEF n
<1> QED
  BY <1>6 DEF Right, P, L, n

\* Classifying, filtering and aggregating gives the summary of the lines.
LEMMA SummaryIs ==
    ASSUME TypeOK, program = "pipeline"
    PROVE  Aggregate(Filter(Classified).val) = Ok(Summary)
<1> DEFINE n == Len(lines)
           rs == PassingTo(Classified)[n]
           L == [i \in 1 .. n |-> IF i \in Kept THEN lines[i].value ELSE 0]
<1>1. n \in Nat /\ DOMAIN lines = 1 .. n
  BY LinesAre, BoundsAssumption
<1>2. Len(Classified) = n /\ Len(L) = n
  BY <1>1 DEF Classified
<1>3. Filter(Classified).val = rs
  BY <1>2 DEF Filter, Ok
<1>4. {i \in 1 .. n : i \in Kept} = Kept
  BY <1>1 DEF Kept
<1>5. n \in 0 .. n
  BY <1>1
<1>6. /\ Len(rs) = Cardinality(Kept)
      /\ {rs[i].category : i \in DOMAIN rs} = {Category(lines[i].text) : i \in Kept}
      /\ Total([i \in 1 .. Len(rs) |-> rs[i].value]) = SumTo(L)[n]
  BY <1>4, <1>5, FilteredAre
<1>7. SumTo(L)[n] = Total(L)
  <2> HIDE DEF L
  <2> QED
    BY <1>2 DEF Total
<1> HIDE DEF rs
<1> QED
  BY <1>3, <1>6, <1>7 DEF Aggregate, Summary

LEMMA PipelineAnswer ==
    ASSUME WInv, program = "pipeline", Done(Root)
    PROVE  IF BadLines = {} THEN out[Root] = Ok(Summary)
           ELSE \E i \in BadLines : out[Root] = Err(<<1, i>>) /\ \A j \in BadLines : i <= j
<1>1. PICK returned : returned = PipelineReturned
  OBVIOUS
<1>2. /\ Last = 4 /\ Shape[1] = "map" /\ Shape[2] = "map" /\ Shape[3] = "one"
      /\ Shape[4] = "one"
  BY ShapesAre
<1>3. /\ returned[Head1(1)] = IF BadLines = {} THEN Ok(lines) ELSE Err(<<1, FirstBad>>)
      /\ returned[Head1(2)] = Ok(Classified) /\ returned[Head1(3)].ok
      /\ returned[Head1(4)] = Ok(Summary)
  <2>1. /\ returned[Head1(1)] = IF BadLines = {} THEN Ok(lines) ELSE Err(<<1, FirstBad>>)
        /\ returned[Head1(2)] = Ok(Classified) /\ returned[Head1(3)] = Filter(Classified)
        /\ returned[Head1(4)] = Aggregate(Filter(Classified).val)
    BY <1>1, IdsAre DEF PipelineReturned, Head1
  <2>2. Filter(Classified).ok
    BY DEF Filter, Ok
  <2> QED
    BY <2>1, <2>2, SummaryIs DEF WInv
<1>4. BadLines # {} => FirstBad \in BadLines /\ \A j \in BadLines : FirstBad <= j
  BY LinesAre DEF WInv
<1>5. /\ Follows(PipelineGiven, returned)
      /\ entry.ok => BadLines = {} /\ entry = returned[Head1(4)]
      /\ stage = 0 => out[Root] = entry /\ entry.ok
  BY <1>1 DEF WInv, Values, PipelineValues
<1>6. \A s \in 1 .. 4 : Head1(s) \in Ids \ {Root}
                        /\ (Good(Head1(s)) => returned[Head1(s)].ok)
                        /\ (Bad(Head1(s)) => ~returned[Head1(s)].ok)
  <2>1. \A s \in 1 .. 4 : Head1(s) \in Ids \ {Root}
    BY IdsAre
  <2> QED
    BY <1>5, <2>1 DEF Follows, Good, Bad, Answered, Done
<1>7. CASE stage = 0
  BY <1>3, <1>5, <1>7
<1>8. CASE stage # 0
  <2>1. stage \in 1 .. 4 /\ Outcome(returned)
    BY <1>2, <1>5, <1>8 DEF WInv, TypeOK, Follows
  <2>2. CASE stage = 4 /\ Good(Head1(4)) /\ out[Root] = Ok(returned[Head1(4)].val)
    <3>1. out[Root] = Ok(Summary)
      BY <1>3, <2>2 DEF Ok
    <3>2. Good(Head1(1))
      <4>1. Whole(1)
        BY <1>2, <2>2 DEF WInv, Tree
      <4> QED
        BY <1>2, <4>1 DEF Whole
    <3>3. BadLines = {}
      BY <1>3, <1>6, <3>2 DEF Err
    <3> QED
      BY <3>1, <3>3
  <2>3. CASE Bad(Head1(stage)) /\ out[Root] = Err(returned[Head1(stage)].by)
    <3>1. ~returned[Head1(stage)].ok
      BY <1>6, <2>1, <2>3
    <3>2. stage = 1 /\ BadLines # {}
      <4>1. stage = 1 \/ stage = 2 \/ stage = 3 \/ stage = 4
        BY <2>1
      <4>2. \A v : Ok(v).ok
        BY DEF Ok
      <4> QED
        BY <1>3, <3>1, <4>1, <4>2
    <3>3. returned[Head1(stage)].by = <<1, FirstBad>>
      BY <1>3, <3>2 DEF Err
    <3> QED
      BY <1>4, <2>3, <3>2, <3>3
  <2>4. Shape[stage] # "all"
    <3>1. stage = 1 \/ stage = 2 \/ stage = 3 \/ stage = 4
      BY <2>1
    <3> QED
      BY <1>2, <3>1
  <2> QED
    BY <1>2, <2>1, <2>2, <2>3, <2>4 DEF Outcome
<1> QED
  BY <1>7, <1>8

LEMMA SolveAnswer ==
    ASSUME WInv, program = "solve", Done(Root)
    PROVE  IF out[Root].ok
           THEN /\ "greet" \in fs["user_test.rs"]
                /\ out[Root].val.success <=>
                      fs["user_test.rs"] \cap {"greet", "new"} \subseteq fs["user.rs"]
           ELSE out[Root] = Err(Head1(2)) /\ fs \in FileSystems
<1>1. stage \in 1 .. 5
  <2>1. run \in 0 .. 1
    BY DEF WInv, TypeOK, Cache
  <2> QED
    BY <2>1, ShapesAre DEF WInv, TypeOK, Cache, Done
<1>2. PICK f \in FileSystems :
         \E q \in ListingsOf(f) :
            fs = Edited(f) /\ Follows(SolveGiven(f, q), SolveReturned(f, q))
  BY <1>1 DEF WInv, Values, SolveValues
<1>3. PICK q \in ListingsOf(f) :
         fs = Edited(f) /\ Follows(SolveGiven(f, q), SolveReturned(f, q))
  BY <1>2
<1>4. PICK returned : returned = SolveReturned(f, q)
  OBVIOUS
<1>5. /\ Last = 5 /\ Shape[1] = "each" /\ Shape[2] = "one" /\ Shape[3] = "all"
      /\ Shape[4] = "one" /\ Shape[5] = "one"
  BY ShapesAre
<1>6. /\ returned[Head1(1)].ok /\ returned[Head1(2)] = Planned(f)
      /\ returned[Head1(4)].ok
      /\ returned[Head1(5)] = Ok([success |-> Verdict(f)])
      /\ \A i \in 0 .. MaxItems : returned[<<3, i>>].ok
  <2>1. \A s \in 1 .. 5, i \in 0 .. MaxItems : <<s, i>> \in Ids
    BY IdsAre
  <2>2. /\ \A s \in 1 .. 5 : Head1(s) \in Ids /\ Head1(s)[1] = s /\ Head1(s)[2] = 0
    BY IdsAre DEF Head1
  <2>3. \A v : Ok(v).ok
    BY DEF Ok
  <2>4. /\ returned[Head1(1)] = Ok(Summaries(f, q)) /\ returned[Head1(2)] = Planned(f)
        /\ returned[Head1(4)] = Ok([passed |-> Verdict(f)])
        /\ returned[Head1(5)] = Ok([success |-> Verdict(f)])
    BY <1>4, <2>2 DEF SolveReturned
  <2>5. ASSUME NEW i \in 0 .. MaxItems
        PROVE  returned[<<3, i>>] = Ok(Planned(f).val[i].path)
    <3>1. <<3, i>> \in Ids /\ <<3, i>>[1] = 3 /\ <<3, i>>[2] = i
      BY <2>1
    <3> QED
      BY <1>4, <3>1 DEF SolveReturned
  <2> QED
    BY <2>3, <2>4, <2>5
<1>7. /\ \A id \in Ids \ {Root} : Bad(id) => ~returned[id].ok
      /\ Outcome(returned)
  BY <1>1, <1>3, <1>4 DEF Follows, Bad, Answered, Done
<1>8. CASE stage = 5 /\ out[Root] = Ok(returned[Head1(5)].val)
  <2>1. out[Root].ok /\ out[Root].val.success = Verdict(f)
    BY <1>6, <1>8 DEF Ok
  <2>2. fs["user.rs"] = Source(f) /\ fs["user_test.rs"] = Tests(f)
    BY <1>3, <1>8, EditedAre
  <2>3. Verdict(f) <=> fs["user_test.rs"] \cap {"greet", "new"} \subseteq fs["user.rs"]
    BY <2>2 DEF Verdict
  <2>4. "greet" \in fs["user_test.rs"]
    BY <2>2 DEF Tests
  <2> QED
    BY <2>1, <2>3, <2>4
<1>9. CASE /\ Shape[stage] # "all" /\ Bad(Head1(stage))
           /\ out[Root] = Err(returned[Head1(stage)].by)
  <2>1. ~returned[Head1(stage)].ok
    <3>1. Head1(stage) \in Ids \ {Root}
      BY <1>1, IdsAre
    <3> QED
      BY <1>7, <1>9, <3>1
  <2>2. stage = 2 /\ ~Planned(f).ok
    <3>1. stage = 1 \/ stage = 2 \/ stage = 3 \/ stage = 4 \/ stage = 5
      BY <1>1
    <3>2. returned[Head1(5)].ok
      BY <1>6 DEF Ok
    <3> QED
      BY <1>5, <1>6, <1>9, <2>1, <3>1, <3>2
  <2>3. Planned(f) = Err(Head1(2))
    BY <2>2 DEF Planned, Ok
  <2>4. out[Root] = Err(Head1(2)) /\ ~out[Root].ok
    <3>1. returned[Head1(stage)].by = Head1(2)
      BY <1>6, <2>2, <2>3 DEF Err
    <3>2. ~Err(Head1(2)).ok
      BY DEF Err
    <3> QED
      BY <1>9, <3>1, <3>2
  <2>5. fs = f
    BY <1>3, <2>2, EditedAre
  <2> QED
    BY <1>2, <2>4, <2>5
<1>10. ASSUME Shape[stage] = "all", NEW i \in 1 .. Width(stage), Bad(<<stage, i>>)
       PROVE  FALSE
  <2>1. stage = 3
    <3>1. stage = 1 \/ stage = 2 \/ stage = 3 \/ stage = 4 \/ stage = 5
      BY <1>1
    <3> QED
      BY <1>5, <1>10, <3>1
  <2>2. i \in 0 .. MaxItems
    BY <1>1, <1>10, BoundsAssumption DEF WInv, TypeOK
  <2>3. <<3, i>> \in Ids \ {Root}
    BY <2>2, IdsAre
  <2> QED
    BY <1>6, <1>7, <1>10, <2>1, <2>2, <2>3
<1> QED
  BY <1>5, <1>7, <1>8, <1>9, <1>10 DEF Outcome

\* Whatever the order of the tasks, data_pipeline.rs answers with the summary of
\* its lines or the error of the first bad one, and swe_agent.rs with the verdict
\* on the files as they are, or with PlanTask's error and no file touched.
THEOREM AnswersAreReference == Spec => []AnswerIsReference
<1>1. WInv => AnswerIsReference
  <2>1. WInv => program \in {"solve", "pipeline"}
    BY DEF WInv, TypeOK
  <2>2. HasAnswer => Done(Root)
    BY DEF HasAnswer, Done
  <2> QED
    BY <2>1, <2>2, PipelineAnswer, SolveAnswer DEF AnswerIsReference
<1> QED
  BY <1>1, WorkflowsInvariant, PTL
=============================================================================
