----------------------------- MODULE Workflows -----------------------------
(***************************************************************************)
(* The two example programs that grow a tree of tasks in stages:           *)
(* swe_agent.rs (analyze, plan, edit, test, validate, over a shared file   *)
(* system) and data_pipeline.rs (parse, classify, filter, aggregate, run   *)
(* without a cache and then twice with one).                               *)
(*                                                                         *)
(* A task is seen from outside its closure: it is ready, runs, closes its  *)
(* record and answers its handle, in this order, as TaskLifecycle says and *)
(* Runtime implements. Nobody cancels or panics in these programs.         *)
(***************************************************************************)
EXTENDS Integers, Sequences, FiniteSets

CONSTANTS
    Programs,      \* which of {"solve", "pipeline"} to run
    MaxItems,      \* bound: files, edits or lines a stage fans out over
    Batches,       \* the lines given to the pipeline
    FileSystems,   \* the file systems given to the agent
    KeepCats,      \* FilterRecords.categories
    MinValue       \* FilterRecords.min_value

ASSUME BoundsAssumption ==
    /\ Programs \subseteq {"solve", "pipeline"}
    /\ MaxItems \in Nat
ASSUME LinesAssumption ==
    \A batch \in Batches :
        /\ batch \in Seq([well : BOOLEAN, text : SUBSET STRING, value : Int])
        /\ Len(batch) <= MaxItems
ASSUME FilesAssumption ==
    \A files \in FileSystems :
        /\ files \in [DOMAIN files -> SUBSET STRING]
        /\ IsFiniteSet(DOMAIN files) /\ Cardinality(DOMAIN files) <= MaxItems

VARIABLES
    program,  \* which program runs
    lines,    \* its input, if it is the pipeline
    fs,       \* the shared file system: path -> what the file defines or uses
    run,      \* calls of `runtime.run`: the pipeline makes three
    stage,    \* stage the orchestrator is in
    carried,  \* input of that stage
    state,    \* life of every task of this run
    out,      \* what it returned
    entry,    \* the cache's entry for the orchestrator
    main      \* "running", or how main ended

vars == <<program, lines, fs, run, stage, carried, state, out, entry, main>>

(***************************************************************************)
(* Tasks: the orchestrator, one per stage, and the items of a stage.       *)
(***************************************************************************)

Root == <<0, 0>>
Head1(s) == <<s, 0>>
Stages == 1 .. 5
Ids == {Root} \cup (Stages \X (0 .. MaxItems))

\* "one": a single task. "each" and "map": a task that spawns one task per
\* item. "all": the orchestrator spawns one task per item itself.
Shape == [solve |-> <<"each", "one", "all", "one", "one">>,
          pipeline |-> <<"map", "map", "one", "one">>][program]

FansOut(s) == Shape[s] \in {"each", "map"}
Items(s) == IF Shape[s] = "one" THEN {} ELSE {<<s, i>> : i \in 1 .. Len(carried)}
Spawned(s) == {id \in Items(s) : state[id] # "absent"}

None == [ok |-> FALSE, val |-> <<>>, by |-> Root]
Ok(v) == [ok |-> TRUE, val |-> v, by |-> Root]
Err(id) == [ok |-> FALSE, val |-> <<>>, by |-> id]

Answered(id) == state[id] = "answered"
Good(id) == Answered(id) /\ out[id].ok
Bad(id)  == Answered(id) /\ ~out[id].ok

(***************************************************************************)
(* The leaves of data_pipeline.rs. A line is its keywords and its value.   *)
(***************************************************************************)

\* ClassifyRecord: the first match wins.
Category(text) ==
    IF {"error", "fail"} \cap text # {} THEN "error"
    ELSE IF {"warn", "slow"} \cap text # {} THEN "warning"
    ELSE IF {"success", "ok"} \cap text # {} THEN "success" ELSE "info"

Parse(id, line) == IF line.well THEN Ok(line) ELSE Err(id)
Classify(line)  == Ok([text |-> line.text, value |-> line.value,
                       category |-> Category(line.text)])

Passes(r) == r.category \in KeepCats /\ r.value >= MinValue
PassingTo(rs) ==
    LET kept[i \in 0 .. Len(rs)] ==
            IF i = 0 THEN <<>>
            ELSE IF Passes(rs[i]) THEN Append(kept[i - 1], rs[i]) ELSE kept[i - 1]
    IN kept
Filter(rs) == Ok(PassingTo(rs)[Len(rs)])

SumTo(vs) == LET sum[i \in 0 .. Len(vs)] == IF i = 0 THEN 0 ELSE sum[i - 1] + vs[i]
             IN sum
Total(vs) == SumTo(vs)[Len(vs)]
Aggregate(rs) ==
    Ok([count |-> Len(rs),
        total |-> Total([i \in 1 .. Len(rs) |-> rs[i].value]),
        categories |-> {rs[i].category : i \in DOMAIN rs}])

(***************************************************************************)
(* The leaves of swe_agent.rs. A file is the set of functions it defines   *)
(* (source) or calls (tests); "impl" marks the place an edit looks for.    *)
(***************************************************************************)

Read(id, path) == IF path \in DOMAIN fs THEN Ok([path |-> path, text |-> fs[path]])
                  ELSE Err(id)

\* PlanTask: one edit of the source (a text replacement, which does nothing if
\* its pattern is missing) and one of the tests; both files must be there.
Plan(id, summaries) ==
    LET Text(p) == LET i == CHOOSE j \in DOMAIN summaries : summaries[j].path = p
                   IN summaries[i].text
        missing == {"user.rs", "user_test.rs"} \
                      {summaries[i].path : i \in DOMAIN summaries}
        source == Text("user.rs")
    IN IF missing # {} THEN Err(id)
       ELSE Ok(<<[path |-> "user.rs",
                  text |-> IF "impl" \in source THEN source \cup {"greet"} ELSE source],
                 [path |-> "user_test.rs",
                  text |-> Text("user_test.rs") \cup {"greet"}]>>)

\* TestTask: what the tests call, the source defines.
Test(id) ==
    IF {"user.rs", "user_test.rs"} \subseteq DOMAIN fs
    THEN Ok([passed |-> fs["user_test.rs"] \cap {"greet", "new"} \subseteq fs["user.rs"]])
    ELSE Err(id)

Validate(result) == Ok([success |-> result.passed])

\* What leaf id returns when it runs now on input x.
Leaf(id, x) ==
    LET s == id[1] IN
    IF program = "pipeline"
    THEN IF s = 1 THEN Parse(id, x)
         ELSE IF s = 2 THEN Classify(x)
         ELSE IF s = 3 THEN Filter(x) ELSE Aggregate(x)
    ELSE IF s = 1 THEN Read(id, x)
         ELSE IF s = 2 THEN Plan(id, x)
         ELSE IF s = 3 THEN Ok(x.path)
         ELSE IF s = 4 THEN Test(id) ELSE Validate(x)

Edits(id) == program = "solve" /\ id[1] = 3

(***************************************************************************)
(* main                                                                    *)
(***************************************************************************)

NoTasks == [id \in Ids |-> "absent"]
NoOuts == [id \in Ids |-> None]

\* fs.keys(): every path once, in the order of a HashMap.
Listings == {q \in [1 .. Cardinality(DOMAIN fs) -> DOMAIN fs] :
                \A i, j \in DOMAIN q : i # j => q[i] # q[j]}

Init ==
    /\ program \in Programs
    /\ IF program = "pipeline" THEN lines \in Batches /\ fs = <<>>
       ELSE lines = <<>> /\ fs \in FileSystems
    /\ run = 0 /\ stage = 0 /\ carried = <<>>
    /\ state = NoTasks /\ out = NoOuts
    /\ entry = None
    /\ main = "ready"

Runs == IF program = "pipeline" THEN 3 ELSE 1

Cached == run > 1

\* `runtime.run(..)` or, with the cache, `run_dyn(erase_serializable(..))`.
Call ==
    /\ main = "ready" /\ run < Runs
    /\ main' = "running" /\ run' = run + 1 /\ stage' = 0
    /\ state' = [NoTasks EXCEPT ![Root] = "ready"] /\ out' = NoOuts
    /\ UNCHANGED <<program, lines, fs, carried, entry>>

\* main's `.await.unwrap()`, and the agent's assert!(result.success).
Return ==
    /\ main = "running" /\ Answered(Root)
    /\ main' = IF ~out[Root].ok \/ (program = "solve" /\ ~out[Root].val.success)
               THEN "panicked"
               ELSE IF run < Runs THEN "ready" ELSE "done"
    /\ UNCHANGED <<program, lines, fs, run, stage, carried, state, out, entry>>

(***************************************************************************)
(* Every task: close the record, then answer.                              *)
(***************************************************************************)

Running == main = "running"

Ends(id, o) == /\ state' = [state EXCEPT ![id] = "ran"]
               /\ out' = [out EXCEPT ![id] = o]

Move(id, a, b) == Running /\ state[id] = a /\ state' = [state EXCEPT ![id] = b]

Close(id) == /\ Move(id, "ran", "closed")
             /\ UNCHANGED <<program, lines, fs, run, stage, carried, out, entry, main>>

Reply(id) == /\ Move(id, "closed", "answered")
             /\ UNCHANGED <<program, lines, fs, run, stage, carried, out, entry, main>>

(***************************************************************************)
(* The orchestrator: SolveTask::run and DataPipeline::run.                 *)
(***************************************************************************)

\* Its closure, first: an answer from the cache, or its body.
Begin ==
    /\ Running /\ state[Root] = "ready"
    /\ IF Cached /\ entry.ok
       THEN Ends(Root, entry) /\ UNCHANGED <<stage, carried>>
       ELSE /\ state' = [state EXCEPT ![Root] = "body"]
            /\ stage' = 1
            /\ IF program = "pipeline" THEN carried' = lines ELSE carried' \in Listings
            /\ UNCHANGED out
    /\ UNCHANGED <<program, lines, fs, run, entry, main>>

InStage(s) == Running /\ state[Root] = "body" /\ stage = s

SpawnStage(s) ==
    /\ InStage(s) /\ Shape[s] # "all" /\ state[Head1(s)] = "absent"
    /\ state' = [state EXCEPT ![Head1(s)] = "ready"]
    /\ UNCHANGED <<program, lines, fs, run, stage, carried, out, entry, main>>

\* The next item, spawned by the orchestrator or by the task of the stage.
SpawnItem(s) ==
    /\ \/ InStage(s) /\ Shape[s] = "all"
       \/ Running /\ FansOut(s) /\ state[Head1(s)] = "body"
    /\ Spawned(s) # Items(s)
    /\ state' = [state EXCEPT ![<<s, Cardinality(Spawned(s)) + 1>>] = "ready"]
    /\ UNCHANGED <<program, lines, fs, run, stage, carried, out, entry, main>>

\* MUTANT of ItemsOk: the handles of the edits are not awaited.
ItemsNotAwaited(s) == Spawned(s) = Items(s) /\ (Shape[s] = "all" \/ \A id \in Items(s) : Good(id))

\* MUTANT of ItemsOk: an item counts as done before its record is closed.
ItemsHaveRun(s) == Spawned(s) = Items(s) /\ \A id \in Items(s) :
                      state[id] \in {"ran", "closed", "answered"} /\ out[id].ok

ItemsOk(s) == Spawned(s) = Items(s) /\ \A id \in Items(s) : Good(id)

\* `handle.await?` in order: the first error ends it, while later items run on.
FirstError(s, id) == /\ Spawned(s) = Items(s) /\ id \in Items(s) /\ Bad(id)
                     /\ \A d \in Items(s) : d[2] < id[2] => Good(d)

\* MUTANT of JoinedError: the join ends with whichever error comes first.
EarlyError(s, id) == id \in Items(s) /\ Bad(id)

\* MUTANT of JoinedError: an error of an item is never looked at.
IgnoredError(s, id) == FALSE

\* Map: join_all waits for every item; the error is the first in input order.
JoinedError(s, id) == FirstError(s, id) /\ \A d \in Items(s) : Answered(d)

Collected(s) == [i \in 1 .. Len(carried) |-> out[<<s, i>>].val]

\* The stage is over: on to the next one with its output, or the last is done.
Advance(s) ==
    /\ InStage(s)
    /\ LET v == IF Shape[s] = "all" THEN Collected(s) ELSE out[Head1(s)].val
       IN /\ IF Shape[s] = "all" THEN ItemsOk(s) ELSE Good(Head1(s))
          /\ IF s < Len(Shape)
             THEN stage' = s + 1 /\ carried' = v /\ UNCHANGED <<state, out, entry>>
             ELSE /\ Ends(Root, Ok(v)) /\ UNCHANGED <<stage, carried>>
                  /\ entry' = IF Cached THEN Ok(v) ELSE entry
    /\ UNCHANGED <<program, lines, fs, run, main>>

\* `?`: SweError or PipelineError. An error is not cached.
GiveUp(s) ==
    /\ InStage(s)
    /\ \/ Shape[s] # "all" /\ Bad(Head1(s)) /\ Ends(Root, Err(out[Head1(s)].by))
       \/ Shape[s] = "all" /\ \E id \in Items(s) : FirstError(s, id) /\ Ends(Root, Err(id))
    /\ UNCHANGED <<program, lines, fs, run, stage, carried, entry, main>>

(***************************************************************************)
(* The tasks of a stage: AnalyzeTask and Map fan out, the others are       *)
(* leaves. A leaf takes the lock of the file system for all it does.       *)
(***************************************************************************)

FanBegin(s) == /\ FansOut(s) /\ Move(Head1(s), "ready", "body")
               /\ UNCHANGED <<program, lines, fs, run, stage, carried, out, entry, main>>

FanEnd(s) ==
    /\ Running /\ FansOut(s) /\ state[Head1(s)] = "body"
    /\ \/ ItemsOk(s) /\ Ends(Head1(s), Ok(Collected(s)))
       \/ \E id \in Items(s) :
             /\ IF Shape[s] = "map" THEN JoinedError(s, id) ELSE FirstError(s, id)
             /\ Ends(Head1(s), Err(id))
    /\ UNCHANGED <<program, lines, fs, run, stage, carried, entry, main>>

RunLeaf(id) ==
    /\ Running /\ state[id] = "ready" /\ id # Root
    /\ ~(FansOut(id[1]) /\ id[2] = 0)
    /\ LET x == IF id[2] = 0 THEN carried ELSE carried[id[2]] IN
       /\ Ends(id, Leaf(id, x))
       /\ fs' = IF Edits(id) THEN [p \in DOMAIN fs \cup {x.path} |->
                                      IF p = x.path THEN x.text ELSE fs[p]]
                ELSE fs
    /\ UNCHANGED <<program, lines, run, stage, carried, entry, main>>

Body == Begin \/ \E s \in 1 .. Len(Shape) :
            SpawnStage(s) \/ SpawnItem(s) \/ Advance(s) \/ GiveUp(s)
            \/ FanBegin(s) \/ FanEnd(s)

Step(id) == RunLeaf(id) \/ Close(id) \/ Reply(id)

Next == Call \/ Return \/ Body \/ \E id \in Ids : Step(id)

Spec == Init /\ [][Next]_vars

\* tokio polls every woken task, and main goes on when it is answered.
FairSpec == Spec /\ WF_vars(Call \/ Return) /\ WF_vars(Body)
                 /\ \A id \in Ids : WF_vars(Step(id))

(***************************************************************************)
(* Properties                                                              *)
(***************************************************************************)

HasAnswer == state[Root] \in {"ran", "closed", "answered"}

\* What the pipeline must compute, from the lines alone.
BadLines == {i \in DOMAIN lines : ~lines[i].well}
Kept == {i \in DOMAIN lines : Category(lines[i].text) \in KeepCats
                              /\ lines[i].value >= MinValue}
Summary == [count |-> Cardinality(Kept),
            total |-> Total([i \in 1 .. Len(lines) |->
                                 IF i \in Kept THEN lines[i].value ELSE 0]),
            categories |-> {Category(lines[i].text) : i \in Kept}]

\* The answer does not depend on the order the tasks ran in. data_pipeline.rs:
\* the summary of the lines above the threshold, or the error of the first bad
\* line. swe_agent.rs: the verdict on the files as they are when it is given, or
\* PlanTask's error when a file is missing, and then no file was touched.
AnswerIsReference ==
    HasAnswer =>
        IF program = "pipeline"
        THEN IF BadLines = {} THEN out[Root] = Ok(Summary)
             ELSE \E i \in BadLines : /\ out[Root] = Err(<<1, i>>)
                                      /\ \A j \in BadLines : i <= j
        ELSE IF out[Root].ok
             THEN /\ "greet" \in fs["user_test.rs"]
                  /\ out[Root].val.success <=>
                        fs["user_test.rs"] \cap {"greet", "new"} \subseteq fs["user.rs"]
             ELSE out[Root] = Err(Head1(2)) /\ fs \in FileSystems

\* swe_agent.rs:409: "TestTask depends on all edits completing": from its spawn
\* on, every planned edit is in the shared file system, whole, and none is
\* still to come; the files without an edit are as AnalyzeTask read them.
TestsSeeEveryEdit ==
    program = "solve" /\ state[Head1(4)] # "absent" =>
        LET edits == out[Head1(2)].val
            edited == {edits[i].path : i \in DOMAIN edits}
            asRead == {out[id].val : id \in {d \in Ids : d[1] = 1 /\ d[2] > 0 /\ Good(d)}}
        IN /\ \A i \in DOMAIN edits :
                 Answered(<<3, i>>) /\ fs[edits[i].path] = edits[i].text
           /\ \A p \in DOMAIN fs \ edited : [path |-> p, text |-> fs[p]] \in asRead

\* What the two mains assert of the execution graph when they are answered: every
\* record is closed, none has failed, the root has all its children, AnalyzeTask
\* and the Maps one per item, and the second cached run, served from the
\* cache (data_pipeline.rs:434 and 458), has none.
GraphIsCompleteAtTheAnswer ==
    Answered(Root) /\ out[Root].ok =>
        /\ \A id \in Ids : state[id] \in {"absent", "closed", "answered"}
                           /\ (state[id] # "absent" => out[id].ok)
        /\ LET spawned(s) == {id \in Ids : id[1] = s /\ state[id] # "absent"}
               width == IF program = "pipeline" THEN Len(lines)
                        ELSE Cardinality(DOMAIN fs)
               size == [solve |-> <<width + 1, 1, 2, 1, 1>>,
                        pipeline |-> <<width + 1, width + 1, 1, 1>>][program]
           IN \A s \in DOMAIN size :
                 Cardinality(spawned(s)) = IF run = 3 THEN 0 ELSE size[s]

\* Both programs end, with all their stages answered or with a panic of main.
ProgramEnds == <>(main \in {"done", "panicked"})
=============================================================================
