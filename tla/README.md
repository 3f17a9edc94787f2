# A TLA+ verification of nanites

nanites is a Rust workspace for running trees of tasks on tokio. `nanites-core`
is the runtime: it spawns tasks, keeps a live tree of them, logs everything that
ever ran, caches results, cancels, checkpoints and restores. `nanites-rig` adds
executors for language models, embeddings and vector search; `nanites-chat` is a
fixed pipeline of tasks on top; both crates and the core have example programs.
Paths below are relative to `src/crates/`.

## 1. Inventory

| component | state | operations | what is hard |
|---|---|---|---|
| task runtime, `nanites-core/src/ctx.rs`, `runtime.rs` | per task: a closure on tokio; shared: frontier, log, token, cache, scaffolds, executors | `Ctx::spawn`, `spawn_all`, `spawn_dyn`, `Runtime::*`, the closure of `spawn_erased_internal` | every structure has its own lock, so each task is a sequence of separate critical sections; panics and shutdown cut it anywhere |
| frontier, `frontier.rs` | `nodes: id -> TaskNode`, `next_id` | `register`, `set_*`, `remove_terminal`, `remove`, `replace_task` | nodes vanish while others point at them; silent no-ops |
| execution graph, `exec_graph.rs` | `nodes: id -> ExecNode`, append-only | `record_spawn`, `set_output`, `set_completed/failed/cancelled` | must agree with the frontier and the replies though it is written apart from both |
| handles, `handle.rs`, `error.rs` | a oneshot per task | send, drop of the sender, `poll` | every path must send or drop, or the caller hangs |
| cancellation, `cancellation.rs` | one shared flag | `cancel`, `reset`, `is_cancelled` | read once per task; reset while tasks are queued |
| cache, `cache.rs` | `key -> output`, a mutex that can be poisoned | `get`, `insert`, `clear` | check-then-act; user code under the lock |
| type erasure, `dyn_task.rs`, `executor.rs`, `scaffold.rs`, `task.rs` | none | `erase`, `erase_serializable`, `erase_io`, downcast, dispatch | which wrapper a task has decides whether a checkpoint can name it and an executor is found; inputs and outputs of the wrong type |
| combinators, `combinators.rs` | loop counter, last error | `Map`, `Refine`, `Retry` | cancel and failure of children in the middle of a loop |
| checkpoint, `checkpoint.rs`, `registry.rs` | a two-part snapshot; name -> how to rebuild | `checkpoint`, `restore`, `register_with_name`, `register` | the parts are taken at different moments; ids restart on restore; a restore can fail half-way; not everything survives a second one |
| rig executors, `nanites-rig/src/lib.rs` | named models, vector collections, a copy-on-write map in each runtime | completion, chat, structured, embedding, store, retrieve, search | default model, who sees a registration, top-k, partial failure of `RetrieveTask` |
| chat, `nanites-chat/src/lib.rs` | none | `BuildContextTask`, `HandleMessageTask` | failure in the middle of a chain |
| `nanites-chat/examples/chat.rs`, `chat_rag.rs` | history, collection, command line | start-up, the loop, retrieval, `--seed` | window over the history, lists indexed in parallel |
| `nanites-core/examples/interactive_tool.rs` | one runtime per keystroke, a shared list | type, cancel, abort, dispatch, complete the list | three actors per keystroke, aborts that come too late |
| `nanites-core/examples/swe_agent.rs`, `data_pipeline.rs` | a shared file system; a cache | stages of tasks | the answer must not depend on the schedule |

A caller (a thread with a `Runtime`, or a task's body with a `Ctx`) calls spawn.
That synchronously registers the task in the frontier, records it in the log and
hands a closure to tokio. The closure polls the cancel flag, may answer from the
cache, dispatches to an executor or to the task's own `run`, then updates
frontier, log and cache, and last sends on the oneshot the caller may be
awaiting. Bodies spawn children the same way.

## 2. Modules

| module | what it is |
|---|---|
| `Runtime` | the runtime: one action per critical section of the code |
| `RuntimeProperties` | what must hold of it, and the refinement mapping |
| `TaskLifecycle` | the abstract promise, per task: a log record that opens once and closes at most once, a reply after the closing, or a `Dropped` reply whose record stays open |
| `RuntimeInvariant`, `RuntimeProofs` | its inductive invariant, and the proofs |
| `Checkpoint`, `CheckpointProofs` | `checkpoint` and `restore`, composed with the runtime they copy and rebuild (`Checkpoint` EXTENDS `Runtime`) |
| `Combinators`, `CombinatorsProofs` | the tasks whose bodies spawn tasks, composed with the runtime in the same way |
| `Generations`, `GenerationsProofs` | what a task is through several checkpoints and restores: wrapper, input, registry, executor, scaffolds, the frontier's tools |
| `Rig`, `RigProofs` | executors, the copy-on-write map, dispatch, `RetrieveTask`, vector search |
| `ExecutorMaps` | the abstract promise of that map: every runtime and every running task has a map of its own |
| `Chat`, `ChatProofs` | the two chat programs |
| `Autocomplete`, `AutocompleteProofs` | `interactive_tool` |
| `Workflows`, `WorkflowsProofs` | `swe_agent` and `data_pipeline` |
| `MC*` | the instances TLC checks |

Two modules refine an abstract one: `Runtime` refines `TaskLifecycle`, `Rig`
refines `ExecutorMaps`. `Checkpoint` and `Combinators` take only steps of
`Runtime` besides their own, and their proofs start from its lemmas.
`Workflows` and `Autocomplete` see a task as `TaskLifecycle` promises it: its
record closes, then its handle answers.

### Runtime

| variables | code |
|---|---|
| `nextId`, `status`, `frontChildren`, `parent` | `FrontierInner` and `TaskNode` (`"Absent"`: not in the map) |
| `terminal`, `recChildren`, `recOutput` | `ExecNode` (`"Unrecorded"`: not in the map, `"None"`: no terminal state) |
| `cancelled` | the `AtomicBool` of the token |
| `cache`, `poisoned` | `MemoryCache` and the state of its mutex |
| `pc`, `req`, `outcome`, `value` | where the closure of a task stands and what it holds |
| `waits`, `handle` | the awaited child, and what the handle resolves to |
| `down` | the tokio runtime is being dropped |

The actions follow `spawn_erased_internal` (`ctx.rs:190-349`) top to bottom:
`Register` (225), `RecordSpawn` (228), `CheckCancel` (253), `LookupMiss` and
`LookupHit` (262), `HitSetOutput` (267), `SetRunning` (276), the body (`Await`,
`Succeed`, `Fail`, and `Register` of children; 279-289), `Mark` (254, 269, 297,
342), `Unlink` (255, 270, 298, 343), `SetOutput` (302), `CacheInsert` and
`CachePlaceholder` (313-331), `Seal` (256, 271, 337, 344), `Deliver` (257, 272,
338, 345). `Panic` (in the body, 279-288; in the `Serialize` of an output, 266 and
295; in its `Clone`, 317), `PanicUnderLock`, `Drop` and `ShutDown` cut a closure
short; `Cancel` and `Reset` belong to any holder of the token.

A value is the id of the task that produced it and its type: enough to tell a
cached output from an own one and a fitting output from a wrong one. Ids, JSON,
type names, error texts and parameters are abstracted away; a cache key is
opaque, so a hash collision is not modelled.

### Checkpoint

| variables | code |
|---|---|
| `copied`, `calls` | `Checkpoint.frontier`: status, and type, params and input, of each node |
| `log`, `outputs`, `links` | `Checkpoint.exec_graph`: terminal state, output, parent of each record |
| `todo` | what the second loop of `restore` has still to spawn |
| `stage` | how far `checkpoint` or `restore` has come |
| `gapStart`, `audited`, `owed`, `origin` | history: `next_id` and the closed records at the first copy, the captured tasks that were unfinished (or whose child was) at the second, and which captured node a new task redoes |

`CopyFrontier` and `CopyLog` are the two lines of `checkpoint()`
(`checkpoint.rs:271-272`); the tasks run between them. `RebuildLog` is
`Runtime::new` and the first loop (298-340), `Respawn`, `Refuse` and `Return`
the second (343-364), interleaved with the tasks it has already spawned, whose
actions are those of `Runtime`. `Revived` says what a spawn call looks like
after the registry has rebuilt its task: untyped, its input a JSON value, with
no executor, and no longer serializable if `register_with_name` built it.

The runtime variables change hands at `RebuildLog`: until then they are the old
runtime, afterwards the new one. What the old one would go on to do is invisible
to the new one and is left out. The new runtime gets no callers and no
cancellation (bound), since `Runtime` covers those.

### Combinators

Task 0 is a `Map`, `Refine`, `Retry`, or a two-step chain (`RetrieveTask`,
`HandleMessageTask`). Its closure takes the steps of `Runtime` up to the body;
there, where `Runtime` lets a body do anything, it follows its `run`. `at` is the
place between two awaits or looks at the flag, `limit` the number of inputs,
iterations, attempts or steps, `answer` what it returned and from which child;
the loop index is the number of children spawned. Children are leaves with free
outcomes. `late` is history: children spawned since the flag was set. The
action names are those of the branches: `RetryExhausted` (`combinators.rs:313`),
`RetryCancelled` (299), `RetrySpawn` (303), `RetryOk`, `RetryAgain`, and so on.

### Generations

| variables | code |
|---|---|
| `frontier` | `TaskNode`: the erased task, its serialized input, its status |
| `closure` | what `tokio::spawn` got: the task, the input, the executor that was looked up |
| `executors`, `scaffolds`, `cancelled` | the fields of `Runtime` |
| `saved` | the `Checkpoint`, if one was taken |
| `given` | history: what the host gave, whether it fitted, whether the node's task was replaced, and by which kind of registry entry it was rebuilt |

A task has a type, what wrapped it (`erase`, `erase_serializable`, `erase_io`)
and the kind of input it takes. `TaskType` and `SerializeInput` are what the
wrappers tell a checkpoint, `Deserialize` what the registry makes of it,
`Apply` what a scaffold does to it. `Spawn` looks the executor up at once
(`ctx.rs:240`) and `Dispatch` uses it; `ReplaceTask` and `Remove` touch the
frontier and not the closure; `Restore` respawns in any order from id 0.
The gap between the two snapshots of a checkpoint is in `Checkpoint`, not here.

### Rig and ExecutorMaps

| variables | code |
|---|---|
| `heap`, `at` | the `ExecutorMap`s and the `Arc` of each runtime and each running task's `Ctx` |
| `bench` | the executor being built (`with_model`, `register_model`, `with_collection`) |
| `turn` | a task: its type, the model it names, where it stands, how it ended |
| `world` | the embeddings and collections there are, and bounds |

`RegisterExecutor` is `Arc::make_mut` and insert: in place if nobody else points
to the cell (`Shared`), into a fresh cell otherwise. `Spawn` shares the cell with
the task's context, `Reply` and `DropRuntime` give it back. `WithModel` has the
asymmetry of `RigEmbeddingExecutor` (`lib.rs:885-887`): `insert` for the full
key, `entry().or_insert` for the provider. `Search` is `VectorCollection::search`
with an exact cosine (a sign and the square of a fraction): stable, descending,
truncated to k. A provider's call is an answer or an error.

### Chat, Autocomplete, Workflows

`Chat`: one process after another, from the command line to the exit. `Read`,
`Query`, `Search`, `Ask`, `BuildContext`, `Complete` are the loop of `chat.rs` and
`chat_rag.rs`; `SeedDocuments` and `IndexDocuments` are `--seed`. A message is
the number of its turn, so that `window` and `prompt` show which turns the model
is sent; `keys` holds the names under which main registered its models.

`Autocomplete`: for each keystroke main (`Type`, `CancelPrevious`,
`AbortPrevious`, `Dispatch`), an outer tokio task (`Poll`, `Run`, `AwaitReply`,
`Wake`, `Write`, `DropOuter`) and the closure of `SuggestTask` (`Start`, `Look`,
`Suggest`, `Seal`, `Deliver`); then main's loops over the list (`CrossReference`,
`Summarise`, `Report`). The first poll of the outer task is three steps: tokio
starts it unless the task has been aborted (`Poll`), `Runtime::spawn` records the
task and hands its closure to tokio (`Run`), and the handle is polled
(`AwaitReply`), which may find an answer already. `abort` takes an outer task
between polls only: `DropOuter` applies to one that is queued or at its await.
One that is in a poll when it is aborted (`"midpoll"`) goes on to the end of that
poll, recording its task and writing to the list if it gets that far.

`Workflows`: both programs as stages of tasks; `Shape` says which stage fans out
and how. `Begin`, `SpawnStage`, `SpawnItem`, `Advance`, `GiveUp` are the
orchestrator, `FanBegin` and `FanEnd` a stage that is itself a tree
(`AnalyzeTask`, `Map`), `RunLeaf` a leaf, `Close` and `Reply` the end of any
task. A file is the set of functions it defines or calls, a line its keywords
and value.

## 3. Runs

| run | instance | what it asks | distinct states |
|---|---|---|---|
| `runtime` | 2 tasks, all kinds of call, cache, cancel, reset, panics, shutdown, fair | Do frontier, log, cache and handles agree at every moment? Does the runtime implement `TaskLifecycle`? Is `IInv` an invariant? Is every caller answered, does the frontier drain, does cancel stop what has not begun, is cached work not repeated? | 71,496 |
| `runtime_family` | 3 tasks of one cache key, panics | Is the spawn tree complete in the log, whose output is a cached reply, what order does an await impose? | 202,772 |
| `checkpoint` | 2 tasks, serializable or opaque, panics, cancel, fair | What can a checkpoint forget, is all unfinished work taken up, none twice and no audited work again, is a record ever a mixture of an old and a new task, does it end? | 772,855 |
| `combinators` | one combinator of each kind with 0 to 3 children, every fault, fair | What stands behind an Ok, what does an Err name, does a cancel end the loop, is the caller answered? | 100,752 |
| `generations` | 2 tasks of 3 types, 2 restores, one setting per runtime | On whose input does a task run after restores, what survives the second one, who executes a restored task? | 3,460,824 |
| `rig` | 2 runtimes, 2 tasks, 4 cells, 2 models | Who sees a registration, what does a key resolve to, which set of executors explains a result, what does a search return? | 564,060 |
| `chat` | every provider and flag, 7 turns, 3 files, 2 processes | Which turns is the model sent, are models found under the names tasks ask for, do seeded entries belong together? | 23,686 |
| `autocomplete` | 3 keystrokes, 2 looks at the flag, fair | How far can the list and the graphs disagree, does the last suggestion complete, what can a late writer change? | 428,850 |
| `workflows` | both programs, 3 items, every batch of up to 3 lines, 3 file systems, fair | Is the answer that of the input alone, do tests see every edit, is the graph complete when main is answered, does main end? | 17,668 |
| `v_open_record`, `v_restore_log`, `v_restore_input` | as above | one documented claim each, violated (section 7) | |

Bounds.

- A task of the runtime interacts with others through its parent or child, a
  cache key, the flags (cancel, poison, shutdown) and ids given out twice after a
  restore. Two tasks are a parent and its child or two strangers, so two show
  every pairwise interaction with every kind of call and fault. Three are needed
  for a chain of awaits, for siblings, and for a hit whose producer was itself a
  hit; those run with one kind of call. One cache key and two output types
  suffice because tasks of different keys share nothing.
- `combinators` has a first, a middle and a last child, so that the order of
  errors, the last attempt and an attempt in between differ.
- `checkpoint` needs both tasks captured, one captured and one closed, one spawned
  in the gap; it runs without the cache, which is not in a checkpoint.
- `generations` needs two restores, as `register_with_name` survives one, and two
  nodes, as an opaque one makes the restore of the other fail. The one value is
  refused by serde_json as an input of a type of its own and accepted as JSON, so
  that both outcomes of `serialize_input` occur; the proofs leave it open which
  values are refused.
- `rig`: a map shared by a runtime, its clone and two tasks is written while each
  of the others holds it; four cells are one per holder. Two names and three
  registrations tell the first, the last and one in between. The worlds of
  `MCRig` add every collection of up to three vectors out of seven (zero,
  parallel, orthogonal, opposite, shorter) with every query and k up to 4.
- `chat`: seven turns are 14 entries, which cut a window of 10; three files cover an
  unreadable one before, between and after readable ones; the second process
  shows what does not survive the first.
- `autocomplete`: three keystrokes are a superseded one, one whose abort comes while
  the next is typed, and the last; a body that looks twice can be cancelled
  before, between and after its looks. An abort can come before, between and
  after each step of a poll.
- `workflows`: three items give a middle one, so that the first bad line, the first
  error and the first to be done differ.

Deadlock is checked where something can always be called (`runtime`,
`runtime_family`, `combinators`, `v_open_record`). The others set `CHECK_DEADLOCK
FALSE`, for their programs end or their bounds run out; the ones that must end
have a liveness property instead.

Each property of a passing run has a mutant in `PROJECT.json`: a plausible slip
in the code (a wrong terminal status, a forgotten `set_cancelled`, an await that
does not wait, a restore that skips opaque tasks, a default model that moves, a
window that is off by one, an abort of the wrong handle) under which TLC finds
the property violated.

## 4. Fairness

- `Runtime.FairSpec` has weak fairness on `Step(n)` for each task: tokio polls
  every woken task until it is done, the sections after the body do not block,
  and `Succeed`/`Fail` in `Step` assume that user code returns. A parent that
  awaits a child is suspended until the child's handle resolves, so its own
  progress hangs on the child's; no wait can be circular as a body waits only for
  tasks it spawned. Nobody must spawn, await, cancel, reset, panic or shut down.
  Once the runtime is down, `Drop` ends what has not been polled to its end.
- `CkFairSpec` adds weak fairness on restore, a plain function; `CombFairSpec` on
  the body of the combinator, which tokio polls again whenever an awaited child
  answers.
- `Autocomplete.FairSpec` and `Workflows.FairSpec`: weak fairness of main, a
  thread that is never suspended for good except at the awaits its guards show,
  and of every task. Leaves of these programs return.

`Generations`, `Rig` and `Chat` have no fairness: their hosts may stop at any
time, and nothing is claimed to happen.

## 5. What is proved

For every value of the constants that satisfies the named assumptions.

| module | theorems | invariant |
|---|---|---|
| `RuntimeProofs` | `Invariance` with `TypeCorrectness`, `RepliesMatchRecords`, `LineageIsComplete`, `CacheIsSound`, `RepliesHaveProvenance`, `AwaitingOrdersTasks`; `HistoryStays`; `RefinesLifecycle`; `CancellationStops`, `MemoizationHolds` | `IInv` |
| `CheckpointProofs` | `CheckpointInvariant`, `OnlyTheGapIsLost`, `WorkIsRedone`, `AuditedWorkIsDone`, `RecordsStayWhole` | `CkInv` |
| `CombinatorsProofs` | `CombinatorInvariant`, `RuntimeInvariantHolds`, `ChildrenTakeTurns`, `SuccessIsEarned`, `ErrorsHaveCauses`, `CancellationEndsLoops` | `CombInv` |
| `GenerationsProofs` | `TasksRunOnTheirInput`, `FactoriesAreNeeded`, `NoExecutorForRestoredTasks` | `GInv` |
| `RigProofs` | `RigInvariant`, `OneSetPerTurn`, `LookupsFollowRegistrations`, `SharedMapsAreValues`, `SearchesAreTopK` | `RigInv`, `HistoryInv`, `SearchedInv` |
| `ChatProofs` | `PromptsAreWholeTurns`, `ModelsAreFound`, `EntriesAreFiles` | `TurnInv`, `KeysInv`, `SeedInv` |
| `AutocompleteProofs` | `AutocompleteInvariant`, `TheLastOneCompletes`, `OnlyOneIsWanted`, `TheReportAgrees`, `OutcomesStay` | `AcInv` |
| `WorkflowsProofs` | `WorkflowsInvariant`, `EditsAreSeen`, `GraphIsComplete`, `AnswersAreReference` | `WInv` |

Assumptions. `Runtime`: ids are `0 .. MaxNodes-1` with `MaxNodes > 0`; the
sentinels are none of the values they stand beside; a task's own `run` returns its
declared type (Rust's type system), a rejected call has no cache key (a mismatched
input has no hash), calls of one key declare one type (the key holds the stable
name). `Checkpoint`: what the registry knows is a set of calls, and those it takes
by a factory or as JSON are among them. `Combinators`: the kinds are the four
there are, and the calls of the body and its children are among the requests.
`Autocomplete`: there is a keystroke and a look. `Generations`: no type is both
pure and I/O, the wrapper of a scaffold is neither, null is no input, the inputs
serde_json refuses are inputs. `Rig`: runtimes are not tasks, sentinels are not
values, the default key is no name, a world uses only the names and holders there
are, and its vectors are sequences of integers. `Chat`: the window is an even
number of entries (10 in the code; with an odd one a prompt would begin with an
answer); a disk is a sequence of files. `Workflows`: a batch is at most `MaxItems`
typed lines, a file system has at most `MaxItems` files; `MaxItems` is any natural
number.

Induction over data. The induction theorems of the library take an operator as a
parameter, which no installed prover instantiates, so every induction here is
about a set: a set of counterexamples that is not empty has a least element
(`LeastNat`, from `NatLessThanWellFounded` and `WFMin`), and the step shows that
it has none. A recursive function is first shown to satisfy its equation
(`KeptToDef`, `DotToDef`, `PassingToDef`, `SumToDef`: there is a solution up to
every bound), then what it computes is proved from the equation.

*Runtime.* Each property says how two structures agree, yet the code writes them
in separate critical sections, so between two of them only the position of the
closure tells which are up to date; no property is inductive by itself. `Phases`
is that table: for every stage, the frontier status, the record, the reply and
the outcome that go with it. `FamilyPhase` adds that a parent is in its body while
a child of it is being recorded (a rejected call has no body); without it a parent
could end between `Frontier::register` and `record_spawn` and the log would lose
the link. `NoStaleChildren` and `Carried` do the same for removed nodes and for the
value a closure carries, `WaitsOK` for the child it last awaited; `BirthOrder`
orders ids. The lemma `Locality` (an action of task `n` touches the rows of `n`
only) reduces the quantified parts to the row that changed. `CancellationStops` and
`MemoizationHolds` have the form "from the moment P holds, Q never happens" and are
proved with an invariant relative to P.

*Checkpoint.* Until the restore begins `IInv` holds, with the addition that a task
the frontier has forgotten has ended (`Gone`). `GapInv` carries over what that
says at the first copy: whoever was missing then had ended and spawns nobody any
more, so what is missing at the second copy was born in between. `StaticInv` is
what the copies leave behind: whoever is owed work is in the first copy, as an
unfinished task born before the gap was in the frontier then, and so was a parent
of one born after; and nobody in it was audited, as the record of a task is closed
after it has left the frontier (`AuditedWorkIsDone`). After the restore `IInv`
does not hold (old records have no closure); `NewRuntime` keeps what the new
records need: ids are taken in order, a spawned task has no parent and spawns
nobody, so a closure writes the row of its own id and no other (`OwnRow`), and a
captured child is younger than its parent, so its id is never taken again before
the parent's is (`WorkIsRedone`, `RecordsStayWhole`).

*Combinators.* A combinator takes only steps of `Runtime`, so `IInv` holds
(`RuntimeInvariantHolds`). `CombInv` adds how the children before the last one
ended, what the answer rests on, and where a body that has looked at the flag
can still spawn: once. That is the bound of `CancelEndsTheLoop`.

*Generations.* A node is three records (frontier, closure, what the host gave), and
the invariant is a predicate on the three with one lemma per operation. What makes
it inductive is `Nameable` and `Kept`: a node a checkpoint can name was last
rebuilt by a factory and has its input in the snapshot.

*Rig.* A running task holds a cell, and a registration writes in place only to a
cell with one holder. So `MapOf(t)` is constant while `t` runs, which gives both the
refinement of `ExecutorMaps` and `OneTurnOneSet`; the rest is `Halfway`, that
`RetrieveTask` between its steps has the embedding of the model it named. `Follows`
is the history of one executor. `SearchesAreTopK` is about what a search computes,
for collections of any size and vectors of any length: a squared dot product is at
most the product of the squared lengths (Cauchy-Schwarz, by induction on the
length), so scores are between -1 and 1; `Before` is a strict total order of the
documents, so ranks are a permutation, and what is truncated is behind what is not.

*Chat, Autocomplete.* `--seed` filters the files of the disk twice and indexes two
lists by the same position; what `KeptTo` keeps is in the list and in the set, so
the two lists are one. The history is a sequence of pairs numbered by turns, and
the window is even, so its cut falls between two pairs. `AcInv` ties the position
of main to flags, aborts and records of each keystroke. An abort that finds the
outer task at rest settles the record of its keystroke: it is there or never will
be, which gives the first half of `ReportAgrees`. One that comes into a poll does
not; but the flag was set before the abort, so a task recorded after main's look
never runs (`NeverRuns`), and a late writer has an answered task, whose closed
record main has followed unless it found it open (`OutcomeStays`).

*Workflows.* No property says what an item may return before it has, so none is
inductive. The proof fixes that first: a script is what each stage is given and
what each task returns, a function of the lines for the pipeline, and of the files
and the listing the agent began with for the agent; `Script` says that what one
stage makes of its input is the input of the next. `WInv` then says how far the tree
has grown (`Tree`: no task beyond the current stage, all of every earlier one good,
items in order), which run this is (`Cache`), and that whatever has happened is in
the script (`Values`). The step is proved once for both programs (`TreeNext`,
`FollowsNext`); what is left of each are its leaves (`PipelineLeaf`, `SolveLeaf`)
and, for the agent, that the file system is the one it began with and the edits
that have run (`EditedNext`): a leaf that reads a file runs before the first edit
or after the last. `EditsAreSeen` follows as stage 3 is whole when `TestTask` is
spawned; `GraphIsComplete` by counting the places of each stage; and
`AnswersAreReference` from the end of the script, for the pipeline by induction
over the lines (`FilteredAre`: count, total and categories of what is kept).

## 6. Only model-checked

- Liveness under fairness: `EveryHandleResolves`, `FrontierDrains`,
  `RestoreAndItsTasksEnd`, `CombinatorAnswers`, both `ProgramEnds`. The prover
  does not handle fairness.

Every invariant, action property and refinement that a passing run checks is also
a theorem.

## 7. Where the code and its documentation disagree

| run | what happens | what is said |
|---|---|---|
| `v_open_record` | after a panic the record stays open and the node `Running`, so `running_nodes()` lists a dead task | `exec_graph.rs:105-106`, 260 |
| `v_restore_log` | restored tasks get ids from 0 and overwrite older records | `checkpoint.rs:279` |
| `v_restore_input` | a task with a typed input rejects the JSON value restore gives it | `checkpoint.rs:268-269` |

Seen while modelling, without a run of their own:

- A task leaves the frontier before its record is closed (`ctx.rs:255-256`, 270-271,
  298-337, 343-344), against `frontier.rs:177-178`: "Terminal tasks should be moved
  to the ExecGraph before removal". In between, or for ever after a panic in the
  output's `Clone` (317), a task that has ended is open in the log. `IInv` states at
  which stages.
- A checkpoint is no "point-in-time snapshot" (`checkpoint.rs:267`): it takes two,
  at two moments (271-272). A task can be live in the first and closed in the second;
  it is then run again although the checkpoint's log has it closed.
- A node that was `Completed`, `Failed` or `Cancelled` and not yet removed when it was
  copied is run again (`checkpoint.rs:343`), against 279-280: "re-spawns all pending
  and running frontier nodes". `NothingAuditedIsRepeated` states how far this goes:
  its record was open when the checkpoint began.
- Restore loses children. A record rebuilt before its parent, in the order of a
  `HashMap`, is not added to the parent's children (`exec_graph.rs:157-162`), and the
  captured list is not used, against `exec_graph.rs:103`, "All child nodes spawned by
  this task", and `checkpoint.rs:279`. `RecordsAreNotMixed` only says that the list
  holds nothing else.
- `spawn_all` starts its tasks one by one, so an early child can run before a later
  one is registered (`ctx.rs:158-161`, against 135-136).
- `replace_task` changes what the frontier shows and a checkpoint captures, not what
  runs (`frontier.rs:237`, against 233-234).
- An outer task of `interactive_tool.rs` that is aborted in the middle of a poll goes
  on to write its outcome, over an "aborted" main has filled in too, against 234:
  "When a tokio task is aborted, the record-updating code never runs".
- A task cancelled before its first poll answers `TaskPanicked`, not `Cancelled`:
  the error is boxed (`handle.rs:42`, against `error.rs:43`). `ReplyMatchesRecord`
  states what the code does.
- Restore records every old output under the type name "restored"
  (`checkpoint.rs:325-330`).
- A pending `IoTask` is always opaque, so a checkpoint with one is refused, and the
  `register_all` of nanites-rig (`lib.rs:431-466`) cannot help a restore.
- `register_executor` is documented as the way to register after the runtime has
  been cloned; the clones do not see it (`runtime.rs:137`, against 53-54 and
  132-135). `ValueSemantics` states what they do see.
- A scaffold's wrapper has a type of its own, so a wrapped task finds no executor.
- An input of the wrong type is reported by the rig executors as a model not found.
- `RetrievedDocument.score` is documented as 0 to 1 (`lib.rs:1022`); a cosine can be
  negative.
- `chat_rag` advises `--seed` to populate its collection (146), which dies with the
  process that seeded it (355); `--seed` needs the completion provider's key too.
- A chat loop ends at its first provider error, with exit code 0.
- `interactive_tool.rs` fills its list and counts its graphs at different moments, so
  for a keystroke whose abort came into a poll the two can disagree, as
  `ReportAgrees` spells out. Its assertion that at least five suggestions were
  cancelled early depends on the clock.

## 8. What is abstracted or left out

- Text: ids are numbers, errors are kinds, JSON is opaque, prompts are the turns
  and documents they contain. Cache keys are opaque (no hash collisions);
  `NoCache` behaves as a runtime without a cache; `TaskCache::clear` is called by
  nothing but tests.
- The order in a `children` list: nothing reads it.
- A handle passed to a task other than the spawner's. Bodies await handles of
  their own children, the only ones the API gives them without sharing.
- A lock poisoned by anything but the `Clone` of a cached output: the other
  critical sections run no user code.
- A panic of user code inside a spawn call, in the parameters or the hash of a task
  (`ctx.rs:246-250`): the task is registered and recorded, never handed to tokio.
- A captured child whose parent is captured too is spawned by restore and once more
  by the parent when that runs again; `Checkpoint` shows the first only, for the
  tasks of the new runtime spawn nobody there (bound).
- The order of a provider's vectors: `IndexDocuments` takes fewer or more than it was
  sent texts, the i-th of them always that of text i (`chat_rag.rs:348`).
- The checkpoint `data_pipeline` takes when its runs are over, serializes and reads
  back (384-403), and its assertions on the sample data (422-434).
- An old runtime that lives on beside the restored one, and a combinator whose
  children are combinators: their bodies are those of `Runtime`'s any task.
- Scores that are not numbers (a NaN embedding), floating-point rounding.
- Model providers, HTTP, terminal input and output; time. A sleep is the turn of
  other actors.
- The small examples of `nanites-core` (`basic`, `decompose`, `io_task`,
  `parallel`, `pipeline`, `scaffold`): each is one caller of `Runtime`, whose model
  lets a caller make any such calls, and a fan-out with a join as in `Workflows`.
- What else is left of the repository's own logic are queries, formatting,
  constructors and the wiring of clients to providers.
