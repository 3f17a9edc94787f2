-------------------------- MODULE GenerationsProofs --------------------------
(***************************************************************************)
(* Proofs about Generations: for every set of types, every registry and    *)
(* any number of restores. A node is three records, its entry in the       *)
(* frontier, its closure and what the host gave; the invariant is a        *)
(* predicate on the three, and every operation has a lemma about it.       *)
(***************************************************************************)
EXTENDS Generations, FiniteSetTheorems, TLAPS

Entry == {"with_name", "factory"}

IsNode(f) == f = [status |-> f.status, task |-> f.task, input |-> f.input]
             /\ f.status \in {"Pending", "Running"}
IsClosure(c) == c = [status |-> c.status, task |-> c.task, input |-> c.input,
                     executor |-> c.executor, by |-> c.by]
                /\ c.status \in {"queued", "running"}
IsGiven(g) == /\ g = [status |-> "given", val |-> g.val, fits |-> g.fits,
                      replaced |-> g.replaced, entries |-> g.entries]
              /\ g.fits \in BOOLEAN /\ g.replaced \in BOOLEAN
              /\ g.entries \in Seq(Entry)

\* Every restore but the last one was by a factory.
Renewed(g) == \A i \in DOMAIN g.entries :
                 i < Len(g.entries) => g.entries[i] = "factory" \/ g.replaced

\* A node that a checkpoint can name was last rebuilt by a factory, if ever.
Nameable(g, name) ==
    name # "opaque" /\ g.entries # <<>> /\ ~g.replaced => g.entries[Len(g.entries)] = "factory"

\* A node that a checkpoint can name has its input there, or takes no JSON.
Kept(g, name, input) ==
    name # "opaque" /\ ~g.replaced /\ g.fits => input = g.val \/ Takes(name) = "own"

\* What the closure does, against what it was given and where it comes from.
ClosureOk(c, g) ==
    /\ c.by = "executor" => c.executor
    /\ c.by = "body" => CanRun(c.task, c.input)
    /\ g.entries # <<>> => /\ ~c.executor
                           /\ c.input.as = "json" /\ c.task.takes = Takes(c.task.type)
    /\ g.entries = <<>> => c.input.val = g.val /\ (g.fits => c.input.as = c.task.takes)
    /\ g.fits /\ ~g.replaced => c.input.val = g.val \/ c.task.takes = "own"

\* The frontier's copy, as long as the task was not replaced.
FrontierOk(f, c, g) ==
    /\ Nameable(g, TaskType(f.task))
    /\ ~g.replaced => f.task = c.task /\ f.input = SerializeInput(c.task, c.input)

NodeOk(f, c, g) ==
    /\ \/ c = Absent /\ g = Absent /\ f = Absent
       \/ IsClosure(c) /\ IsGiven(g) /\ Renewed(g) /\ ClosureOk(c, g)
    /\ f = Absent \/ (IsNode(f) /\ FrontierOk(f, c, g))

\* A node in a checkpoint.
SavedOk(s, g) == IsGiven(g) /\ Renewed(g) /\ Nameable(g, s.name) /\ Kept(g, s.name, s.input)

NodesInv ==
    /\ frontier = [n \in NodeId |-> frontier[n]]
    /\ closure = [n \in NodeId |-> closure[n]]
    /\ given = [n \in NodeId |-> given[n]]
    /\ \A n \in NodeId : NodeOk(frontier[n], closure[n], given[n])

SavedInv ==
    saved # <<>> =>
        /\ DOMAIN saved[1].frontier \subseteq NodeId
        /\ \A n \in DOMAIN saved[1].frontier : SavedOk(saved[1].frontier[n], saved[1].given[n])

GInv == NodesInv /\ SavedInv

(***************************************************************************)
(* The operations, on the three records of a node                          *)
(***************************************************************************)

\* Presence is told by the status.
LEMMA Presence ==
    /\ \A f : IsNode(f) => f # Absent
    /\ \A c : IsClosure(c) => c # Absent
    /\ \A g : IsGiven(g) => g # Absent
<1>1. ASSUME NEW f, IsNode(f) PROVE f # Absent
  BY <1>1 DEF IsNode, Absent
<1>2. ASSUME NEW c, IsClosure(c) PROVE c # Absent
  BY <1>2 DEF IsClosure, Absent
<1>3. ASSUME NEW g, IsGiven(g) PROVE g # Absent
  <2>1. g.status = "given"
    BY <1>3 DEF IsGiven
  <2> QED
    BY <2>1 DEF Absent
<1> QED
  BY <1>1, <1>2, <1>3

LEMMA AbsentIsOk == NodeOk(Absent, Absent, Absent)
BY DEF NodeOk

LEMMA SpawnedIsOk ==
    ASSUME NEW task, NEW as, NEW v, NEW executor \in BOOLEAN
    PROVE  LET input == [as |-> as, val |-> v]
           IN NodeOk(Registered(task, input), Queued(task, input, executor),
                     Given(v, as = task.takes, FALSE, <<>>))
<1> DEFINE input == [as |-> as, val |-> v]
           f == Registered(task, input)
           c == Queued(task, input, executor)
           g == Given(v, as = task.takes, FALSE, <<>>)
<1>1. IsNode(f) /\ IsClosure(c) /\ IsGiven(g)
  BY DEF Registered, Node, Queued, Closure, Given, IsNode, IsClosure, IsGiven
<1>2. c.by = "none" /\ c.input.val = v /\ c.input.as = as /\ c.task = task
  BY DEF Queued, Closure
<1>3. g.entries = <<>> /\ g.val = v /\ (g.fits <=> as = task.takes) /\ g.replaced = FALSE
  BY DEF Given
<1>4. Renewed(g) /\ ClosureOk(c, g)
  <2>1. Renewed(g)
    <3> HIDE DEF g
    <3>1. DOMAIN g.entries = {}
      BY <1>3
    <3> QED
      BY <3>1 DEF Renewed
  <2>2. ClosureOk(c, g)
    BY <1>2, <1>3 DEF ClosureOk
  <2> QED
    BY <2>1, <2>2
<1>5. FrontierOk(f, c, g)
  BY <1>3 DEF FrontierOk, Nameable, Registered, Queued, Node, Closure
<1> QED
  BY <1>1, <1>4, <1>5 DEF NodeOk

LEMMA RemovedIsOk == ASSUME NEW f, NEW c, NEW g, NodeOk(f, c, g) PROVE NodeOk(Absent, c, g)
<1>1. CASE c = Absent /\ g = Absent /\ f = Absent
  BY <1>1 DEF NodeOk
<1>2. CASE IsClosure(c) /\ IsGiven(g) /\ Renewed(g) /\ ClosureOk(c, g)
  BY <1>2 DEF NodeOk
<1> QED
  BY <1>1, <1>2 DEF NodeOk

\* A running closure, with whoever executes it.
LEMMA BegunIsOk ==
    ASSUME NEW f, NEW c, NEW g, NodeOk(f, c, g), c # Absent, NEW by,
           by = "executor" => c.executor, by = "body" => CanRun(c.task, c.input)
    PROVE  LET d == Closure("running", c.task, c.input, c.executor, by)
           IN /\ NodeOk(f, d, g)
              /\ f # Absent => NodeOk(Node("Running", f.task, f.input), d, g)
<1> DEFINE d == Closure("running", c.task, c.input, c.executor, by)
           r == Node("Running", f.task, f.input)
<1>1. IsClosure(c) /\ IsGiven(g) /\ Renewed(g) /\ ClosureOk(c, g)
  BY DEF NodeOk
<1>2. d.task = c.task /\ d.input = c.input /\ d.executor = c.executor /\ d.by = by
  BY DEF Closure
<1>3. IsClosure(d)
  BY DEF IsClosure, Closure
<1>4. ClosureOk(d, g)
  BY <1>1, <1>2 DEF ClosureOk
<1>5. r.task = f.task /\ r.input = f.input /\ IsNode(r)
  BY DEF Node, IsNode
<1>6. ASSUME IsNode(f), FrontierOk(f, c, g) PROVE FrontierOk(r, d, g) /\ FrontierOk(f, d, g)
  BY <1>2, <1>5, <1>6 DEF FrontierOk
<1>7. f = Absent \/ (IsNode(f) /\ FrontierOk(f, c, g))
  BY DEF NodeOk
<1> QED
  BY <1>1, <1>3, <1>4, <1>5, <1>6, <1>7 DEF NodeOk

LEMMA ReplacedIsOk ==
    ASSUME NEW f, NEW c, NEW g, NodeOk(f, c, g), f # Absent, NEW t
    PROVE  NodeOk(Node(f.status, t, f.input), c, Given(g.val, g.fits, TRUE, g.entries))
<1> DEFINE r == Node(f.status, t, f.input)
           h == Given(g.val, g.fits, TRUE, g.entries)
<1>1. IsNode(f) /\ IsClosure(c) /\ IsGiven(g) /\ Renewed(g) /\ ClosureOk(c, g)
  BY DEF NodeOk
<1>2. IsNode(r)
  BY <1>1 DEF IsNode, Node
<1>3. h.val = g.val /\ h.fits = g.fits /\ h.replaced = TRUE /\ h.entries = g.entries
  BY DEF Given
<1>4. IsGiven(h)
  BY <1>1 DEF IsGiven, Given
<1>5. Renewed(h) /\ ClosureOk(c, h)
  BY <1>1, <1>3 DEF Renewed, ClosureOk
<1>6. FrontierOk(r, c, h)
  BY <1>3 DEF FrontierOk, Nameable
<1> QED
  BY <1>1, <1>2, <1>4, <1>5, <1>6 DEF NodeOk

\* What a checkpoint holds of a node.
LEMMA CapturedIsOk ==
    ASSUME NEW f, NEW c, NEW g, NodeOk(f, c, g), f # Absent
    PROVE  SavedOk(FrontierSnapshot(f), g)
<1> DEFINE s == FrontierSnapshot(f)
<1>1. IsGiven(g) /\ Renewed(g) /\ ClosureOk(c, g) /\ FrontierOk(f, c, g)
  BY DEF NodeOk
<1>2. s.name = TaskType(f.task) /\ s.input = f.input
  BY DEF FrontierSnapshot
<1>3. ASSUME s.name # "opaque", ~g.replaced, g.fits
      PROVE  s.input = g.val \/ Takes(s.name) = "own"
  <2>1. f.task = c.task /\ s.input = SerializeInput(c.task, c.input)
    BY <1>1, <1>2, <1>3 DEF FrontierOk
  <2>2. c.task.wrap = "memo" /\ s.name = c.task.type
    BY <1>2, <1>3, <2>1 DEF TaskType
  <2> SUFFICES ASSUME Takes(s.name) # "own" PROVE s.input = g.val
    OBVIOUS
  <2>3. s.input = IF c.input.as = c.task.takes THEN c.input.val ELSE Null
    BY <2>1, <2>2 DEF SerializeInput
  <2>4. CASE g.entries = <<>>
    BY <1>1, <1>3, <2>3, <2>4 DEF ClosureOk
  <2>5. CASE g.entries # <<>>
    <3>1. c.input.as = "json" /\ c.task.takes = Takes(s.name)
      BY <1>1, <2>2, <2>5 DEF ClosureOk
    <3>2. c.input.val = g.val \/ c.task.takes = "own"
      BY <1>1, <1>3 DEF ClosureOk
    <3> QED
      BY <2>3, <3>1, <3>2 DEF Takes
  <2> QED
    BY <2>4, <2>5
<1> QED
  BY <1>1, <1>2, <1>3 DEF SavedOk, FrontierOk, Kept

\* What restore makes of it.
LEMMA RestoredIsOk ==
    ASSUME NEW s, NEW g, SavedOk(s, g), s.name # "opaque", NEW registry,
           registry[s.name] \in Entry
    PROVE  NodeOk(Registered(Rebuilt(s, registry), Reinput(s)),
                  Queued(Rebuilt(s, registry), Reinput(s), FALSE),
                  RestoredOnce(g, registry[s.name]))
<1> DEFINE e == registry[s.name]
           task == Rebuilt(s, registry)
           input == Reinput(s)
           f == Registered(task, input)
           c == Queued(task, input, FALSE)
           h == RestoredOnce(g, e)
           old == g.entries
           new == Append(old, e)
<1>1. IsGiven(g) /\ Renewed(g) /\ Nameable(g, s.name) /\ Kept(g, s.name, s.input)
  BY DEF SavedOk
<1>2. old \in Seq(Entry)
  BY <1>1 DEF IsGiven
<1>3. new \in Seq(Entry) /\ Len(new) = Len(old) + 1 /\ new # <<>> /\ new[Len(new)] = e
      /\ \A i \in 1 .. Len(old) : new[i] = old[i]
  BY <1>2
<1>4. h.val = g.val /\ h.fits = g.fits /\ h.replaced = g.replaced /\ h.entries = new
  BY DEF RestoredOnce, Given
<1>5. IsGiven(h)
  <2>1. h = [status |-> "given", val |-> h.val, fits |-> h.fits, replaced |-> h.replaced,
             entries |-> h.entries]
    BY DEF RestoredOnce, Given
  <2> QED
    BY <1>1, <1>3, <1>4, <2>1 DEF IsGiven
<1>6. Renewed(h)
  <2>1. ASSUME NEW i \in DOMAIN new, i < Len(new), ~g.replaced PROVE new[i] = "factory"
    <3>1. i \in 1 .. Len(old) /\ new[i] = old[i]
      BY <1>2, <1>3, <2>1
    <3>2. CASE i < Len(old)
      BY <1>1, <1>2, <2>1, <3>1, <3>2 DEF Renewed
    <3>3. CASE i = Len(old)
      <4>1. old # <<>>
        BY <3>1, <3>3
      <4> QED
        BY <1>1, <2>1, <3>1, <3>3, <4>1 DEF Nameable
    <3> QED
      BY <1>2, <3>1, <3>2, <3>3
  <2> QED
    BY <1>4, <2>1 DEF Renewed
<1>7. task.type = s.name /\ task.takes = Takes(s.name)
      /\ (e # "factory" => TaskType(task) = "opaque")
  BY DEF Rebuilt, Deserialize, Erase, EraseSerializable, TaskType
<1>8. c.task = task /\ c.input = input /\ c.executor = FALSE /\ c.by = "none"
      /\ f.task = task /\ f.input = SerializeInput(task, input)
  BY DEF Registered, Queued, Closure, Node
<1>9. IsClosure(c) /\ IsNode(f)
  BY DEF IsClosure, IsNode, Registered, Queued, Closure, Node
<1>10. ClosureOk(c, h)
  <2>1. c.input.as = "json" /\ c.input.val = s.input
    <3>1. input.as = "json" /\ input.val = s.input
      BY DEF Reinput
    <3>2. c.input = input
      BY <1>8
    <3> HIDE DEF c, input
    <3> QED
      BY <3>1, <3>2
  <2>2. c.task.takes = Takes(c.task.type) /\ c.task.takes = Takes(s.name)
    BY <1>7, <1>8
  <2>3. g.fits /\ ~g.replaced => s.input = g.val \/ Takes(s.name) = "own"
    BY <1>1 DEF Kept
  <2>4. h.entries # <<>>
    BY <1>3, <1>4
  <2> QED
    BY <1>4, <1>8, <2>1, <2>2, <2>3, <2>4 DEF ClosureOk
<1>11. FrontierOk(f, c, h)
  <2>1. Nameable(h, TaskType(f.task))
    BY <1>3, <1>4, <1>7, <1>8 DEF Nameable
  <2> QED
    BY <1>8, <2>1 DEF FrontierOk
<1> QED
  BY <1>5, <1>6, <1>9, <1>10, <1>11 DEF NodeOk

(***************************************************************************)
(* The specification                                                       *)
(***************************************************************************)

LEMMA GInvInit == Init => GInv
<1> SUFFICES ASSUME Init PROVE GInv
  OBVIOUS
<1>1. NodesInv
  BY AbsentIsOk DEF Init, NodesInv
<1>2. SavedInv
  BY DEF Init, SavedInv
<1> QED
  BY <1>1, <1>2 DEF GInv

LEMMA SpawnKeepsNodes ==
    ASSUME NodesInv, NEW t, NEW as, NEW v, Spawn(t, as, v)
    PROVE  NodesInv'
<1> DEFINE task == Scaffolded(t)
           input == [as |-> as, val |-> v]
           N == Registered(task, input)
           C == Queued(task, input, task.type \in executors)
           G == Given(v, as = task.takes, FALSE, <<>>)
<1>1. frontier' = [frontier EXCEPT ![nextId] = N] /\ closure' = [closure EXCEPT ![nextId] = C]
      /\ given' = [given EXCEPT ![nextId] = G]
  BY DEF Spawn
<1>2. NodeOk(N, C, G)
  <2>1. (task.type \in executors) \in BOOLEAN
    OBVIOUS
  <2> HIDE DEF task
  <2> QED
    BY <2>1, SpawnedIsOk
<1> HIDE DEF N, C, G
<1>3. ASSUME NEW n \in NodeId PROVE NodeOk(frontier'[n], closure'[n], given'[n])
  BY <1>1, <1>2 DEF NodesInv
<1> QED
  BY <1>1, <1>3 DEF NodesInv

LEMMA CloseKeepsNodes ==
    ASSUME NodesInv, NEW k \in NodeId, Close(k) PROVE NodesInv'
<1>1. ASSUME NEW n \in NodeId PROVE NodeOk(frontier'[n], closure'[n], given'[n])
  BY AbsentIsOk DEF Close, NodesInv
<1> QED
  BY <1>1 DEF Close, NodesInv

LEMMA BeginKeepsNodes ==
    ASSUME NodesInv, NEW k \in NodeId, Begin(k) PROVE NodesInv'
<1>1. ASSUME Close(k) PROVE NodesInv'
  BY <1>1, CloseKeepsNodes
<1>2. ASSUME closure[k].status = "queued",
             closure' = [closure EXCEPT ![k] = Closure("running", closure[k].task, closure[k].input,
                                                       closure[k].executor, Dispatch(k))],
             frontier' = IF frontier[k] = Absent THEN frontier
                         ELSE [frontier EXCEPT ![k] = Node("Running", frontier[k].task,
                                                           frontier[k].input)],
             given' = given
      PROVE  NodesInv'
  <2> DEFINE c == closure[k]
             f == frontier[k]
             d == Closure("running", c.task, c.input, c.executor, Dispatch(k))
             r == Node("Running", f.task, f.input)
  <2>1. c # Absent
    BY <1>2 DEF Absent
  <2>2. /\ Dispatch(k) = "executor" => c.executor
        /\ Dispatch(k) = "body" => CanRun(c.task, c.input)
    BY DEF Dispatch
  <2>3. NodeOk(f, c, given[k])
    BY DEF NodesInv
  <2>4. NodeOk(f, d, given[k]) /\ (f # Absent => NodeOk(r, d, given[k]))
    BY <2>1, <2>2, <2>3, BegunIsOk
  <2>5. closure' = [closure EXCEPT ![k] = d]
        /\ frontier' = IF f = Absent THEN frontier ELSE [frontier EXCEPT ![k] = r]
    BY <1>2
  <2> HIDE DEF d, r
  <2>6. ASSUME NEW n \in NodeId PROVE NodeOk(frontier'[n], closure'[n], given'[n])
    BY <1>2, <2>4, <2>5 DEF NodesInv
  <2> QED
    BY <1>2, <2>5, <2>6 DEF NodesInv
<1> QED
  BY <1>1, <1>2 DEF Begin

LEMMA ToolsKeepNodes ==
    ASSUME NodesInv, NEW k \in NodeId, NEW t, ReplaceTask(k, t) \/ Remove(k)
    PROVE  NodesInv'
<1>1. CASE ReplaceTask(k, t)
  <2> DEFINE r == Node(frontier[k].status, t, frontier[k].input)
             h == Given(given[k].val, given[k].fits, TRUE, given[k].entries)
  <2>1. frontier[k].status = "Pending" /\ frontier' = [frontier EXCEPT ![k] = r]
        /\ given' = [given EXCEPT ![k] = h] /\ closure' = closure
    BY <1>1 DEF ReplaceTask
  <2>2. frontier[k] # Absent
    BY <2>1 DEF Absent
  <2>3. NodeOk(r, closure[k], h)
    BY <2>2, ReplacedIsOk DEF NodesInv
  <2> HIDE DEF r, h
  <2>4. ASSUME NEW n \in NodeId PROVE NodeOk(frontier'[n], closure'[n], given'[n])
    BY <2>1, <2>3 DEF NodesInv
  <2> QED
    BY <2>1, <2>4 DEF NodesInv
<1>2. CASE Remove(k)
  <2>1. NodeOk(Absent, closure[k], given[k])
    BY RemovedIsOk DEF NodesInv
  <2>2. ASSUME NEW n \in NodeId PROVE NodeOk(frontier'[n], closure'[n], given'[n])
    BY <1>2, <2>1 DEF Remove, NodesInv
  <2> QED
    BY <1>2, <2>2 DEF Remove, NodesInv
<1> QED
  BY <1>1, <1>2

LEMMA CheckpointKeepsInv ==
    ASSUME NodesInv, TakeCheckpoint PROVE SavedInv'
<1> DEFINE F == [n \in Captured |-> FrontierSnapshot(frontier[n])]
           G == [n \in Captured |-> given[n]]
<1>1. saved'[1].frontier = F /\ saved'[1].given = G
  BY DEF TakeCheckpoint
<1>2. Captured \subseteq NodeId
  BY DEF Captured
<1>3. ASSUME NEW n \in Captured PROVE SavedOk(FrontierSnapshot(frontier[n]), given[n])
  <2>1. n \in NodeId /\ frontier[n] # Absent
    BY DEF Captured
  <2>2. NodeOk(frontier[n], closure[n], given[n])
    BY <2>1 DEF NodesInv
  <2> QED
    BY <2>1, <2>2, CapturedIsOk
<1> QED
  BY <1>1, <1>2, <1>3 DEF SavedInv

\* The n-th of the tasks that are spawned again is one of the captured ones.
LEMMA OrderIsOfCaptured ==
    ASSUME NEW S, S \subseteq NodeId, NEW order \in Orders(S), NEW n \in NodeId, n < Len(order)
    PROVE  order[n + 1] \in S
<1>1. IsFiniteSet(S)
  <2>1. 0 \in Int /\ MaxNodes - 1 \in Int
    BY BoundsAssumption
  <2>2. IsFiniteSet(0 .. MaxNodes - 1)
    BY <2>1, FS_Interval
  <2> QED
    BY <2>2, FS_Subset DEF NodeId
<1>2. Cardinality(S) \in Nat
  BY <1>1, FS_CardinalityType
<1>3. order \in [1 .. Cardinality(S) -> S]
  BY DEF Orders
<1>4. Len(order) = Cardinality(S)
  BY <1>2, <1>3
<1>5. n \in Nat
  BY BoundsAssumption DEF NodeId
<1> QED
  BY <1>2, <1>3, <1>4, <1>5

LEMMA RestoreKeepsNodes ==
    ASSUME NodesInv, SavedInv, saved # <<>>,
           NEW registry \in Registries, NEW order \in Orders(DOMAIN saved[1].frontier),
           Restore(registry, order)
    PROVE  NodesInv'
<1> DEFINE C == saved[1]
           snap(n) == C.frontier[order[n + 1]]
           N(n) == Registered(Rebuilt(snap(n), registry), Reinput(snap(n)))
           D(n) == Queued(Rebuilt(snap(n), registry), Reinput(snap(n)), FALSE)
           G(n) == RestoredOnce(C.given[order[n + 1]], registry[snap(n).name])
<1>1. /\ frontier' = [n \in NodeId |-> IF n < Len(order) THEN N(n) ELSE Absent]
      /\ closure' = [n \in NodeId |-> IF n < Len(order) THEN D(n) ELSE Absent]
      /\ given' = [n \in NodeId |-> IF n < Len(order) THEN G(n) ELSE Absent]
      /\ \A n \in DOMAIN C.frontier : C.frontier[n].name # "opaque"
                                      /\ C.frontier[n].name \in DOMAIN registry
  BY DEF Restore
<1>2. ASSUME NEW x \in DOMAIN registry PROVE registry[x] \in Entry
  BY DEF Registries, Entry
<1>3. ASSUME NEW n \in NodeId, n < Len(order) PROVE NodeOk(N(n), D(n), G(n))
  <2>1. order[n + 1] \in DOMAIN C.frontier
    BY <1>3, OrderIsOfCaptured DEF SavedInv
  <2>2. SavedOk(snap(n), C.given[order[n + 1]])
    BY <2>1 DEF SavedInv
  <2>3. snap(n).name # "opaque" /\ registry[snap(n).name] \in Entry
    BY <1>1, <1>2, <2>1
  <2> QED
    BY <2>2, <2>3, RestoredIsOk
<1> HIDE DEF N, D, G
<1>4. ASSUME NEW n \in NodeId PROVE NodeOk(frontier'[n], closure'[n], given'[n])
  <2>1. CASE n < Len(order)
    BY <1>1, <1>3, <2>1
  <2>2. CASE ~(n < Len(order))
    BY <1>1, <2>2, AbsentIsOk
  <2> QED
    BY <2>1, <2>2
<1>5. frontier' = [n \in NodeId |-> frontier'[n]] /\ closure' = [n \in NodeId |-> closure'[n]]
      /\ given' = [n \in NodeId |-> given'[n]]
  BY <1>1
<1> QED
  BY <1>4, <1>5 DEF NodesInv

LEMMA GInvNext == GInv /\ [Next]_vars => GInv'
<1> SUFFICES ASSUME GInv, [Next]_vars PROVE GInv'
  OBVIOUS
<1>0. NodesInv /\ SavedInv
  BY DEF GInv
<1>1. ASSUME UNCHANGED <<frontier, closure, given>> PROVE NodesInv'
  BY <1>0, <1>1 DEF NodesInv
<1>2. ASSUME saved' = saved \/ saved' = <<>> PROVE SavedInv'
  BY <1>0, <1>2 DEF SavedInv
<1>3. ASSUME NEW t \in Tasks, NEW as \in {"own", "json"}, NEW v \in Values, Spawn(t, as, v)
      PROVE  GInv'
  BY <1>0, <1>2, <1>3, SpawnKeepsNodes DEF Spawn, GInv
<1>4. ASSUME NEW t, WithExecutor(t) PROVE GInv'
  BY <1>1, <1>2, <1>4 DEF WithExecutor, GInv
<1>5. ASSUME NEW s, WithScaffold(s) PROVE GInv'
  BY <1>1, <1>2, <1>5 DEF WithScaffold, GInv
<1>6. ASSUME NEW n \in NodeId, Remove(n) PROVE GInv'
  BY <1>0, <1>2, <1>6, ToolsKeepNodes DEF Remove, GInv
<1>7. ASSUME NEW n \in NodeId, NEW t \in Tasks, ReplaceTask(n, t) PROVE GInv'
  BY <1>0, <1>2, <1>7, ToolsKeepNodes DEF ReplaceTask, GInv
<1>8. CASE Cancel
  BY <1>1, <1>2, <1>8 DEF Cancel, GInv
<1>9. CASE TakeCheckpoint
  BY <1>0, <1>1, <1>9, CheckpointKeepsInv DEF TakeCheckpoint, runtime, GInv
<1>10. ASSUME NEW n \in NodeId, Begin(n) PROVE GInv'
  BY <1>0, <1>2, <1>10, BeginKeepsNodes DEF Begin, Close, GInv
<1>11. ASSUME NEW n \in NodeId, End(n) PROVE GInv'
  BY <1>0, <1>2, <1>11, CloseKeepsNodes DEF End, Close, GInv
<1>12. ASSUME saved # <<>>, NEW registry \in Registries,
              NEW order \in Orders(DOMAIN saved[1].frontier), Restore(registry, order)
       PROVE  GInv'
  <2>1. NodesInv'
    BY <1>0, <1>12, RestoreKeepsNodes
  <2>2. saved' = <<>>
    BY <1>12 DEF Restore
  <2> QED
    BY <1>2, <2>1, <2>2 DEF GInv
<1>13. CASE UNCHANGED vars
  BY <1>1, <1>2, <1>13 DEF vars, runtime, GInv
<1> QED
  BY <1>3, <1>4, <1>5, <1>6, <1>7, <1>8, <1>9, <1>10, <1>11, <1>12, <1>13 DEF Next, Host

LEMMA GInvariance == Spec => []GInv
BY GInvInit, GInvNext, PTL DEF Spec

\* Whatever the tasks, the registries and the number of restores, a task that
\* runs has the input the host gave it, unless its node was replaced in the
\* frontier or the input did not fit it to begin with.
THEOREM TasksRunOnTheirInput == Spec => []RunsOnItsInput
<1>1. GInv => RunsOnItsInput
  <2> SUFFICES ASSUME GInv, NEW n \in NodeId, closure[n] # Absent,
                      closure[n].by \in {"body", "executor"}, ~given[n].replaced, given[n].fits
               PROVE  closure[n].input.val = given[n].val
    BY DEF RunsOnItsInput
  <2>1. ClosureOk(closure[n], given[n])
    BY DEF GInv, NodesInv, NodeOk
  <2>2. CASE given[n].entries = <<>>
    BY <2>1, <2>2 DEF ClosureOk
  <2>3. CASE given[n].entries # <<>>
    BY <2>1, <2>3 DEF ClosureOk, CanRun
  <2> QED
    BY <2>2, <2>3
<1> QED
  BY <1>1, GInvariance, PTL

\* A task that is restored twice was rebuilt by a factory the first time, or
\* replaced in the frontier.
THEOREM FactoriesAreNeeded == Spec => []SecondRestoreNeedsAFactory
<1>1. GInv => SecondRestoreNeedsAFactory
  BY DEF GInv, NodesInv, NodeOk, Renewed, SecondRestoreNeedsAFactory
<1> QED
  BY <1>1, GInvariance, PTL

\* No executor ever gets a restored task, and what runs its own body takes JSON.
THEOREM NoExecutorForRestoredTasks == Spec => []RestoredTasksRunThemselves
<1>1. GInv => RestoredTasksRunThemselves
  <2> SUFFICES ASSUME GInv, NEW n \in NodeId, given[n] # Absent, given[n].entries # <<>>
               PROVE  /\ closure[n].by # "executor"
                      /\ closure[n].by = "body" => closure[n].task.type \in JsonTypes
    BY DEF RestoredTasksRunThemselves
  <2>1. ClosureOk(closure[n], given[n])
    BY DEF GInv, NodesInv, NodeOk
  <2>2. closure[n].by # "executor" /\ closure[n].input.as = "json"
        /\ closure[n].task.takes = Takes(closure[n].task.type)
    BY <2>1 DEF ClosureOk
  <2>3. closure[n].by = "body" => closure[n].task.takes = "json"
    BY <2>1, <2>2 DEF ClosureOk, CanRun
  <2> QED
    BY <2>2, <2>3 DEF Takes
<1> QED
  BY <1>1, GInvariance, PTL
=============================================================================
