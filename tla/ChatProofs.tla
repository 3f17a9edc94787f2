----------------------------- MODULE ChatProofs -----------------------------
(***************************************************************************)
(* Proofs about Chat: for every window, bound and set of command lines,    *)
(* the model is sent whole turns, every task finds what it asks for, and   *)
(* an entry of the collection is one file.                                 *)
(***************************************************************************)
EXTENDS Chat, WellFoundedInduction, TLAPS

Entries == [role : {"user", "assistant"}, turn : Nat]

\* h is a conversation of n turns, a question and an answer each.
Whole(h, n) ==
    /\ Len(h) = 2 * n
    /\ \A k \in 1 .. n : /\ h[2 * k - 1] = [role |-> "user", turn |-> k]
                         /\ h[2 * k] = [role |-> "assistant", turn |-> k]

Starting == {"args", "completion", "embedding"}
InTurn == {"query", "search", "ask", "context", "complete"}

\* Between turns the history is the turns read so far; in a turn the message
\* that was read is not in it yet.
TurnInv ==
    /\ turn \in Nat
    /\ history \in Seq(Entries)
    /\ pc \in Starting \cup {"read"} => Whole(history, turn)
    /\ pc \in InTurn => turn >= 1 /\ Whole(history, turn - 1)
    /\ pc = "context" => window = Recent(history)
    /\ PromptIsWholeTurns

\* What the step of main requires to be registered.
KeysInv ==
    /\ keys = [k \in Kinds |-> keys[k]]
    /\ pc \in {"query", "search", "embedding", "seed", "index"} => args.rag
    /\ pc \in {"embedding", "read"} \cup InTurn => Found("Completion", <<args.model>>)
    /\ pc \in {"read"} \cup InTurn =>
          (args.rag => /\ Found("Embedding", <<args.embedder, args.embedModel>>)
                       /\ Found("VectorStore", <<"knowledge">>))
    /\ pc \in {"seed", "index"} => Found("Embedding", <<args.embedder, args.embedModel>>)
    /\ TasksFindTheirModels

(***************************************************************************)
(* The window                                                              *)
(***************************************************************************)

\* A full turn more.
LEMMA AppendTurn ==
    ASSUME NEW h \in Seq(Entries), NEW n \in Nat, Whole(h, n)
    PROVE  LET g == h \o <<[role |-> "user", turn |-> n + 1],
                           [role |-> "assistant", turn |-> n + 1]>>
           IN g \in Seq(Entries) /\ Whole(g, n + 1)
<1> DEFINE a == [role |-> "user", turn |-> n + 1]
           b == [role |-> "assistant", turn |-> n + 1]
           g == h \o <<a, b>>
<1>1. a \in Entries /\ b \in Entries
  BY DEF Entries
<1>2. g \in Seq(Entries) /\ Len(g) = Len(h) + 2
  BY <1>1
<1>3. \A i \in 1 .. Len(h) : g[i] = h[i]
  BY <1>1
<1>4. g[Len(h) + 1] = a /\ g[Len(h) + 2] = b
  BY <1>1
<1>5. Len(h) = 2 * n
  BY DEF Whole
<1>6. ASSUME NEW k \in 1 .. n + 1
      PROVE  g[2 * k - 1] = [role |-> "user", turn |-> k]
             /\ g[2 * k] = [role |-> "assistant", turn |-> k]
  <2>1. CASE k = n + 1
    <3>1. 2 * k - 1 = Len(h) + 1 /\ 2 * k = Len(h) + 2
      BY <2>1, <1>5
    <3> QED
      BY <2>1, <3>1, <1>4
  <2>2. CASE k # n + 1
    <3>1. k \in 1 .. n /\ 2 * k - 1 \in 1 .. Len(h) /\ 2 * k \in 1 .. Len(h)
      BY <2>2, <1>5
    <3>2. g[2 * k - 1] = h[2 * k - 1] /\ g[2 * k] = h[2 * k]
      BY <3>1, <1>3
    <3> QED
      BY <3>1, <3>2 DEF Whole
  <2> QED
    BY <2>1, <2>2
<1> QED
  BY <1>2, <1>5, <1>6 DEF Whole

\* What Recent keeps of a conversation is its last whole turns.
LEMMA RecentIsWholeTurns ==
    ASSUME NEW h \in Seq(Entries), NEW n \in Nat, Whole(h, n)
    PROVE  LET w == Recent(h)
               whole == Len(w) \div 2
           IN /\ Len(w) = (IF 2 * n < MaxHistory THEN 2 * n ELSE MaxHistory)
              /\ \A k \in 1 .. whole :
                    /\ w[2 * k - 1] = [role |-> "user", turn |-> n - whole + k]
                    /\ w[2 * k] = [role |-> "assistant", turn |-> n - whole + k]
<1> DEFINE w == Recent(h)
           whole == Len(w) \div 2
<1>1. PICK half \in Nat : MaxHistory = 2 * half
  <2>1. MaxHistory \div 2 \in Nat /\ MaxHistory = 2 * (MaxHistory \div 2)
    BY HistoryAssumption
  <2> QED
    BY <2>1
<1>2. Len(h) = 2 * n
  BY DEF Whole
<1>3. PICK o \in Nat : /\ o <= n
                       /\ w = SubSeq(h, 2 * o + 1, 2 * n)
                       /\ 2 * (n - o) = (IF 2 * n < MaxHistory THEN 2 * n ELSE MaxHistory)
  <2>1. CASE 2 * n < MaxHistory
    <3>1. w = SubSeq(h, 2 * 0 + 1, 2 * n)
      BY <2>1, <1>2 DEF Recent
    <3> QED
      BY <2>1, <3>1
  <2>2. CASE ~(2 * n < MaxHistory)
    <3>1. n - half \in Nat /\ n - half <= n
      BY <2>2, <1>1
    <3>2. w = SubSeq(h, 2 * (n - half) + 1, 2 * n)
      BY <2>2, <1>1, <1>2 DEF Recent
    <3>3. 2 * (n - (n - half)) = MaxHistory
      BY <1>1
    <3> QED
      BY <2>2, <3>1, <3>2, <3>3
  <2> QED
    BY <2>1, <2>2
<1>4. Len(w) = 2 * (n - o) /\ \A i \in 1 .. 2 * (n - o) : w[i] = h[2 * o + i]
  BY <1>2, <1>3
<1>5. whole = n - o
  <2>1. (2 * (n - o)) \div 2 = n - o
    BY <1>3
  <2> QED
    BY <2>1, <1>4
<1>6. ASSUME NEW k \in 1 .. whole
      PROVE  /\ w[2 * k - 1] = [role |-> "user", turn |-> n - whole + k]
             /\ w[2 * k] = [role |-> "assistant", turn |-> n - whole + k]
  <2>1. k + o \in 1 .. n /\ n - whole + k = k + o
    BY <1>3, <1>5
  <2>2. 2 * k - 1 \in 1 .. 2 * (n - o) /\ 2 * k \in 1 .. 2 * (n - o)
    BY <1>3, <1>5
  <2>3. /\ 2 * o + (2 * k - 1) = 2 * (k + o) - 1
        /\ 2 * o + 2 * k = 2 * (k + o)
    BY <1>3, <1>5
  <2>4. w[2 * k - 1] = h[2 * (k + o) - 1] /\ w[2 * k] = h[2 * (k + o)]
    BY <1>4, <2>2, <2>3
  <2> QED
    BY <2>1, <2>4 DEF Whole
<1> QED
  BY <1>3, <1>4, <1>6

(***************************************************************************)
(* Whole turns                                                             *)
(***************************************************************************)

LEMMA TurnInvInit == Init => TurnInv
<1> SUFFICES ASSUME Init PROVE TurnInv
  OBVIOUS
<1> QED
  BY DEF Init, TurnInv, Starting, InTurn, PromptIsWholeTurns

\* A step that leaves the session alone and does not go into a turn.
LEMMA QuietStep ==
    ASSUME TurnInv, UNCHANGED session,
           \/ pc' = pc
           \/ pc' \notin Starting \cup {"read"} \cup InTurn
           \/ pc \in Starting /\ pc' \in Starting \cup {"read"}
           \/ pc \in InTurn /\ pc' \in InTurn \ {"context"}
    PROVE  TurnInv'
<1>1. UNCHANGED <<turn, history, window, prompt>>
  BY DEF session
<1> QED
  BY <1>1 DEF TurnInv, Starting, InTurn, Whole, Recent, PromptIsWholeTurns

LEMMA TurnInvNext == TurnInv /\ [Next]_vars => TurnInv'
<1> SUFFICES ASSUME TurnInv, [Next]_vars PROVE TurnInv'
  OBVIOUS
<1> USE DEF Exit
<1>1. ASSUME NEW a \in CommandLines, Launch(a) PROVE TurnInv'
  BY <1>1 DEF Launch, TurnInv, Whole, Starting, InTurn, PromptIsWholeTurns
<1>2. CASE ParseArgs
  BY <1>2, QuietStep DEF ParseArgs, Starting, InTurn
<1>3. CASE BuildExecutor
  BY <1>3, QuietStep DEF BuildExecutor, NoClient, Starting, InTurn
<1>4. CASE BuildCompletionExecutor
  BY <1>4, QuietStep DEF BuildCompletionExecutor, NoClient, Starting, InTurn
<1>5. CASE BuildEmbeddingExecutor
  BY <1>5, QuietStep DEF BuildEmbeddingExecutor, NoClient, Starting, InTurn
<1>6. CASE Read
  <2>1. ASSUME Break("none") PROVE TurnInv'
    BY <2>1, QuietStep DEF Break, Starting, InTurn
  <2>2. ASSUME UNCHANGED vars PROVE TurnInv'
    BY <2>2, QuietStep DEF vars
  <2>3. ASSUME pc = "read", turn' = turn + 1, pc' = (IF args.rag THEN "query" ELSE "ask"),
               UNCHANGED <<history, window, prompt>>
        PROVE  TurnInv'
    <3>1. turn' \in Nat /\ turn' >= 1 /\ turn' - 1 = turn
      BY <2>3 DEF TurnInv
    <3>2. Whole(history', turn' - 1)
      BY <2>3, <3>1 DEF TurnInv, Whole
    <3>3. pc' \in InTurn \ {"context"} /\ pc' \notin Starting \cup {"read"}
      BY <2>3 DEF InTurn, Starting
    <3>4. PromptIsWholeTurns'
      BY <2>3 DEF TurnInv, PromptIsWholeTurns
    <3> QED
      BY <2>3, <3>1, <3>2, <3>3, <3>4 DEF TurnInv
  <2> QED
    BY <1>6, <2>1, <2>2, <2>3 DEF Read
<1>7. CASE Query
  BY <1>7, QuietStep DEF Query, Break, Starting, InTurn
<1>8. CASE Search
  <2>1. ASSUME pc = "search", pc' = "ask", UNCHANGED <<history, window, prompt, turn>>
        PROVE  TurnInv'
    BY <2>1 DEF TurnInv, Whole, Starting, InTurn, PromptIsWholeTurns
  <2>2. ASSUME NEW e, Break(e) PROVE TurnInv'
    BY <2>2, QuietStep DEF Break, Starting, InTurn
  <2> QED
    BY <1>8, <2>1, <2>2 DEF Search
<1>9. CASE Ask
  BY <1>9 DEF Ask, TurnInv, Whole, Starting, InTurn, PromptIsWholeTurns, Recent
<1>10. CASE BuildContext
  <2>1. turn \in Nat /\ turn - 1 \in Nat /\ Whole(history, turn - 1) /\ history \in Seq(Entries)
        /\ window = Recent(history)
    BY <1>10 DEF BuildContext, TurnInv, InTurn
  <2>2. prompt' = <<[history |-> window, knowledge |-> docs, message |-> turn]>>
    BY <1>10 DEF BuildContext
  <2>3. PromptIsWholeTurns'
    <3> DEFINE whole == Len(window) \div 2
    <3>1. /\ Len(window) = (IF 2 * (turn - 1) < MaxHistory THEN 2 * (turn - 1) ELSE MaxHistory)
          /\ \A k \in 1 .. whole :
                /\ window[2 * k - 1] = [role |-> "user", turn |-> (turn - 1) - whole + k]
                /\ window[2 * k] = [role |-> "assistant", turn |-> (turn - 1) - whole + k]
      BY <2>1, RecentIsWholeTurns
    <3>2. prompt'[1].history = window /\ prompt'[1].message = turn
      BY <2>2
    <3> QED
      BY <3>1, <3>2 DEF PromptIsWholeTurns
  <2>4. pc' = "complete" /\ UNCHANGED <<history, turn>>
    BY <1>10 DEF BuildContext
  <2> QED
    BY <1>10, <2>1, <2>3, <2>4 DEF BuildContext, TurnInv, Whole, Starting, InTurn
<1>11. CASE Complete
  <2>1. ASSUME pc' = "read", UNCHANGED <<turn, prompt, window>>,
               history' = history \o <<[role |-> "user", turn |-> turn],
                                       [role |-> "assistant", turn |-> turn]>>
        PROVE  TurnInv'
    <3>1. turn - 1 \in Nat /\ Whole(history, turn - 1) /\ (turn - 1) + 1 = turn
          /\ history \in Seq(Entries) /\ turn \in Nat
      BY <1>11 DEF Complete, TurnInv, InTurn
    <3>2. history' \in Seq(Entries) /\ Whole(history', turn)
      BY <2>1, <3>1, AppendTurn
    <3>3. PromptIsWholeTurns'
      BY <2>1 DEF TurnInv, PromptIsWholeTurns
    <3> QED
      BY <2>1, <3>1, <3>2, <3>3 DEF TurnInv, Starting, InTurn
  <2>2. ASSUME NEW e, Break(e) PROVE TurnInv'
    BY <2>2, QuietStep DEF Break, Starting, InTurn
  <2> QED
    BY <1>11, <2>1, <2>2 DEF Complete
<1>12. CASE SeedDocuments
  BY <1>12, QuietStep DEF SeedDocuments, Starting, InTurn
<1>13. CASE IndexDocuments
  BY <1>13, QuietStep DEF IndexDocuments, Starting, InTurn
<1>14. CASE UNCHANGED vars
  BY <1>14, QuietStep DEF vars
<1> QED
  BY <1>1, <1>2, <1>3, <1>4, <1>5, <1>6, <1>7, <1>8, <1>9, <1>10, <1>11, <1>12, <1>13, <1>14
     DEF Next, Process

\* chat.rs:138 and chat_rag.rs:241: however long the conversation and whatever
\* the (even) window, a prompt carries whole turns, the last ones, in order.
THEOREM PromptsAreWholeTurns == Spec => []PromptIsWholeTurns
<1>1. TurnInv => PromptIsWholeTurns
  BY DEF TurnInv
<1> QED
  BY <1>1, TurnInvInit, TurnInvNext, PTL DEF Spec

(***************************************************************************)
(* Executors and models                                                    *)
(***************************************************************************)

LEMMA KeysInvInit == Init => KeysInv
<1> SUFFICES ASSUME Init PROVE KeysInv
  OBVIOUS
<1> QED
  BY DEF Init, KeysInv, Nowhere, InTurn, TasksFindTheirModels

\* What is found is not missing: only an error of the executor's own is left.
LEMMA FoundHasNoError ==
    ASSUME NEW kind \in Kinds, NEW key, Found(kind, key), NEW own, NEW e \in Errors(kind, key, own)
    PROVE  e \in own
BY DEF Found, Errors

\* A loop that ends with an error of an executor's own.
LEMMA BreakKeepsKeys ==
    ASSUME KeysInv, NEW e, e \notin {"NoExecutor", "NotFound"}, Break(e)
    PROVE  KeysInv'
BY DEF KeysInv, Break, Exit, setup, InTurn, TasksFindTheirModels, Found

\* A step of the loop that changes neither what is registered nor the error.
LEMMA LoopKeepsKeys ==
    ASSUME KeysInv, UNCHANGED <<setup, failure>>,
           pc \in {"read"} \cup InTurn, pc' \in {"read"} \cup InTurn,
           pc' \in {"query", "search"} => args.rag
    PROVE  KeysInv'
BY DEF KeysInv, setup, InTurn, TasksFindTheirModels, Found

LEMMA KeysInvNext == KeysInv /\ [Next]_vars => KeysInv'
<1> SUFFICES ASSUME KeysInv, [Next]_vars PROVE KeysInv'
  OBVIOUS
<1> USE DEF Exit, setup
<1>0. "Completion" \in Kinds /\ "Embedding" \in Kinds /\ "VectorStore" \in Kinds
  BY DEF Kinds
<1>1. ASSUME NEW a \in CommandLines, Launch(a) PROVE KeysInv'
  BY <1>1 DEF Launch, KeysInv, Nowhere, InTurn, TasksFindTheirModels
<1>2. CASE ParseArgs
  BY <1>2 DEF ParseArgs, KeysInv, InTurn, TasksFindTheirModels, Found
<1>3. CASE BuildExecutor
  BY <1>0, <1>3 DEF BuildExecutor, NoClient, KeysInv, InTurn, TasksFindTheirModels, Found
<1>4. CASE BuildCompletionExecutor
  BY <1>0, <1>4 DEF BuildCompletionExecutor, NoClient, KeysInv, InTurn, TasksFindTheirModels,
                    Found
<1>5. CASE BuildEmbeddingExecutor
  <2>1. ASSUME NoClient(args.embedder, Embeds), UNCHANGED <<keys, args, failure>>
        PROVE  KeysInv'
    BY <2>1 DEF NoClient, KeysInv, InTurn, TasksFindTheirModels, Found
  <2>2. ASSUME pc = "embedding",
               keys' = [k \in Kinds |->
                           IF k = "Embedding" THEN EmbeddingKeys(args.embedder, args.embedModel)
                           ELSE IF args.seed THEN {}
                           ELSE IF k = "VectorStore" THEN {<<"knowledge">>} ELSE keys[k]],
               pc' = (IF args.seed THEN "seed" ELSE "read"),
               UNCHANGED <<args, failure>>
        PROVE  KeysInv'
    <3>1. Found("Embedding", <<args.embedder, args.embedModel>>)'
      BY <1>0, <2>2 DEF Found, EmbeddingKeys
    <3>2. ~args.seed => Found("VectorStore", <<"knowledge">>)' /\ Found("Completion", <<args.model>>)'
      BY <1>0, <2>2 DEF Found, KeysInv
    <3>3. keys' = [k \in Kinds |-> keys'[k]]
      BY <2>2
    <3>4. args'.rag /\ TasksFindTheirModels'
      BY <2>2 DEF KeysInv, TasksFindTheirModels
    <3> QED
      BY <2>2, <3>1, <3>2, <3>3, <3>4 DEF KeysInv, InTurn
  <2> QED
    BY <1>5, <2>1, <2>2 DEF BuildEmbeddingExecutor
<1>6. CASE Read
  <2>1. ASSUME Break("none") PROVE KeysInv'
    BY <2>1, BreakKeepsKeys
  <2>2. ASSUME UNCHANGED vars PROVE KeysInv'
    BY <2>2 DEF vars, KeysInv, InTurn, TasksFindTheirModels, Found
  <2>3. ASSUME pc = "read", pc' = (IF args.rag THEN "query" ELSE "ask"),
               UNCHANGED <<failure, setup>>
        PROVE  KeysInv'
    BY <2>3, LoopKeepsKeys DEF InTurn
  <2> QED
    BY <1>6, <2>1, <2>2, <2>3 DEF Read
<1>7. CASE Query
  <2>1. pc = "query" /\ args.rag /\ Found("Embedding", <<args.embedder, args.embedModel>>)
    BY <1>7 DEF Query, KeysInv, InTurn
  <2>2. ASSUME NEW e \in Errors("Embedding", <<args.embedder, args.embedModel>>,
                                {"Failed", "NoVectors"}), Break(e)
        PROVE  KeysInv'
    <3>1. e \in {"Failed", "NoVectors"}
      BY <1>0, <2>1, FoundHasNoError
    <3> QED
      BY <2>2, <3>1, BreakKeepsKeys
  <2>3. ASSUME pc' = "search", UNCHANGED <<failure, setup>> PROVE KeysInv'
    BY <2>1, <2>3, LoopKeepsKeys DEF InTurn
  <2> QED
    BY <1>7, <2>2, <2>3 DEF Query
<1>8. CASE Search
  <2>1. pc = "search" /\ args.rag /\ Found("VectorStore", <<"knowledge">>)
    BY <1>8 DEF Search, KeysInv, InTurn
  <2>2. pc' = "ask" /\ UNCHANGED <<failure, setup>>
    BY <1>8, <2>1 DEF Search
  <2> QED
    BY <2>1, <2>2, LoopKeepsKeys DEF InTurn
<1>9. CASE Ask
  BY <1>9, LoopKeepsKeys DEF Ask, InTurn
<1>10. CASE BuildContext
  BY <1>10, LoopKeepsKeys DEF BuildContext, InTurn
<1>11. CASE Complete
  <2>1. pc = "complete" /\ Found("Completion", <<args.model>>)
    BY <1>11 DEF Complete, KeysInv, InTurn
  <2>2. ASSUME NEW e \in Errors("Completion", <<args.model>>, {"Failed"}), Break(e)
        PROVE  KeysInv'
    <3>1. e = "Failed"
      BY <1>0, <2>1, FoundHasNoError
    <3> QED
      BY <2>2, <3>1, BreakKeepsKeys
  <2>3. ASSUME pc' = "read", UNCHANGED <<failure, setup>> PROVE KeysInv'
    BY <2>1, <2>3, LoopKeepsKeys DEF InTurn
  <2> QED
    BY <1>11, <2>2, <2>3 DEF Complete
<1>12. CASE SeedDocuments
  BY <1>12 DEF SeedDocuments, KeysInv, InTurn, TasksFindTheirModels, Found
<1>13. CASE IndexDocuments
  <2>1. Found("Embedding", <<args.embedder, args.embedModel>>)
    BY <1>13 DEF IndexDocuments, KeysInv
  <2>2. pc' = "off" /\ UNCHANGED <<args, keys>>
    BY <1>13 DEF IndexDocuments
  <2>3. failure' = failure \/ failure' \in Errors("Embedding",
                                 <<args.embedder, args.embedModel>>, {"Failed"})
    BY <1>13 DEF IndexDocuments
  <2>4. failure' \in Errors("Embedding", <<args.embedder, args.embedModel>>, {"Failed"})
           => failure' = "Failed"
    BY <1>0, <2>1 DEF Found, Errors
  <2>5. TasksFindTheirModels'
    BY <2>3, <2>4 DEF KeysInv, TasksFindTheirModels
  <2> QED
    BY <2>2, <2>5 DEF KeysInv, InTurn
<1>14. CASE UNCHANGED vars
  BY <1>14 DEF vars, KeysInv, InTurn, TasksFindTheirModels, Found
<1> QED
  BY <1>1, <1>2, <1>3, <1>4, <1>5, <1>6, <1>7, <1>8, <1>9, <1>10, <1>11, <1>12, <1>13, <1>14
     DEF Next, Process

\* chat_rag.rs:103-121: in all three set-ups of a runtime, whatever the command
\* line and the environment, no task asks for an executor or a model that main
\* has not registered.
THEOREM ModelsAreFound == Spec => []TasksFindTheirModels
<1>1. KeysInv => TasksFindTheirModels
  BY DEF KeysInv
<1> QED
  BY <1>1, KeysInvInit, KeysInvNext, PTL DEF Spec
(***************************************************************************)
(* Lists of files. An induction is a set of counterexamples without a      *)
(* least one.                                                              *)
(***************************************************************************)

LEMMA LeastNat ==
    ASSUME NEW T \in SUBSET Nat, T # {}
    PROVE  \E m \in T : \A k \in T : m <= k
<1> DEFINE R == OpToRel(<, Nat)
<1>1. IsWellFoundedOn(R, Nat)
  BY NatLessThanWellFounded
<1>2. \A k, m \in Nat : k < m => <<k, m>> \in R
  BY DEF OpToRel
<1> HIDE DEF R
<1>3. PICK m \in T : \A k \in T : <<k, m>> \notin R
  BY <1>1, WFMin
<1>4. ASSUME NEW k \in T PROVE m <= k
  <2>1. k \in Nat /\ m \in Nat /\ ~(k < m)
    BY <1>2, <1>3
  <2> QED
    BY <2>1
<1> QED
  BY <1>4

\* KeptTo is the function its definition describes: a solution up to every place
\* of the list exists, by induction on the place.
LEMMA KeptToDef ==
    ASSUME NEW list, Len(list) \in Nat, NEW S
    PROVE  KeptTo(list, S) =
               [i \in 0 .. Len(list) |->
                   IF i = 0 THEN <<>>
                   ELSE IF list[i] \in S THEN Append(KeptTo(list, S)[i - 1], list[i])
                   ELSE KeptTo(list, S)[i - 1]]
<1> DEFINE n == Len(list)
           At(g, i) == IF i = 0 THEN <<>>
                       ELSE IF list[i] \in S THEN Append(g[i - 1], list[i])
                       ELSE g[i - 1]
           Solves(g, m) == g = [i \in 0 .. m |-> At(g, i)]
<1>1. \E g : Solves(g, 0)
  <2>1. Solves([i \in 0 .. 0 |-> <<>>], 0)
    OBVIOUS
  <2> QED
    BY <2>1
<1>2. ASSUME NEW m \in Nat, m < n, NEW g, Solves(g, m)
      PROVE  \E h : Solves(h, m + 1)
  <2> DEFINE h == [i \in 0 .. m + 1 |-> At(g, i)]
  <2>1. \A i \in 0 .. m : g[i] = At(g, i)
    BY <1>2
  <2>2. \A i \in 0 .. m + 1 : h[i] = At(g, i)
    OBVIOUS
  <2>3. \A i \in 0 .. m : h[i] = g[i]
    BY <2>1, <2>2
  <2>4. \A i \in 0 .. m + 1 : i # 0 => i - 1 \in 0 .. m
    OBVIOUS
  <2>5. \A i \in 0 .. m + 1 : At(h, i) = At(g, i)
    <3> HIDE DEF h
    <3> QED
      BY <2>3, <2>4
  <2>6. Solves(h, m + 1)
    BY <2>5
  <2> QED
    BY <2>6
<1>3. KeptTo(list, S) = CHOOSE g : Solves(g, n)
  BY DEF KeptTo
<1> HIDE DEF Solves
<1> DEFINE Unsolved == {m \in Nat : m <= n /\ ~\E g : Solves(g, m)}
<1>4. Unsolved = {}
  <2> SUFFICES ASSUME Unsolved # {} PROVE FALSE
    OBVIOUS
  <2>1. PICK m \in Unsolved : \A k \in Unsolved : m <= k
    <3>1. Unsolved \subseteq Nat
      OBVIOUS
    <3> QED
      BY <3>1, LeastNat
  <2>2. m # 0
    BY <1>1
  <2>3. m - 1 \in Nat /\ m - 1 < n /\ m - 1 \notin Unsolved /\ (m - 1) + 1 = m
    BY <2>1, <2>2
  <2>4. PICK g : Solves(g, m - 1)
    BY <2>3
  <2> QED
    BY <2>1, <2>3, <2>4, <1>2
<1>5. Solves(KeptTo(list, S), n)
  BY <1>3, <1>4
<1> QED
  BY <1>5 DEF Solves

\* What Only keeps is in the list and in the set.
LEMMA OnlyKeeps ==
    ASSUME NEW F, NEW list \in Seq(F), NEW S
    PROVE  Only(list, S) \in Seq(F \cap S)
<1> DEFINE K == KeptTo(list, S)
           n == Len(list)
           Wrong == {m \in Nat : m <= n /\ K[m] \notin Seq(F \cap S)}
<1>1. n \in Nat /\ \A i \in 1 .. n : list[i] \in F
  OBVIOUS
<1>2. \A i \in 0 .. n : K[i] = IF i = 0 THEN <<>>
                               ELSE IF list[i] \in S THEN Append(K[i - 1], list[i])
                               ELSE K[i - 1]
  <2>1. K = [i \in 0 .. n |-> IF i = 0 THEN <<>>
                               ELSE IF list[i] \in S THEN Append(K[i - 1], list[i])
                               ELSE K[i - 1]]
    BY <1>1, KeptToDef
  <2> HIDE DEF K
  <2> QED
    BY <2>1
<1> HIDE DEF K
<1>3. Wrong = {}
  <2> SUFFICES ASSUME Wrong # {} PROVE FALSE
    OBVIOUS
  <2>1. PICK m \in Wrong : \A k \in Wrong : m <= k
    <3>1. Wrong \subseteq Nat
      OBVIOUS
    <3> QED
      BY <3>1, LeastNat
  <2>2. m # 0
    <3>1. K[0] = <<>>
      BY <1>1, <1>2
    <3>2. <<>> \in Seq(F \cap S)
      OBVIOUS
    <3>3. 0 \notin Wrong
      BY <3>1, <3>2
    <3> QED
      BY <2>1, <3>3
  <2>3. m \in 1 .. n /\ m - 1 \in Nat /\ m - 1 \in 0 .. n /\ K[m - 1] \in Seq(F \cap S)
    BY <1>1, <2>1, <2>2
  <2>4. CASE list[m] \in S
    <3>0. m \in 0 .. n /\ list[m] \in F
      BY <1>1, <2>3
    <3>1. K[m] = Append(K[m - 1], list[m]) /\ list[m] \in F \cap S
      BY <1>2, <2>2, <2>4, <3>0
    <3>2. Append(K[m - 1], list[m]) \in Seq(F \cap S)
      BY <2>3, <3>1
    <3> QED
      BY <2>1, <3>1, <3>2
  <2>5. CASE list[m] \notin S
    BY <1>2, <2>1, <2>2, <2>3, <2>5
  <2> QED
    BY <2>4, <2>5
<1> QED
  BY <1>1, <1>3 DEF Only, K

(***************************************************************************)
(* Seeding                                                                 *)
(***************************************************************************)

Seedable == {file \in Files : file.txt /\ file.readable}

\* The lists of --seed are the same files; what is indexed is a part of them.
SeedInv ==
    /\ pc # "off" => args \in CommandLines
    /\ pc = "index" => ids \in Seq(Seedable) /\ texts = ids
    /\ EntriesAreOneFile

LEMMA SeedInvInit == Init => SeedInv
BY DEF Init, SeedInv, EntriesAreOneFile

\* A step that leaves the lists alone and does not go to them.
LEMMA LeavesSeedAlone ==
    ASSUME SeedInv, UNCHANGED <<args, seed>>, pc # "off" \/ pc' = pc, pc' # "index" \/ pc' = pc
    PROVE  SeedInv'
BY DEF SeedInv, seed, EntriesAreOneFile

LEMMA SeedInvNext == SeedInv /\ [Next]_vars => SeedInv'
<1> SUFFICES ASSUME SeedInv, [Next]_vars PROVE SeedInv'
  OBVIOUS
<1> USE DEF Exit, setup
<1>1. ASSUME NEW a \in CommandLines, Launch(a) PROVE SeedInv'
  BY <1>1 DEF Launch, SeedInv, EntriesAreOneFile
<1>2. CASE ParseArgs
  BY <1>2, LeavesSeedAlone DEF ParseArgs
<1>3. CASE BuildExecutor
  BY <1>3, LeavesSeedAlone DEF BuildExecutor, NoClient
<1>4. CASE BuildCompletionExecutor
  BY <1>4, LeavesSeedAlone DEF BuildCompletionExecutor, NoClient
<1>5. CASE BuildEmbeddingExecutor
  BY <1>5, LeavesSeedAlone DEF BuildEmbeddingExecutor, NoClient
<1>6. CASE Read
  BY <1>6, LeavesSeedAlone DEF Read, Break, vars
<1>7. CASE Query
  BY <1>7, LeavesSeedAlone DEF Query, Break
<1>8. CASE Search
  BY <1>8, LeavesSeedAlone DEF Search, Break
<1>9. CASE Ask
  BY <1>9, LeavesSeedAlone DEF Ask
<1>10. CASE BuildContext
  BY <1>10, LeavesSeedAlone DEF BuildContext
<1>11. CASE Complete
  BY <1>11, LeavesSeedAlone DEF Complete, Break
<1>12. CASE SeedDocuments
  <2> DEFINE found == CollectTxtFiles(args.disk)
  <2>1. args \in CommandLines /\ args.disk \in Seq(Files)
    BY <1>12, DisksAssumption DEF SeedDocuments, SeedInv
  <2>2. found \in Seq(Files \cap {file \in Files : file.txt})
    BY <2>1, OnlyKeeps DEF CollectTxtFiles
  <2>3. Readable(found) \in Seq((Files \cap {file \in Files : file.txt})
                                   \cap {file \in Files : file.readable})
    BY <2>2, OnlyKeeps DEF Readable
  <2>4. (Files \cap {file \in Files : file.txt}) \cap {file \in Files : file.readable} = Seedable
    BY DEF Seedable
  <2>5. ids' = Readable(found) /\ texts' = ids'
    BY <1>12 DEF SeedDocuments, ReadFiles
  <2> QED
    BY <1>12, <2>1, <2>3, <2>4, <2>5 DEF SeedDocuments, SeedInv, EntriesAreOneFile
<1>13. CASE IndexDocuments
  <2>1. ids \in Seq(Seedable) /\ texts = ids
    BY <1>13 DEF IndexDocuments, SeedInv
  <2>2. pc' = "off"
    BY <1>13 DEF IndexDocuments
  <2>3. CASE UNCHANGED collection
    BY <2>2, <2>3 DEF SeedInv, EntriesAreOneFile
  <2>4. ASSUME NEW n \in 0 .. Len(texts) + 1, ~(n > Len(ids) \/ n > Len(texts)),
               collection' = [i \in 1 .. n |-> [id |-> ids[i], text |-> texts[i],
                                                vec |-> texts[i]]]
        PROVE  SeedInv'
    <3>1. \A i \in 1 .. n : i \in 1 .. Len(ids)
      BY <2>1, <2>4
    <3>2. \A i \in 1 .. n : ids[i] \in Seedable
      BY <2>1, <3>1
    <3>3. DOMAIN collection' = 1 .. n
      BY <2>4
    <3>4. \A i \in 1 .. n : /\ collection'[i].id = ids[i]
                            /\ collection'[i].text = ids[i] /\ collection'[i].vec = ids[i]
      BY <2>1, <2>4
    <3>5. EntriesAreOneFile'
      BY <3>2, <3>3, <3>4 DEF EntriesAreOneFile, Seedable
    <3> QED
      BY <2>2, <3>5 DEF SeedInv
  <2> QED
    BY <1>13, <2>3, <2>4 DEF IndexDocuments
<1>14. CASE UNCHANGED vars
  BY <1>14, LeavesSeedAlone DEF vars
<1> QED
  BY <1>1, <1>2, <1>3, <1>4, <1>5, <1>6, <1>7, <1>8, <1>9, <1>10, <1>11, <1>12, <1>13, <1>14
     DEF Next, Process

\* chat_rag.rs:297-348: for directories of any size and files of any kind, and
\* however many vectors the provider sends back, an entry of the collection has
\* the path, the text and the embedding of one file, a .txt file that was read.
THEOREM EntriesAreFiles == Spec => []EntriesAreOneFile
<1>1. SeedInv => EntriesAreOneFile
  BY DEF SeedInv
<1> QED
  BY <1>1, SeedInvInit, SeedInvNext, PTL DEF Spec
=============================================================================
