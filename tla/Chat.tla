-------------------------------- MODULE Chat --------------------------------
(***************************************************************************)
(* The chat programs of nanites-chat, one process after another: chat,     *)
(* and rag, which embeds each message and searches a store before the      *)
(* turn, or with --seed indexes the .txt files of a directory and exits.   *)
(* A turn is a HandleMessageTask: BuildContextTask, then CompletionTask.   *)
(*                                                                         *)
(* A message is the number of its turn, a file stands for its path, its    *)
(* text and the text's embedding, a provider's answer for the turn it      *)
(* answers.                                                                *)
(***************************************************************************)
EXTENDS Naturals, Sequences

CONSTANTS
    CommandLines,              \* with the environment and the directory to seed from
    Files,                     \* what is in those directories
    Completes, Embeds,         \* the providers each match statement knows
    Keyless, FromEnv,          \* ollama; azure, whose from_env panics
    MaxHistory, RetrieveK,
    MaxTurns, MaxProcesses     \* bounds: messages of a session, processes

\* The code has MAX_HISTORY = 10; what is used of it is that it is even.
ASSUME HistoryAssumption == MaxHistory \in Nat /\ MaxHistory % 2 = 0
ASSUME DisksAssumption == \A a \in CommandLines : a.disk \in Seq(Files)

VARIABLES
    pc,        \* where main stands; "off" when no process runs
    args,      \* the command line
    exit,      \* how the last process ended
    count,     \* processes launched
    keys,      \* kind of executor registered -> the keys of its models
    history, window, prompt,
    turn,      \* messages read by this process
    docs,      \* what was retrieved for this turn
    failure,   \* the error that ended the loop, or "none"
    ids, texts, collection

setup == <<args, count, keys>>
session == <<history, window, prompt, turn, docs>>
seed == <<ids, texts, collection>>
vars == <<pc, exit, failure, setup, session, seed>>

Kinds == {"Completion", "Embedding", "VectorStore"}
Nowhere == [k \in Kinds |-> {}]

Init ==
    /\ pc = "off" /\ exit = "none" /\ failure = "none"
    /\ args \in CommandLines /\ count = 0 /\ keys = Nowhere
    /\ history = <<>> /\ window = <<>> /\ prompt = <<>> /\ turn = 0 /\ docs = <<>>
    /\ ids = <<>> /\ texts = <<>> /\ collection = <<>>

\* Nothing outlives a process: neither the history nor the collection.
Launch(a) ==
    /\ pc = "off" /\ count < MaxProcesses
    /\ pc' = "args" /\ exit' = "none" /\ failure' = "none"
    /\ args' = a /\ count' = count + 1 /\ keys' = Nowhere
    /\ history' = <<>> /\ window' = <<>> /\ prompt' = <<>> /\ turn' = 0 /\ docs' = <<>>
    /\ ids' = <<>> /\ texts' = <<>> /\ collection' = <<>>

Exit(how) == pc' = "off" /\ exit' = how

\* Two or one provider:model, and the flag.
ParseArgs ==
    /\ pc = "args"
    /\ IF args.wellFormed THEN pc' = "completion" /\ UNCHANGED exit ELSE Exit("failed")
    /\ UNCHANGED <<failure, setup, session, seed>>

(***************************************************************************)
(* Executors                                                               *)
(***************************************************************************)

\* The variable is unset, or the client cannot be built.
Missing(p) == p \notin Keyless /\ p \notin args.env

NoClient(p, supported) ==
    \/ p \notin supported /\ Exit("failed")
    \/ p \in supported \ FromEnv /\ Exit("failed")
    \/ p \in supported \cap FromEnv /\ Missing(p) /\ Exit("panicked")

Client(p, supported) == p \in supported /\ ~Missing(p)

\* MUTANT of EmbeddingKeys: only the provider-only key is registered.
ProviderKey(p, m) == {<<p>>}

\* with_model(provider, model_name, ..) of RigEmbeddingExecutor.
EmbeddingKeys(p, m) == {<<p>>, <<p, m>>}

\* chat: the executor has the one model, by its name; the loop follows.
BuildExecutor ==
    /\ pc = "completion" /\ ~args.rag
    /\ \/ NoClient(args.provider, Completes) /\ UNCHANGED keys
       \/ /\ Client(args.provider, Completes)
          /\ keys' = [keys EXCEPT !["Completion"] = {<<args.model>>}]
          /\ pc' = "read" /\ UNCHANGED exit
    /\ UNCHANGED <<failure, args, count, session, seed>>

\* rag: the same, needed for --seed too.
BuildCompletionExecutor ==
    /\ pc = "completion" /\ args.rag
    /\ \/ NoClient(args.provider, Completes) /\ UNCHANGED keys
       \/ /\ Client(args.provider, Completes)
          /\ keys' = [keys EXCEPT !["Completion"] = {<<args.model>>}]
          /\ pc' = "embedding" /\ UNCHANGED exit
    /\ UNCHANGED <<failure, args, count, session, seed>>

\* Then either the runtime of seed_documents, with this executor alone, or the
\* runtime of the chat, with an empty collection.
BuildEmbeddingExecutor ==
    /\ pc = "embedding"
    /\ \/ NoClient(args.embedder, Embeds) /\ UNCHANGED keys
       \/ /\ Client(args.embedder, Embeds)
          /\ keys' = [k \in Kinds |->
                         IF k = "Embedding" THEN EmbeddingKeys(args.embedder, args.embedModel)
                         ELSE IF args.seed THEN {}
                         ELSE IF k = "VectorStore" THEN {<<"knowledge">>} ELSE keys[k]]
          /\ pc' = IF args.seed THEN "seed" ELSE "read"
          /\ UNCHANGED exit
    /\ UNCHANGED <<failure, args, count, session, seed>>

\* What the executor map makes of a task: its model is asked, which can fail in
\* ways of its own, or there is none to ask.
Found(kind, key) == key \in keys[kind]
Errors(kind, key, own) == IF keys[kind] = {} THEN {"NoExecutor"}
                          ELSE IF ~Found(kind, key) THEN {"NotFound"} ELSE own

(***************************************************************************)
(* The loop                                                                *)
(***************************************************************************)

\* break, goodbye, and main returns.
Break(error) == Exit("ok") /\ failure' = error /\ UNCHANGED <<setup, session, seed>>

\* EOF and a read error end the loop; a blank line is skipped.
Read ==
    /\ pc = "read"
    /\ \/ Break("none")
       \/ UNCHANGED vars
       \/ /\ turn < MaxTurns
          /\ turn' = turn + 1 /\ docs' = <<>>
          /\ pc' = IF args.rag THEN "query" ELSE "ask"
          /\ UNCHANGED <<exit, failure, setup, history, window, prompt, seed>>

\* The message is embedded: an error, no vector, or the last vector.
Query ==
    /\ pc = "query"
    /\ \/ \E e \in Errors("Embedding", <<args.embedder, args.embedModel>>, {"Failed", "NoVectors"}) :
             Break(e)
       \/ /\ Found("Embedding", <<args.embedder, args.embedModel>>)
          /\ pc' = "search" /\ UNCHANGED <<exit, failure, setup, session, seed>>

\* The first RetrieveK of the ranking of the collection.
Search ==
    /\ pc = "search"
    /\ IF Found("VectorStore", <<"knowledge">>)
       THEN /\ docs' = SubSeq(collection, 1, IF RetrieveK < Len(collection) THEN RetrieveK
                                             ELSE Len(collection))
            /\ pc' = "ask"
            /\ UNCHANGED <<exit, failure, setup, history, window, prompt, turn, seed>>
       ELSE \E e \in Errors("VectorStore", <<"knowledge">>, {}) : Break(e)

\* MUTANT of Recent: one entry less, so that half a turn is sent.
RecentHalf(h) == SubSeq(h, IF Len(h) < MaxHistory THEN 1 ELSE Len(h) - MaxHistory + 2, Len(h))

\* .iter().rev().take(MAX_HISTORY).rev()
Recent(h) == SubSeq(h, IF Len(h) < MaxHistory THEN 1 ELSE Len(h) - MaxHistory + 1, Len(h))

\* The turn's task is made; what was retrieved is added to a clone of the
\* character, so the next turn starts from the base knowledge again.
Ask ==
    /\ pc = "ask"
    /\ window' = Recent(history) /\ pc' = "context"
    /\ UNCHANGED <<exit, failure, setup, history, prompt, turn, docs, seed>>

\* BuildContextTask: the system prompt. It cannot fail.
BuildContext ==
    /\ pc = "context"
    /\ prompt' = <<[history |-> window, knowledge |-> docs, message |-> turn]>>
    /\ pc' = "complete"
    /\ UNCHANGED <<exit, failure, setup, history, window, turn, docs, seed>>

\* CompletionTask, and what main makes of the result of HandleMessageTask.
Complete ==
    /\ pc = "complete"
    /\ \/ \E e \in Errors("Completion", <<args.model>>, {"Failed"}) : Break(e)
       \/ /\ Found("Completion", <<args.model>>) /\ pc' = "read"
          /\ history' = history \o <<[role |-> "user", turn |-> turn],
                                     [role |-> "assistant", turn |-> turn]>>
          /\ UNCHANGED <<exit, failure, setup, window, prompt, turn, docs, seed>>

(***************************************************************************)
(* --seed                                                                  *)
(***************************************************************************)

\* The entries of a list that are in S, in order, up to every place of the list.
KeptTo(list, S) ==
    LET kept[i \in 0 .. Len(list)] == IF i = 0 THEN <<>>
                                      ELSE IF list[i] \in S THEN Append(kept[i - 1], list[i])
                                      ELSE kept[i - 1]
    IN kept

Only(list, S) == KeptTo(list, S)[Len(list)]

CollectTxtFiles(disk) == Only(disk, {file \in Files : file.txt})
Readable(files) == Only(files, {file \in Files : file.readable})

\* MUTANT of ReadFiles: a path is kept before its file is read.
PathsFirst(files) == [ids |-> files, texts |-> Readable(files)]

\* A file that cannot be read is skipped with a warning.
ReadFiles(files) == [ids |-> Readable(files), texts |-> Readable(files)]

SeedDocuments ==
    /\ pc = "seed"
    /\ LET read == ReadFiles(CollectTxtFiles(args.disk)) IN
       /\ ids' = read.ids /\ texts' = read.texts
       /\ IF read.texts = <<>> THEN Exit("ok") ELSE pc' = "index" /\ UNCHANGED exit
    /\ UNCHANGED <<failure, setup, session, collection>>

\* n vectors come back; ids[i] is out of bounds beyond the texts.
IndexDocuments ==
    /\ pc = "index"
    /\ \/ /\ failure' \in Errors("Embedding", <<args.embedder, args.embedModel>>, {"Failed"})
          /\ Exit("failed") /\ UNCHANGED collection
       \/ /\ Found("Embedding", <<args.embedder, args.embedModel>>) /\ UNCHANGED failure
          /\ \E n \in 0 .. Len(texts) + 1 :
                IF n > Len(ids) \/ n > Len(texts) THEN Exit("panicked") /\ UNCHANGED collection
                ELSE /\ Exit("ok")
                     /\ collection' = [i \in 1 .. n |-> [id |-> ids[i], text |-> texts[i],
                                                         vec |-> texts[i]]]
    /\ UNCHANGED <<setup, session, ids, texts>>

Process == \/ ParseArgs \/ BuildExecutor \/ BuildCompletionExecutor \/ BuildEmbeddingExecutor
           \/ Read \/ Query \/ Search \/ Ask \/ BuildContext \/ Complete
           \/ SeedDocuments \/ IndexDocuments

Next == Process \/ \E a \in CommandLines : Launch(a)

Spec == Init /\ [][Next]_vars

(***************************************************************************)
(* Properties                                                              *)
(***************************************************************************)

\* chat.rs:138 and 254: what the model is sent of the conversation is its last
\* whole turns, each with its question before its answer, every one of them
\* answered in this process, none missing between them and this message; never
\* the answer alone of a turn whose question was cut off, although MAX_HISTORY
\* counts entries and not turns.
PromptIsWholeTurns ==
    prompt # <<>> =>
        LET h == prompt[1].history
            before == prompt[1].message - 1
            whole == Len(h) \div 2
        IN /\ Len(h) = (IF 2 * before < MaxHistory THEN 2 * before ELSE MaxHistory)
           /\ \A k \in 1 .. whole :
                 /\ h[2 * k - 1] = [role |-> "user", turn |-> before - whole + k]
                 /\ h[2 * k] = [role |-> "assistant", turn |-> before - whole + k]

\* The names under which main registers models and collections are the names
\* under which its tasks ask for them, in the three ways it sets a runtime up:
\* no process ends because an executor or a model is not there.
TasksFindTheirModels == failure \notin {"NoExecutor", "NotFound"}

\* chat_rag.rs:348: the i-th vector is paired with the i-th path and text of two
\* lists that skip what could not be read, so every entry is one file's path,
\* text and embedding, however many vectors come back.
EntriesAreOneFile ==
    \A i \in DOMAIN collection : /\ collection[i].id = collection[i].text
                                  /\ collection[i].vec = collection[i].text
                                  /\ collection[i].id.txt /\ collection[i].id.readable
=============================================================================
