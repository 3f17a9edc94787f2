------------------------------- MODULE MCChat -------------------------------
(***************************************************************************)
(* Command lines for Chat: every provider for either task with and without *)
(* its credentials, and every directory of at most MaxFiles files.         *)
(***************************************************************************)
EXTENDS Chat

CONSTANTS Providers, Usual, Names, MaxFiles

File(i) == [path : {i}, txt : BOOLEAN, readable : BOOLEAN]
MCFiles == UNION {File(i) : i \in 1 .. MaxFiles}
Disks == UNION {{d \in [1 .. n -> UNION {File(i) : i \in 1 .. n}] : \A i \in 1 .. n : d[i].path = i} :
                    n \in 0 .. MaxFiles}

Line(rag, wellFormed, seedFlag, env, provider, model, embedder, embedModel, disk) ==
    [rag |-> rag, wellFormed |-> wellFormed, seed |-> seedFlag, env |-> env, provider |-> provider,
     model |-> model, embedder |-> embedder, embedModel |-> embedModel, disk |-> disk]

MCCommandLines ==
    {Line(FALSE, w, FALSE, env, p, m, Usual, m, <<>>) :
        w \in BOOLEAN, env \in {{}, Providers}, p \in Providers, m \in Names}
    \cup {Line(TRUE, TRUE, FALSE, env, p, m, e, n, <<>>) :
        env \in {{}, Providers}, p, e \in Providers, m, n \in Names}
    \cup {Line(TRUE, TRUE, TRUE, Providers, Usual, m, e, m, disk) :
        m \in Names, e \in Providers, disk \in Disks}
=============================================================================
