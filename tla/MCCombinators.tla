--------------------------- MODULE MCCombinators ---------------------------
(* Instances of the combinators for TLC. *)
EXTENDS Combinators

CONSTANTS tA, tB

MCTypes == {tA, tB, Unit}

Call(body, yields, dyn) == [body |-> body, key |-> NoKey, declared |-> tA,
                            yields |-> yields, dyn |-> dyn]

Plain    == Call("run", tA, FALSE)
Executed == Call("executor", tA, TRUE)
WrongOut == Call("executor", tB, TRUE)   \* an executor's output of another type
NoExec   == Call("reject", tA, TRUE)     \* no executor is registered

IoCalls  == {Executed, WrongOut, NoExec}
MCRequests == {Plain} \cup IoCalls
AllKinds == {"map", "refine", "retry", "chain"}
=============================================================================
