----------------------------- MODULE MCRuntime -----------------------------
(* Instances of the runtime for TLC: the spawn calls its callers make. *)
EXTENDS RuntimeInvariant

CONSTANTS k1, tA, tB

MCKeys == {k1}
MCTypes == {tA, tB, Unit}

Call(body, key, declared, yields, dyn) ==
    [body |-> body, key |-> key, declared |-> declared, yields |-> yields,
     dyn |-> dyn]

Plain     == Call("run", NoKey, tA, tA, FALSE)       \* ctx.spawn(task, input)
Memoized  == Call("run", k1, tA, tA, TRUE)           \* spawn_dyn(erase_serializable(..))
WrongType == Call("executor", NoKey, tA, tB, FALSE)  \* an executor's output does not fit
WrongMemo == Call("executor", k1, tA, tB, TRUE)      \* ... and was to be cached
Rejected  == Call("reject", NoKey, tA, tA, TRUE)     \* mismatched input, no executor

AllCalls  == {Plain, Memoized, WrongType, WrongMemo, Rejected}
OneCall   == {Memoized}
=============================================================================
