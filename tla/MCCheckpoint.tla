---------------------------- MODULE MCCheckpoint ----------------------------
(* Instances of checkpoint and restore for TLC. *)
EXTENDS Checkpoint

CONSTANTS k1, tA

MCKeys == {k1}
MCTypes == {tA, Unit}

Call(body, key) == [body |-> body, key |-> key, declared |-> tA, yields |-> tA,
                    dyn |-> TRUE]

Memoized == Call("run", k1)     \* erase_serializable
Opaque   == Call("run", NoKey)  \* erase

BothCalls == {Memoized, Opaque}
OneCall   == {Memoized}
NoCalls   == {}
=============================================================================
