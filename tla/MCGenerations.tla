--------------------------- MODULE MCGenerations ---------------------------
(* An instance of Generations for TLC. *)
EXTENDS Generations

CONSTANTS Parse, Count, Fetch

MCPureTypes == {Parse, Count}  \* Parse takes JSON, Count a type of its own
MCJsonTypes == {Parse}
MCIoTypes == {Fetch}
=============================================================================
