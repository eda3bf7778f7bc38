-------------------------- MODULE MCCommandService --------------------------
(***************************************************************************)
(* One command that must not be repeated and one that may be tried twice.  *)
(***************************************************************************)
EXTENDS CommandService

CONSTANTS once, twice, x, y, k1, k2

MCCommands == {once, twice}
MCIdempotent == {twice}
MCRetries == [c \in MCCommands |-> 1]
MCBodies == {x, y}
MCOneBody == {x}
MCResponses == {"SUCCESS", "RESULT_UNKNOWN"}
MCCalls == {k1, k2}
=============================================================================
