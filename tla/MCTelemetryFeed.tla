--------------------------- MODULE MCTelemetryFeed ---------------------------
(***************************************************************************)
(* A consumer that subscribes twice, queues of one reading, a value that   *)
(* changes every time.                                                     *)
(***************************************************************************)
EXTENDS TelemetryFeed

CONSTANTS edge, first, second

MCConsumers == {edge}
MCStreams == {first, second}
MCOwner == [s \in MCStreams |-> edge]
MCValue == <<1, 2, 1>>
=============================================================================
