-------------------------- MODULE MCUpstreamBlocked --------------------------
(***************************************************************************)
(* One device with an event, whose connector is replaced once, and a       *)
(* reading of another connector.                                           *)
(***************************************************************************)
EXTENDS MqttConnector

CONSTANTS device

MCTarget == [c \in Commands |-> device]
MCSource == [m \in Events |-> device]
=============================================================================
