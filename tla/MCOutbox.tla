------------------------------ MODULE MCOutbox ------------------------------
(***************************************************************************)
(* A message without device and one message of each of two devices.        *)
(***************************************************************************)
EXTENDS Outbox

CONSTANTS response, count, alarm, counter, door

MCIds == {response, count, alarm}
MCDevices == {counter, door}
MCDevice == [id \in MCIds |-> CASE id = response -> None
                                [] id = count -> counter
                                [] id = alarm -> door]
=============================================================================
