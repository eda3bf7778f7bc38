--------------------------- MODULE MCShadowState ---------------------------
(***************************************************************************)
(* A shadow candidate that follows two devices: the observations 1 and 3   *)
(* are of one of them, the observation 2 of the other.                     *)
(***************************************************************************)
EXTENDS ShadowAnalysis

MCDeviceOf == <<1, 2, 1>>
=============================================================================
