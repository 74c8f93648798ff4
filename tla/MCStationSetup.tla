--------------------------- MODULE MCStationSetup ---------------------------
(* Instances of StationSetup for TLC. *)
EXTENDS StationSetup
=============================================================================
