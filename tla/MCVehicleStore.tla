--------------------------- MODULE MCVehicleStore ---------------------------
(***************************************************************************)
(* A small instance of VehicleStore for TLC.                               *)
(***************************************************************************)
EXTENDS VehicleStore
=============================================================================
