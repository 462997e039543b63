-------------------------- MODULE MCFirmwareUpdate --------------------------
(* An instance of FirmwareUpdate for TLC: a Server and two catalogs. *)
EXTENDS FirmwareUpdate

CONSTANTS s, a, b
=============================================================================
