---------------------------- MODULE MCBIOSVersion ----------------------------
(***************************************************************************)
(* Small instances of BIOSVersion for TLC.                                 *)
(***************************************************************************)
EXTENDS BIOSVersion

CONSTANTS v1, v2
=============================================================================
