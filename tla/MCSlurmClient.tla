---------------------------- MODULE MCSlurmClient ----------------------------
(***************************************************************************)
(* Small instances of SlurmClient: two resources of one apply, two calls   *)
(* each, one retry.                                                        *)
(***************************************************************************)
EXTENDS SlurmClient

CONSTANTS alice, bob
=============================================================================
