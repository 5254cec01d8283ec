---------------------------- MODULE MCAcmeClient ------------------------------
(* AcmeClient; the constants are in the .cfg. *)
EXTENDS AcmeClient
==============================================================================
