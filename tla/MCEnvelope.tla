------------------------------ MODULE MCEnvelope ------------------------------
(* Small instances of Envelope for TLC. *)
EXTENDS Envelope
==============================================================================
