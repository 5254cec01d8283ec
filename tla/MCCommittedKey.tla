---------------------------- MODULE MCCommittedKey ----------------------------
(* Small instances of CommittedKey for TLC. *)
EXTENDS CommittedKey
==============================================================================
