---------------------------- MODULE MCRepository ----------------------------
(* Repository with constants for TLC. *)
EXTENDS Repository

CONSTANTS master, topic
=============================================================================
