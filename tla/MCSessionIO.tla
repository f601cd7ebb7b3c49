---------------------------- MODULE MCSessionIO ----------------------------
(* Instances of SessionIO for TLC. *)
EXTENDS SessionIO
=============================================================================
