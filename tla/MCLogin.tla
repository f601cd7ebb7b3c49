------------------------------ MODULE MCLogin ------------------------------
(* An instance of Login for TLC. *)
EXTENDS Login

CONSTANTS c1, w1, w2, d1, d2

MCPings == [c \in {c1} |-> 1]
MCLogins == [c \in {c1} |-> 2]
MCCreds == {"ok", "wrong", "short"}

=============================================================================
