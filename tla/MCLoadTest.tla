----------------------------- MODULE MCLoadTest -----------------------------
(* An instance of LoadTest for TLC: pings over two connections, and the     *)
(* rooms with answers that come late.                                       *)
EXTENDS LoadTest

MCLoads == { [connects |-> 2, pings |-> 3, answers |-> 0],
             [connects |-> 1, pings |-> 1, answers |-> 3] }

=============================================================================
