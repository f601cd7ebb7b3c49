---------------------------- MODULE MCRecvBuffer ----------------------------
(* Instances of RecvBuffer for TLC. *)
EXTENDS RecvBuffer

(* Streams whose packet sizes differ by position; size 1 is not a legal    *)
(* packet when a header has two bytes.                                     *)
MCStreams ==
  {[o \in 0 .. StreamBound |-> CASE o = 0 -> a [] o % 3 = 1 -> b [] OTHER -> c] :
     a, b, c \in {1, 3, BufferSize - 1}}
=============================================================================
