------------------------------ MODULE Framing ------------------------------
(***************************************************************************)
(* What a session promises to OnRecv: the byte stream of the peer is cut   *)
(* into packets, and each is handed over whole, in order and once,         *)
(* whatever pieces the network delivers it in.                             *)
(*                                                                         *)
(* A byte is its position in the stream.  sizeOf[o] is the m_dataSize      *)
(* field of a packet header that starts at position o.                     *)
(***************************************************************************)
EXTENDS Naturals

CONSTANTS HeaderSize, Streams, StreamBound

VARIABLES
  sizeOf,     \* the stream
  received,   \* bytes that have arrived
  consumed,   \* bytes of the packets handed over
  packet,     \* the packet last handed over, as a function from 0
  open        \* the connection is being read

vars == <<sizeOf, received, consumed, packet, open>>

Init ==
  /\ sizeOf \in Streams
  /\ received = 0
  /\ consumed = 0
  /\ packet = [i \in {} |-> 0]
  /\ open = TRUE

Arrive(n) ==
  /\ open
  /\ received + n <= StreamBound
  /\ received' = received + n
  /\ UNCHANGED <<sizeOf, consumed, packet, open>>

(* A packet may be handed over and refused: the connection is closed. *)
HandOver ==
  /\ open
  /\ received - consumed >= HeaderSize
  /\ sizeOf[consumed] >= HeaderSize
  /\ consumed + sizeOf[consumed] <= received
  /\ packet' = [i \in 0 .. sizeOf[consumed] - 1 |-> consumed + i]
  /\ \/ consumed' = consumed + sizeOf[consumed] /\ UNCHANGED open
     \/ open' = FALSE /\ UNCHANGED consumed
  /\ UNCHANGED <<sizeOf, received>>

Close ==
  /\ open
  /\ open' = FALSE
  /\ UNCHANGED <<sizeOf, received, consumed, packet>>

Next == HandOver \/ Close \/ \E n \in 1 .. StreamBound : Arrive(n)

Spec == Init /\ [][Next]_vars
=============================================================================
