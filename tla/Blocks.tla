------------------------------- MODULE Blocks -------------------------------
(***************************************************************************)
(* What the send pool promises: its users own blocks of consecutive chunks, *)
(* a block is handed out only when none of its chunks belongs to another,   *)
(* and it is owned until it is given back, whole.                           *)
(***************************************************************************)
EXTENDS Integers

CONSTANT N      \* the number of chunks

VARIABLE blocks \* the blocks in use: pairs of a first chunk and a length

Chunks(b) == b[1]..(b[1] + b[2] - 1)

Init == blocks = {}

Allocate ==
    \E first \in 0..N - 1, count \in 1..N :
        /\ first + count <= N
        /\ \A b \in blocks : Chunks(b) \cap Chunks(<<first, count>>) = {}
        /\ blocks' = blocks \cup {<<first, count>>}

GiveBack == \E b \in blocks : blocks' = blocks \ {b}

Next == Allocate \/ GiveBack

Spec == Init /\ [][Next]_blocks

=============================================================================
