----------------------------- MODULE MCSendPool -----------------------------
(* Two threads and five chunks; packets that need one chunk, two    *)
(* chunks because they fill one exactly, and three.                         *)
EXTENDS SendPool

=============================================================================
