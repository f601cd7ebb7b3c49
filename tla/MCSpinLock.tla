----------------------------- MODULE MCSpinLock -----------------------------
(* Instances of SpinLock for TLC. *)
EXTENDS SpinLock

CONSTANTS t1, t2, t3, r1, r2, r3, q1, w1, w2, w3, v1

(* Every thread has a read guard and a write guard; the first one has two  *)
(* of each, for the nested cases.                                          *)
MCThreads == {t1, t2, t3}
MCReadGuards == {r1, r2, r3, q1}
MCWriteGuards == {w1, w2, w3, v1}
MCBy ==
  [g \in MCReadGuards \cup MCWriteGuards |->
    IF g \in {r1, q1, w1, v1} THEN t1 ELSE IF g \in {r2, w2} THEN t2 ELSE t3]

(* ThreadManager::InitTLS gives every thread an identifier of its own,     *)
(* from 1 on.                                                              *)
DistinctIds == [t \in MCThreads |-> CASE t = t1 -> 1 [] t = t2 -> 2 [] t = t3 -> 3]

(* The threads of the gRPC library do not run InitTLS: LThreadId is 0.     *)
GrpcIds == [t \in MCThreads |-> CASE t = t1 -> 1 [] t = t2 -> 2 [] t = t3 -> 0]
=============================================================================
