---------------------------- MODULE MCLockOrder ----------------------------
(* Two threads; two sessions, whose locks share a name, a service and a     *)
(* send pool.                                                               *)
EXTENDS LockOrder

CONSTANTS s1, s2, service, pool, t1, t2

MCName == (s1 :> "Session") @@ (s2 :> "Session")
          @@ (service :> "Service") @@ (pool :> "SendPool")


MCDepth == (t1 :> 3) @@ (t2 :> 2)

=============================================================================
