---------------------------- MODULE SerialQueues ----------------------------
(***************************************************************************)
(* What the job queues promise to their users (Lobby, Room): every queue   *)
(* is a serial executor.  The jobs submitted to a queue are run in the     *)
(* order of their submission, one at a time and exactly once, whichever    *)
(* threads submit them and whichever thread runs them.                     *)
(***************************************************************************)
EXTENDS Sequences

CONSTANTS
  AllQueues,   \* the queues
  Jobs,        \* the jobs that can be submitted
  None         \* no job

VARIABLES
  pending,     \* pending[q]: the jobs submitted to q and not started, in order
  running,     \* running[q]: the job of q being run, or None
  done         \* the jobs that have been run

vars == <<pending, running, done>>

Init ==
  /\ pending = [q \in AllQueues |-> <<>>]
  /\ running = [q \in AllQueues |-> None]
  /\ done = {}

Waiting(j) == \E q \in AllQueues : \E i \in DOMAIN pending[q] : pending[q][i] = j

Submit(q, j) ==
  /\ j \notin done
  /\ ~Waiting(j)
  /\ \A r \in AllQueues : running[r] # j
  /\ pending' = [pending EXCEPT ![q] = Append(@, j)]
  /\ UNCHANGED <<running, done>>

Start(q) ==
  /\ running[q] = None
  /\ pending[q] # <<>>
  /\ running' = [running EXCEPT ![q] = Head(pending[q])]
  /\ pending' = [pending EXCEPT ![q] = Tail(@)]
  /\ UNCHANGED done

Finish(q) ==
  /\ running[q] # None
  /\ done' = done \cup {running[q]}
  /\ running' = [running EXCEPT ![q] = None]
  /\ UNCHANGED pending

Next == \E q \in AllQueues : Start(q) \/ Finish(q) \/ \E j \in Jobs : Submit(q, j)

Spec == Init /\ [][Next]_vars

(* A queue with work never stays idle, and a job that was started ends. *)
FairSpec == Spec /\ \A q \in AllQueues : WF_vars(Start(q)) /\ WF_vars(Finish(q))
=============================================================================
