------------------------------ MODULE DbSystem ------------------------------
(***************************************************************************)
(* The database threads of the server: DbSystem.cpp (task queue, worker     *)
(* threads, condition variable, shutdown), DbConnectionPool.cpp and the     *)
(* DbConnection guard.                                                      *)
(*                                                                         *)
(* What runs under _mutex, or under the lock of the connection pool, is one *)
(* step.  _cv is the set of the threads that wait on it: a thread checks    *)
(* the condition and joins the set in one step, a notification is a step of *)
(* its own after the mutex has been given up.  The task itself is the       *)
(* business of the module that uses this one: a worker at "run" executes    *)
(* the task in job[w] and ends with TaskDone(w).                            *)
(***************************************************************************)
EXTENDS Integers, Sequences, SequencesExt, FiniteSets

CONSTANTS
    Workers,    \* GetDbPoolSize() threads, as many as connections are asked for
    Conns,      \* the connections that Init asks for
    NoConn,     \* nullptr
    NoTask

VARIABLES
    running,    \* _running
    tasks,      \* _tasks
    waiting,    \* the threads that wait on _cv
    wpc,        \* where each worker is
    job,        \* the task of each worker
    conn,       \* _conn of the DbConnection of the running task
    connections, \* _connections of the pool
    opened,     \* the connections that Init established
    closed,     \* the connections that Shutdown closed
    shut        \* how far Shutdown is

dbVars == <<running, tasks, waiting, wpc, job, conn, connections, opened, closed, shut>>

(* Init: of the connections asked for, some can be established (which ones  *)
(* does not matter); with one or more the configured number of threads is   *)
(* started, else none.                                                      *)
DbInit ==
    /\ running = TRUE
    /\ tasks = <<>>
    /\ waiting = {}
    /\ \E n \in 0..Cardinality(Conns) :
          /\ opened = CHOOSE ok \in SUBSET Conns : Cardinality(ok) = n
          /\ connections = SetToSeq(opened)
          /\ wpc = [w \in Workers |-> IF n = 0 THEN "absent" ELSE "loop"]
    /\ job = [w \in Workers |-> NoTask]
    /\ conn = [w \in Workers |-> NoConn]
    /\ closed = {}
    /\ shut = "no"

-----------------------------------------------------------------------------
(* Execute, up to the end of the block that holds _mutex *)
Enqueue(task) ==
    /\ tasks' = IF running THEN Append(tasks, task) ELSE tasks
    /\ UNCHANGED <<running, waiting, wpc, job, conn, connections, opened, closed, shut>>

(* mutant of NotifyOne: Execute does not notify *)
NotifyNone == UNCHANGED dbVars

(* The end of Execute: notify_one reaches one of the waiting threads, if    *)
(* there is one.                                                            *)
NotifyOne ==
    /\ IF waiting = {} THEN UNCHANGED <<waiting, wpc>>
       ELSE \E w \in waiting :
               /\ waiting' = waiting \ {w}
               /\ wpc' = [wpc EXCEPT ![w] = "loop"]
    /\ UNCHANGED <<running, tasks, job, conn, connections, opened, closed, shut>>

MustExit == ~running /\ tasks = <<>>

(* mutant of MayGoOn: the condition asks for a task only *)
MayGoOnWithTask == tasks # <<>>

(* the condition given to _cv.wait *)
MayGoOn == ~running \/ tasks # <<>>

(* The block of WorkerThread that holds _mutex *)
WorkerLoop(w) ==
    /\ wpc[w] = "loop"
    /\ \/ /\ ~MayGoOn
          /\ waiting' = waiting \cup {w}
          /\ wpc' = [wpc EXCEPT ![w] = "wait"]
          /\ UNCHANGED <<tasks, job>>
       \/ /\ MayGoOn
          /\ MustExit
          /\ wpc' = [wpc EXCEPT ![w] = "exit"]
          /\ UNCHANGED <<tasks, job, waiting>>
       \/ /\ MayGoOn
          /\ ~MustExit
          /\ job' = [job EXCEPT ![w] = Head(tasks)]
          /\ tasks' = Tail(tasks)
          /\ wpc' = [wpc EXCEPT ![w] = "acquire"]
          /\ UNCHANGED waiting
    /\ UNCHANGED <<running, conn, connections, opened, closed, shut>>

(* DbConnectionPool::Acquire, called by the constructor of DbConnection *)
Acquire(w) ==
    /\ wpc[w] = "acquire"
    /\ \/ /\ connections = <<>>
          /\ UNCHANGED <<conn, connections>>
       \/ /\ connections # <<>>
          /\ conn' = [conn EXCEPT ![w] = Head(connections)]
          /\ connections' = Tail(connections)
    /\ wpc' = [wpc EXCEPT ![w] = "run"]
    /\ UNCHANGED <<running, tasks, waiting, job, opened, closed, shut>>

(* The task returns: the destructor of DbConnection gives the connection    *)
(* back and the thread goes on with its loop.                               *)
TaskDone(w) ==
    /\ connections' = IF conn[w] = NoConn THEN connections ELSE Append(connections, conn[w])
    /\ conn' = [conn EXCEPT ![w] = NoConn]
    /\ job' = [job EXCEPT ![w] = NoTask]
    /\ wpc' = [wpc EXCEPT ![w] = "loop"]
    /\ UNCHANGED <<running, tasks, waiting, opened, closed, shut>>

-----------------------------------------------------------------------------
(* Shutdown, from the destructor of GameServer: _running is cleared under   *)
(* the mutex, all threads are woken and joined, the pool is emptied.        *)
ShutdownBegin ==
    /\ shut = "no"
    /\ running' = FALSE
    /\ shut' = "stopped"
    /\ UNCHANGED <<tasks, waiting, wpc, job, conn, connections, opened, closed>>

NotifyAll ==
    /\ shut = "stopped"
    /\ waiting' = {}
    /\ wpc' = [w \in Workers |-> IF w \in waiting THEN "loop" ELSE wpc[w]]
    /\ shut' = "joining"
    /\ UNCHANGED <<running, tasks, job, conn, connections, opened, closed>>

Join ==
    /\ shut = "joining"
    /\ \A w \in Workers : wpc[w] \in {"exit", "absent"}
    /\ shut' = "joined"
    /\ UNCHANGED <<running, tasks, waiting, wpc, job, conn, connections, opened, closed>>

PoolShutdown ==
    /\ shut = "joined"
    /\ closed' = closed \cup Range(connections)
    /\ connections' = <<>>
    /\ shut' = "done"
    /\ UNCHANGED <<running, tasks, waiting, wpc, job, conn, opened>>

DbNext ==
    \/ \E w \in Workers : WorkerLoop(w) \/ Acquire(w)
    \/ ShutdownBegin \/ NotifyAll \/ Join \/ PoolShutdown

-----------------------------------------------------------------------------
DbTypeOK ==
    /\ running \in BOOLEAN
    /\ waiting = {w \in Workers : wpc[w] = "wait"}
    /\ \A w \in Workers : wpc[w] \in {"absent", "loop", "wait", "acquire", "run", "exit"}
    /\ conn \in [Workers -> Conns \cup {NoConn}]
    /\ connections \in Seq(Conns)
    /\ opened \subseteq Conns
    /\ closed \subseteq Conns
    /\ shut \in {"no", "stopped", "joining", "joined", "done"}

(* The connections are neither lost nor shared: each one that was opened is *)
(* in the pool once, or with one worker, or closed, and is one of these.    *)
ConnsConserved ==
    \A c \in opened :
        Cardinality({i \in 1..Len(connections) : connections[i] = c})
        + Cardinality({w \in Workers : conn[w] = c})
        + (IF c \in closed THEN 1 ELSE 0) = 1

(* When Shutdown returns no task that was accepted is left behind, no       *)
(* worker runs or waits, and every connection has been closed.              *)
ShutdownClean ==
    shut = "done" =>
        /\ opened # {} => tasks = <<>>
        /\ \A w \in Workers : wpc[w] \in {"exit", "absent"}
        /\ closed = opened

=============================================================================
