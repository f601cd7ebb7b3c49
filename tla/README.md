# TLA+ specifications of DhNet

DhNet is a game server for Windows (C++17, I/O completion ports) with a stress-test
client, a console client and a small web front end. This directory holds TLA+ modules
that model its concurrent core, TLC configurations that check them on small instances,
and TLAPS proofs of the most important invariants. `PROJECT.json` lists, for every
definition, the source lines it models, and for every property, the run that checks it.

## The system and its parts

| Part | Source | Module | Status |
|---|---|---|---|
| Job queues, worker loop, global queue | `DhUtil/JobQueue.*`, `GlobalQueue.*`, `ThreadManager.*`, `LockQueue.h` | `JobQueue`, `SerialQueues` | modelled, proved |
| Reader/writer spin lock | `DhUtil/Lock.*` | `SpinLock` | modelled, proved |
| Receive buffer and packet loop | `ServerCore/RecvBuffer.*`, `Session::ProcessRecv` | `RecvBuffer`, `Framing` | modelled, proved |
| Session life cycle and I/O | `ServerCore/Session.*`, `Service.*`, `Listener.*`, `IocpCore.*` | `SessionIO` | modelled for one session, proved |
| Lobbies, rooms, players | `DhNet_Server/Lobby*`, `Room*`, `Player*`, `GameSession.cpp` | `Membership` | modelled but for chat and lists, proved |
| Send pool | `ServerCore/SendPool.*`, `Sender.*` | `SendPool`, `Blocks` | modelled, proved |
| Deadlock profiler | `DhUtil/DeadLockProfiler.*` | `LockOrder` | modelled |
| Database threads and login | `DhNet_Server/Db*`, `LoginController`, `GameSession::OnLoginResult` | `DbSystem`, `Login` | modelled without the SQL |
| Key exchange, wrapped packets, pings | `GameSession.cpp`, `DhNet_Client/ServerSession.cpp` | `Handshake`, `Login` | modelled without the cryptography |
| Stress test | `DhNet_StressTest/*` | `LoadTest`, `Handshake` | phases, pings and reports modelled |
| Admin interface, object pool | `AdminController.cpp`, `AdminGrpcServer.cpp`, `DhUtil/ObjectPool.h` | - | not modelled, see below |
| Console client, logging, settings, web, generated gRPC code | - | - | not modelled: console and file I/O, C#, generated code |

How they interact: the worker threads loop over `IocpCore::Dispatch` and
`ThreadManager::DoGlobalQueueWork`. A completion goes to its `Session`, whose packet loop
calls the handlers of the controllers; handlers post jobs to the `JobQueue` of a `Lobby` or
`Room`, and jobs are run by whichever thread becomes the executor of the queue. Database
and gRPC threads post one-off jobs. Everything that is shared and not a job is guarded by
the spin lock.

The modules follow that layering. `Membership` takes a job queue to be a sequence whose
jobs run one at a time, which is what `JobQueue` is shown to implement (`SerialQueues`).
`SessionIO` leaves the bytes to `RecvBuffer`. The sections of code under `WRITE_LOCK` are
single steps in all modules but `SpinLock`, which shows that the lock excludes, and
`SendPool`, which scans under the lock one flag at a time. `Login` composes `Handshake` and
`DbSystem`: both are extended by it, and a step of one leaves the variables of the other alone.

## The modules

**JobQueue.** State: `m_jobCount` and `m_jobs` of every queue, `GGlobalQueue`,
`LCurrentJobQueue`, and where every thread is inside `Push`, `Execute` and the worker
loop. One action per atomic access: `BeginPush` is the `fetch_add`, `Enqueue` the push
under the lock, `PushReturn`/`PushDelegate`/`PushExecute` the three ends of `Push`,
`PopAll`, `StartJob`, `FinishJob`, `ExecuteDrained`, `ExecuteAgain`, `ExecuteTimeUp` and
`Requeue` the steps of `Execute`, `GlobalPop` and `GlobalQuit` those of
`DoGlobalQueueWork`, `PushGlobalQueue` and `PushOneOff` those of the one-off queue. The
time slice is a nondeterministic choice. A job may post further jobs.
`SerialQueues` is the promise: jobs of a queue run in order, one at a time, once.

**SpinLock.** State: the two halves of `m_lockFlag`, `m_writeCount`, and where every guard
is in its constructor or destructor. Loads, exchanges and the unprotected accesses to
`m_writeCount` are separate steps. The lock timeout crashes the process, as in the code.
Guards are scoped, so they nest. `Lock.h` forbids a write under a read of the same thread; the
model follows it (`NoReadOver`), so that nothing is said of a thread that upgrades.

**RecvBuffer.** State: the buffer and its two cursors, the bytes received so far, the
packet last given to `OnRecv`. A byte is its position in the stream; `sizeOf` says which
size field a header at a given position carries. `Clean` moves data with `memcpy`; a move
of overlapping regions has any of the outcomes the build can produce. `Framing` is the
promise: whole packets, in order, once.

**SessionIO.** State: `m_connected`, membership in the service, the send queue and
`m_sendRegistered`, the owners of the four events, the outstanding operations, and where
each strand (a thread working for the session) is. Windows is external: an operation is
refused or is outstanding until its completion is dispatched, with data or without. A batch that
`WSASend` refuses is dropped, as in the code (`Dropped`); `tried` has all that `WSASend` was called
with, `refused` what it did not take.
`OnConnected` and `OnDisconnected` are reduced to the entry they make and remove.

**Membership.** State: connections, the `Player` of each session with its lobby and room,
`PlayerSystem`, and for each lobby or room the slots, the members and the queued jobs.
Handlers are split where another thread can interfere: slot reservation, posting, and the
reads and resets of `m_currentLobby` and `m_currentRoom` are separate steps. `client` is what a
client knows: those in `Patient` ask only when they have been told where they are (`Told`), and
note when they are sent nothing (`Ignored`); the others ask at any time (`"any"`). A connection may
end at any time, of either kind.

**SendPool.** State: `m_useFlag`, `m_useSize` (modulo 2^16, here `Width`), the fields and the use
count of every `Sender`, the lock, and where every thread is in `Alloc` and `DeAlloc`. A round of
the loop in `GetAllocIndex` is a step. `CopyRef` and `DropRef` are the copies of the `shared_ptr`
in queues and send events; the last drop runs `Sender::DeAlloc`, which resets the fields without
the lock, and then `SendPool::DeAlloc`, which clears the flags under it. An exhausted pool returns
null, and the callers crash. `Blocks` is the promise: disjoint blocks, given back whole.

**LockOrder.** State: names and recorded orders of the profiler, the lock stack of each thread,
and the locks held and waited for. `PushLock` with `CheckCycle` and `DFS` is one step, since it
runs under the profiler's mutex; `DFS` is a recursive operator that follows the code, and is
checked against reachability. Locks are known by the class that owns them, as in `WRITE_LOCK`.

**Handshake.** State: for each connection both ends (open, `m_handshakeDone`, cipher, place of the
handler), the packets on their way, and the ping thread. A packet is plain or wrapped, with its
kind. `m_handshakeDone` and the cipher are read and written in separate steps, since the ping runs
on another thread than the packet handler.

**DbSystem.** State: `_running`, the task queue, the threads that wait on `_cv`, where each worker
is, the connections in the pool and in use, and how far `Shutdown` is. Test and wait are one step,
as `std::condition_variable` promises; notifications are steps of their own after the unlock. Init
establishes any number of the connections asked for. `Shutdown` is reached in the code through
`~GameServer` only, which a server that runs does not come to; it is modelled as possible any time.

**Login.** The request, the refusals before the task, the task on a database thread, and
`OnLoginResult` up to the answer, split at `m_loginProcessed` and `IsConnected`. It takes from
`JobQueue` that what is given to `PushGlobalQueue` runs on the thread that gives it.

**LoadTest.** State: the `ScenarioState` of each session, answers on their way, what the main
thread has still to send, the counters, the history, and the threads in `ReportInterval` and
`WriteFinalReport`. Time is not modelled: an interval or timeout may be over whenever the loop
looks. Pings are numbered and echoed in order, which the code cannot see: `credits` records which
ping an echo was taken for. The server is external and answers late, more than once, or never.

Definitions whose comment begins with "mutant" are deliberately wrong variants of the
definition that follows them. No specification uses them; each shows that some property
notices the error.

## What TLC checks

| Run | Shows |
|---|---|
| `jobqueue` | `IndInv`: exact job count (`JobCountExact`), one holder of every queue (`OneHolder`), no stranded queue (`NotStranded`); refinement of `SerialQueues` with its fairness; every posted job is run |
| `spinlock` | `IndInv`: a writer is alone (`Exclusive`), unlocks never crash, counts are exact; a waiting guard gets the lock or the process dies in the timeout |
| `spinlock_grpc` | finding, see below |
| `recvbuffer` | `IndInv`: the bytes between the cursors are the stream, and there is room to receive (`RoomToReceive`); refinement of `Framing`; everything sent is handed over |
| `sessionio` | sessions of a server or client (`IndInv`, which implies `Consistent`): one disconnect, operations own the session, buffers stay allocated, messages tried in order, always listening but after an error that is only logged, no lost wake-up (`SendAwake` in `Consistent`, and `Sent`: a message is taken by the socket, refused with its batch, or overtaken by the disconnect); on the server hooks in order (`HooksInOrder` in `Consistent`) and a disconnected session is destroyed |
| `membership` | two sessions of one account, one of which waits for its answers, with disconnects anywhere: slots are exact (`SlotsExact`, and `IndInv`, which makes it inductive), so that reservations are honoured; the player who waits sits in one place (`OneSeat`); an account that plays is listed (`AccountListed`); who waits is told where it is or is one of those the code sends nothing (`Answered`) |
| `membership_ghost` | finding |
| `sendpool` | `IndInv`: flags and senders agree and no assertion fails (`NoAssert`); first fit; refinement of `Blocks` |
| `lockorder` | stacks agree with the locks held (`Consistent`); the search finds a cycle exactly when there is one and reports it (`SearchExact`); no circular wait of two classes (`DeadlockCaught`) |
| `login` | one result per session; the only packet refused is an early ping; cipher before flag, connections conserved and a clean shutdown (`Consistent`); accepted logins are answered when there is a connection; shutdown returns |
| `loadtest` | every ping counted once, an echo taken for a later ping only after a timeout (`OwnEcho`), retries bounded, reports add up and at most one final report is written, none if the file does not open (`Consistent`), no phase lasts for ever |
| `loadtest_shutdown` | finding |

In the modules with proofs the run checks the inductive invariant. The named invariants are its
conjuncts or are proved from it, and so have no line of their own in the configuration.
`Consistent` in the other modules joins the types with the agreements between variables that the
deeper properties rest on.

**Bounds.** Two workers and a helper thread, a long-lived and a one-off queue and three jobs let a
queue be drained, handed over and refilled while another is delegated from inside a job; the
invariants of that run are also proved without bounds. Three threads with up to two
guards of each kind give nesting and competition of a third. A buffer of
three packets of six bytes and a stream of 24 fills and moves the buffer several times;
packet sizes 1 (illegal with a header of 2), 3 and 5 leave every remainder. Two messages
and two threads beside the completion handlers let a send be queued before, during and
after a completion, and two threads disconnect at once. Two sessions of one account, a lobby with
two slots and a room with one reach a full room, a lobby without a free slot, a
duplicate id and moves between places; `AskBound` and `RoomBound` cut off requests and rooms, and
`OneSeat`, `SlotsExact` and `AccountListed` are also proved without bounds. Five chunks and
packets of one, two and three let runs be split, joined and cut off at the end of the pool, and a
`Width` of 7 makes the size wrap. Four locks of three classes, nested three deep by one thread and
two deep by another, close cycles of two and three classes and circles inside one class. One client
with two logins, two workers and none, one or two connections let two results race, a worker find
no connection and a login race the shutdown; logins of two clients at once are not covered, since
that instance has more than ten million states. One session of the load test has either two connections
and three pings, or three answers to room requests with one retry (`Loads`): late answers, answers
after the last retry and a reconnection with a ping in flight happen.

**Deadlock** checking is off where the system may stop: a process that crashed, a stream
that ended, a session that was destroyed, clients that ask no more, a database that was shut
down, a load test that has exited. It is on for the job
queues, whose workers always go round their loop.

**Fairness.** A thread that can take its next step takes it (weak fairness per thread):
the operating system schedules all of them and no lock is held forever. In `SpinLock` the
timeout has strong fairness, since the tick count goes on while a guard waits. In
`SessionIO`, sends and disconnects complete, and a receive completes once the session is
disconnected, as Windows cancels it; nothing obliges the peer to send, or other threads to
call. In `RecvBuffer`, what the peer sent arrives. In `Membership` one
weak fairness says that some strand or job goes on while one can (they are finitely many);
clients, answers of the database and disconnects are not fair. `LockOrder` states no liveness. In `Login` handlers, workers and a shutdown that have begun go
on; nothing is asked of clients, network or the one who stops the server. In `LoadTest` the main
loop visits every session in every round, which is strong fairness for `AdvanceScenario` (the
thread may be busy with another session each time a timeout is looked for), and reports that have
begun are finished. The churn of the stress test stops dispatching a service, so that
`Reclaimed` is stated for the server only.

## What is proved

TLAPS proves these for every value of the constants that satisfies the named assumptions.

- **`JobQueueHolders`, `JobQueueProofs`**: types, `OneExecutor`, `JobCountExact`, `OneHolder`,
  `NotStranded`, `OneOffInline` and the refinement `Spec => Serial!Spec` of `SerialQueues`, for any
  finite set of threads and any queues and jobs. None is inductive alone. `OneExecutor` depends on responsibility
  for a queue being in exactly one place, a thread between `fetch_add` and the end of
  `Push`, an executor, or an entry of `GGlobalQueue` (`OneHolder`), which in turn depends on
  the count being zero only when nobody holds the queue (`HeldHasJobs`) and on the count
  being exact (`JobCountExact`). The one-off queues break `HeldHasJobs`, since they are pushed
  to `GGlobalQueue` after they may have been drained, and have conjuncts of their own
  (`OneOffs...`); `OneOffsSpent`, that such a queue and the batch of its thread are empty once its
  job has run, gives `OneOffInline`. `IndInv` collects them. The first module has the lemmas on
  who holds a queue for the steps of `Push` and `PopAll`; the second has those of `Execute` and of the
  worker loop, then the counting, with one lemma per action, and the theorems. The refinement rests on
  `OneExecutor`, by which the jobs of the abstract queue are those of one executor and then those in
  `m_jobs`, and on `JobsOnce`: a job that is about to be enqueued is with one thread and nowhere else.
- **`SpinLockProofs`**: types, mutual exclusion (`Exclusive`), no crash in an unlock, exact
  counts, for any threads with distinct non-zero ids (`InitTLS`, a hypothesis of the theorems)
  and any finite set of guards. The invariant adds that the owner field agrees with the guards
  (`OwnerExact`), that a thread is inside one guard operation at a time (`OneAtATime`), and
  nesting (`GuardsAgree`).
- **`RecvBufferProofs`**: types (cursors in range), `MoveIsDefined`, `RoomToReceive`, and the
  refinement `Spec => Frames!Spec`, for any sizes with at least three buffer units and a header
  no larger than a unit. The invariant says that the bytes between the cursors are the stream
  after the packets consumed, and that less than one packet is left after `Clean`. That is where
  the factor three is needed: with less than a unit free and less than a packet left, the read
  cursor is past the data that is moved.
- **`SendPoolProofs`**: `FlagsExact`, `NoAssert`, `Fits`, `FirstFit` and the
  refinement `Spec => Abstract!Spec` of `Blocks`, for any threads, any number of chunks, any chunk
  size and any packet sizes below 2^16. The invariant has the loop invariant of the search (the run
  that ends at the current flag is free, and no long enough run begins before it), which flags keep
  because they change only under the lock; the fields of a `Sender` in use; and the ownership of a
  `Sender` between its last user and the pool: the thread in `Sender::DeAlloc` is alone with it, and
  while its fields are reset and its flags still set, the run is the thread's. That is why an
  allocation never finds a `Sender` that is not reset.
- **`SessionIOProofs`**: `NoCrash`, `KeptAlive`, `InOrder`, `Listening` and `Consistent`, for any
  threads and messages. That no completion finds its event without an owner depends on who has the
  turn to send, the strand with the lock, the operation or its completion (`Sending`), on the receive
  being posted by one strand (`Receiving`), on `Disconnect` being entered once (`Disconnecting`), and on
  nobody reaching the session before `AddSession` (`Unopened`, `Starting`).

- **`MembershipProofs`**: `SlotsExact`, `RoomForReserved` (a seat is free when the Enter job of a
  room runs) and `AccountListed`, for any finite sets of sessions and login answers, any accounts, sizes and bounds, and
  any clients. `SlotsExact` adds up four numbers, and every step moves one between them. That the
  moves balance needs `AtAgrees` (a strand posts its Enter job to the place whose slot it took),
  `DiscOnce` (`OnDisconnected` starts once, so that a refused login does not overwrite it) and
  `OneOfId` (a place has a player id once, so that Leave, which erases by id, takes out one member for
  the slot it gives back); `IndInv` joins them with the types.
- **`MembershipSeatProofs`**: `OneSeat`, with any sessions, accounts, sizes and bounds, for the clients that
  wait for their answers, beside others that do not, and with connections that end at any time. Members
  change long after the step that decided how, so `SeatInv` says what is decided: one strand at a time
  works for such a session, besides the one that disconnects it (`OneStrand`); while its Enter job or the
  broadcast after it waits, none does, no other such job waits, and while it is connected no Leave job
  waits behind (`JobsWait`); when the posted jobs have run it is in one place at most, in none while a
  strand looks for the next, and its pointer names that place when the next Leave is posted (`Seated`).
  The disconnect may post a second Leave, and reset a pointer under the strand; neither makes a seat.

Only model-checked: all liveness properties (fairness and leads-to are outside the prover's
reach), `LockOrder` (its search is recursive), and, because no proofs have been written, `Login` with `Handshake` and `DbSystem`, and `LoadTest`.

## Findings

- `spinlock_grpc`: a thread that never ran `ThreadManager::InitTLS` has id 0, which is the value
  of a free owner field. It passes the re-entry test on a free lock, and two threads hold the
  write lock together. The gRPC threads reach locks that way.
- `membership_ghost`: a player whose session is disconnected while the Enter job waits can become
  a member after `OnDisconnected`, and then stays.
- `loadtest_shutdown`: the final report misses an interval when the console handler writes it while the
  main thread has taken a snapshot and not yet added it to the history. The comments at `main.cpp:75`
  and `ReportManager.cpp:62` say that nothing is lost.

Other observations: places where the code does not do what a comment or `src/README.md` says, or
leaves something behind. They have no run of their own; the hazards that mention them say which
property, if any, states what holds instead.

- A job given to `PushGlobalQueue` by a database or gRPC thread runs on that thread before the call
  returns (`OneOffInline`), although `ThreadManager.h:25`, `GameSession.h:32` and `src/README.md:66` and
  `262` say that a logic thread runs it.
- A disconnect between the `IsConnected` test of `OnLoginResult` and `SetPlayer` leaves an entry in
  `PlayerSystem`, against `src/README.md:311`. No property excludes it.
- `PlayerSystem::Add` keeps the entry of an earlier session of the same account: the second session is
  online and not listed, against `src/README.md:131`. `AccountListed` is about the account.
- A client is sent nothing when no lobby has a slot for it or its id is in the lobby already, although
  `src/README.md:272-275` and `298-300` show a `ResLobbyEnter` after a login and a room. `Answered`
  excepts these cases by name.
- A batch that `WSASend` refuses with an error other than a reset is lost, and the session goes on.
- `ClientService::End` can disconnect a session between `AddSession` and `OnConnected`; the stress
  test's registry then keeps the state of a destroyed session. `HooksInOrder` is for the server.
- The first ping of the load test is due at once. Sent before the key exchange is done it is plain,
  and the server disconnects the client with "ProtocolViolation" (`RefusesOnlyEarlyPing`).
- Without a database connection no worker is started and a login is never answered, although the log
  says that logins will be rejected (`DbSystem.cpp:20`). With some of the connections, as many workers
  as configured are started, although the comment speaks of the actual pool size, "so every thread has
  a connection" (`DbSystem.cpp:22`). A right password may then be refused.
- A late answer takes a session of the load test out of `Stuck`, which `ScenarioState.h:13` says is
  final. A late echo that `ScenarioHandlers.cpp:211` says is ignored ends the next ping if that is in
  flight, with too short a time (`OwnEcho`).
- `Service::BroadCast` takes the locks of service and session in the opposite order to a failing
  send; a debug build stops in the profiler, a release build in the lock timeout.

## Not modelled

- Logging, settings, start-up and the console (I/O without shared state), packet layouts, the C# web
  front end, and the cryptography.
- The source tree also has vendored headers (`Tools/include`: abseil, c-ares, gRPC, protobuf, OpenSSL, zlib) and
  generated code (`DhNet_Ipc`). They are by far most of its lines and are no part of the design, so
  the share of all lines that `PROJECT.json` maps is below one percent. Of the 6900 lines of DhNet's
  own C++, headers and packet layouts included, about 2100 are mapped.
- Admin interface: its requests copy lists, post a broadcast or disconnect a session, which are steps
  of `Membership` and `SessionIO`. `DispatchToLogicThreadWithTimeout` waits for a one-off job that has
  run on the waiting thread already, so that its timeout is not reached.
- Object pool: a queue of free objects under one lock. Its clients are not told apart from `new`.
- Churn of services in the stress test: the main thread erases services from a vector that dispatch
  threads read without a lock, so that any outcome is possible.
- `Service::BroadCast` over several sessions (its locks are an instance of `LockOrder`), `StartAccept`,
  chat and lists, the latency histogram, the SQL, `JobQueue::ClearJobs` and `LockQueue::Clear`, which
  have no caller.
- Counters of the job queue and the lock are unbounded naturals, since the code cannot have 2^16
  guards or 2^31 jobs at once.
- `m_useSize` of the send pool is kept modulo 2^16, as in the code. `Init` tests it before the first
  allocation and `GetUsableSize` has no caller, so no property is stated of it.
