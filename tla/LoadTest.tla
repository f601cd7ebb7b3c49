------------------------------ MODULE LoadTest ------------------------------
(***************************************************************************)
(* The load-test client: the scenario of each session (lobby, room, lobby,  *)
(* ...) with its timeouts and retries, the pings, the metrics and the       *)
(* reports.  ScenarioHandlers.cpp, ScenarioStateRegistry.cpp,               *)
(* MetricsAggregator.cpp, ReportManager.cpp and the loop of main.cpp.       *)
(*                                                                         *)
(* What Apply runs under the lock of the registry is one step, and so is    *)
(* one operation of MetricsAggregator; sends and records happen after the   *)
(* lock is given up, in steps of their own.  Time is not modelled: an       *)
(* interval or a timeout may be over whenever the loop looks at it.  Since  *)
(* pingTimeoutMs is not less than pingIntervalMs, a ping that timed out is  *)
(* followed by the next in the same call.  The server is external: it       *)
(* answers a request at any later time, or not at all.                      *)
(***************************************************************************)
EXTENDS Integers, Sequences, FiniteSets

CONSTANTS
    Sessions,
    LobbyChatCount, RoomChatCount, MaxRetries,  \* g_scenarioConfig
    Loads       \* how much may happen in a behaviour: sets of three bounds,
                \* connects, pings, and answers to room requests

ASSUME LoadsAssumption == Loads \subseteq [connects : Nat, pings : Nat, answers : Nat]

VARIABLES
    load,       \* the bounds of this behaviour
    state,      \* m_states: the ScenarioState of each registered session
    inbox,      \* answers on their way, by kind; echoes as the pings they answer
    main,       \* what the main thread has to do after Apply: session and acts
    handler,    \* the dispatch thread of each session: must it record an RTT?
    metrics,    \* MetricsAggregator
    history,    \* m_history, summed up
    rpc, hand,  \* a thread in ReportInterval or WriteFinalReport, its snapshot
    shutting,   \* s_shuttingDown
    file,       \* the report that was written
    exited,     \* ExitProcess
    connects, pings, answers,   \* how much of the bounds is used
    recorded,   \* auxiliary: everything that was ever recorded
    dropped,    \* auxiliary: pings of sessions that were unregistered
    lagging,    \* auxiliary: the sessions that had a ping time out
    credits,    \* auxiliary: the RTTs: the ping, the echo, was the session lagging?
    requests,   \* auxiliary: room requests, by kind, since the last answer
    atStart     \* auxiliary: recorded, when the shutdown began

counters == <<metrics, history, recorded>>
audit == <<dropped, lagging, credits>>
reports == <<rpc, hand, shutting, file, exited, atStart>>
vars == <<load, state, inbox, main, handler, counters, reports, connects, pings, answers, audit, requests>>

Threads == {"main", "console"}
Zero == [success |-> 0, timeout |-> 0, stuck |-> 0]
Plus(a, b) == [k \in DOMAIN Zero |-> a[k] + b[k]]
None == [phase |-> "None", chats |-> 0, retries |-> 0, ping |-> 0]
NoMail == [lobby |-> 0, room |-> 0, echo |-> <<>>]
Nothing == [session |-> CHOOSE s \in Sessions : TRUE, todo |-> <<>>]
Registered(s) == state[s] # None
NoRequests == [room |-> 0, lobby |-> 0]

Init ==
    /\ load \in Loads
    /\ state = [s \in Sessions |-> None]
    /\ inbox = [s \in Sessions |-> NoMail]
    /\ main = Nothing
    /\ handler = [s \in Sessions |-> "idle"]
    /\ metrics = Zero /\ history = Zero /\ recorded = Zero
    /\ rpc = [t \in Threads |-> "idle"]
    /\ hand = [t \in Threads |-> Zero]
    /\ shutting = FALSE /\ file = <<>> /\ exited = FALSE /\ atStart = Zero
    /\ connects = 0 /\ pings = 0 /\ answers = 0
    /\ dropped = 0 /\ lagging = {} /\ credits = {}
    /\ requests = [s \in Sessions |-> NoRequests]

-----------------------------------------------------------------------------
(* MetricsAggregator: RecordRtt, RecordTimeout, RecordStuck *)
Record(kind) ==
    /\ metrics' = [metrics EXCEPT ![kind] = @ + 1]
    /\ recorded' = [recorded EXCEPT ![kind] = @ + 1]
    /\ UNCHANGED history

(* external: the server promises an answer to a request of this kind, or none *)
Promise(s, kind) ==
    \/ UNCHANGED <<inbox, answers>>
    \/ /\ answers < load.answers
       /\ inbox' = [inbox EXCEPT ![s][kind] = @ + 1]
       /\ answers' = answers + 1

(* Register, called when the connection stands; after the login the server  *)
(* answers with Res_LobbyEnter.  A new connection is a new session: a name  *)
(* is used again when no thread is busy with the old one.                   *)
Register(s) ==
    /\ ~Registered(s)
    /\ handler[s] = "idle"
    /\ main.todo = <<>> \/ main.session # s
    /\ connects < load.connects
    /\ connects' = connects + 1
    /\ state' = [state EXCEPT ![s] = [None EXCEPT !.phase = "Handshaking"]]
    /\ Promise(s, "lobby")
    /\ UNCHANGED <<load, main, handler, counters, reports, pings, audit, requests>>

(* Unregister, when the connection ends or the service is replaced *)
Unregister(s) ==
    /\ Registered(s)
    /\ dropped' = dropped + (IF state[s].ping # 0 THEN 1 ELSE 0)
    /\ lagging' = lagging \ {s}
    /\ state' = [state EXCEPT ![s] = None]
    /\ inbox' = [inbox EXCEPT ![s] = NoMail]
    /\ requests' = [requests EXCEPT ![s] = NoRequests]
    /\ UNCHANGED <<load, main, handler, counters, reports, connects, pings, answers, credits>>

-----------------------------------------------------------------------------
(* A packet reaches its handler; one handler runs per session *)
Ready(s) == Registered(s) /\ handler[s] = "idle"

(* Scenario_HandleResLobbyEnterPacket, Scenario_HandleNotiRoomEnterPacket:   *)
(* whatever the phase was.                                                  *)
Arrive(s, kind, phase) ==
    /\ Ready(s)
    /\ inbox[s][kind] > 0
    /\ inbox' = [inbox EXCEPT ![s][kind] = @ - 1]
    /\ state' = [state EXCEPT ![s].phase = phase, ![s].chats = 0]
    /\ requests' = [requests EXCEPT ![s] = NoRequests]
    /\ UNCHANGED <<load, main, handler, counters, reports, connects, pings, answers, audit>>

HandleResLobbyEnter(s) == Arrive(s, "lobby", "InLobby")
HandleNotiRoomEnter(s) == Arrive(s, "room", "InRoom")

(* An echo; the pings of a session are echoed in the order they were sent *)
GetsEcho(s) ==
    /\ Ready(s)
    /\ inbox[s].echo # <<>>
    /\ inbox' = [inbox EXCEPT ![s].echo = Tail(@)]

(* mutant of HandleResTest: an answer without a ping in flight counts too *)
HandleResTestLate(s) ==
    /\ GetsEcho(s)
    /\ handler' = [handler EXCEPT ![s] = "record"]
    /\ state' = [state EXCEPT ![s].ping = 0]
    /\ UNCHANGED <<load, main, counters, reports, connects, pings, answers, audit, requests>>

(* Scenario_HandleResTestPacket, under the lock: an answer without a ping   *)
(* in flight is ignored.  With one in flight it is taken for its answer:    *)
(* the packet does not say which ping it answers.                           *)
HandleResTest(s) ==
    LET ping == state[s].ping
        rtt  == [ping |-> ping, echo |-> Head(inbox[s].echo), lagging |-> s \in lagging]
    IN  /\ GetsEcho(s)
        /\ IF ping = 0
           THEN UNCHANGED <<handler, credits>>
           ELSE handler' = [handler EXCEPT ![s] = "record"] /\ credits' = credits \cup {rtt}
        /\ state' = [state EXCEPT ![s].ping = 0]
        /\ UNCHANGED <<load, main, counters, reports, connects, pings, answers, dropped, lagging, requests>>

RecordRtt(s) ==
    /\ handler[s] = "record"
    /\ Record("success")
    /\ handler' = [handler EXCEPT ![s] = "idle"]
    /\ UNCHANGED <<load, state, inbox, main, reports, connects, pings, answers, audit, requests>>

-----------------------------------------------------------------------------
(* The main thread is at the head of its loop, or between two sessions *)
MainFree == main.todo = <<>> /\ rpc["main"] = "idle"

Do(s, acts) == main' = IF acts = <<>> THEN Nothing ELSE [session |-> s, todo |-> acts]

(* mutant of Retry: after the last retry the phase is kept *)
RetryNoStuck(s, act) ==
    IF state[s].retries >= MaxRetries THEN UNCHANGED <<state, main>>
    ELSE state' = [state EXCEPT ![s].retries = @ + 1] /\ Do(s, <<act>>)

(* mutant of Retry: one retry too many *)
RetryOneMore(s, act) ==
    IF state[s].retries > MaxRetries
    THEN state' = [state EXCEPT ![s].phase = "Stuck"] /\ Do(s, <<"stuck">>)
    ELSE state' = [state EXCEPT ![s].retries = @ + 1] /\ Do(s, <<act>>)

(* A request was not answered in time: again, or give up *)
Retry(s, act) ==
    IF state[s].retries >= MaxRetries
    THEN /\ state' = [state EXCEPT ![s].phase = "Stuck"]
         /\ Do(s, <<"stuck">>)
    ELSE /\ state' = [state EXCEPT ![s].retries = @ + 1]
         /\ Do(s, <<act>>)

(* Chats in a lobby or a room, then the request that leads out of it.  The  *)
(* chat itself is not answered.                                             *)
ChatThen(s, count, act, phase) ==
    IF state[s].chats < count
    THEN /\ state' = [state EXCEPT ![s].chats = @ + 1]
         /\ UNCHANGED main
    ELSE /\ state' = [state EXCEPT ![s].phase = phase, ![s].retries = 0]
         /\ Do(s, <<act>>)

(* AdvanceScenario, under the lock, when the interval or the timeout of the *)
(* phase is over                                                            *)
AdvanceScenario(s) ==
    /\ MainFree
    /\ \/ state[s].phase = "InLobby" /\ ChatThen(s, LobbyChatCount, "room", "AwaitingRoomEnter")
       \/ state[s].phase = "AwaitingRoomEnter" /\ Retry(s, "room")
       \/ state[s].phase = "InRoom" /\ ChatThen(s, RoomChatCount, "lobby", "AwaitingRoomExit")
       \/ state[s].phase = "AwaitingRoomExit" /\ Retry(s, "lobby")
    /\ UNCHANGED <<load, inbox, handler, counters, reports, connects, pings, answers, audit, requests>>

(* mutant of AdvancePing: the next ping is sent whether or not the last one *)
(* is in flight                                                             *)
AdvancePingEager(s) ==
    /\ MainFree
    /\ Registered(s)
    /\ pings < load.pings
    /\ pings' = pings + 1
    /\ state' = [state EXCEPT ![s].ping = pings']
    /\ Do(s, <<"ping">>)
    /\ UNCHANGED <<load, inbox, handler, counters, reports, connects, answers, audit, requests>>

(* AdvancePing, under the lock, when the ping is due or has timed out *)
AdvancePing(s) ==
    /\ MainFree
    /\ Registered(s)
    /\ pings < load.pings
    /\ pings' = pings + 1
    /\ state' = [state EXCEPT ![s].ping = pings']
    /\ IF state[s].ping # 0
       THEN Do(s, <<"timeout", "ping">>) /\ lagging' = lagging \cup {s}
       ELSE Do(s, <<"ping">>) /\ UNCHANGED lagging
    /\ UNCHANGED <<load, inbox, handler, counters, reports, connects, answers, dropped, credits, requests>>

(* What AdvanceScenario and AdvancePing do after Apply: record or send.  A  *)
(* packet of a session that has gone is not sent.                           *)
MainAct ==
    LET s == main.session
        act == Head(main.todo)
    IN  /\ main.todo # <<>>
        /\ Do(s, Tail(main.todo))
        /\ \/ /\ act \in {"timeout", "stuck"}
              /\ Record(act)
              /\ UNCHANGED <<inbox, answers, requests>>
           \/ /\ act = "ping"
              /\ \/ UNCHANGED inbox
                 \/ Registered(s) /\ inbox' = [inbox EXCEPT ![s].echo = Append(@, pings)]
              /\ UNCHANGED <<counters, answers, requests>>
           \/ /\ act \in {"room", "lobby"}
              /\ IF Registered(s)
                 THEN /\ Promise(s, act)
                      /\ requests' = [requests EXCEPT ![s][act] = @ + 1]
                 ELSE UNCHANGED <<inbox, answers, requests>>
              /\ UNCHANGED counters
        /\ UNCHANGED <<load, state, handler, reports, connects, pings, audit>>

-----------------------------------------------------------------------------
scenario == <<load, state, inbox, main, handler, connects, pings, answers, audit, requests>>

At(t, from, to) == rpc[t] = from /\ rpc' = [rpc EXCEPT ![t] = to]

(* The periodic ReportInterval of the main thread *)
StartInterval ==
    /\ MainFree
    /\ At("main", "idle", "snapshot")
    /\ UNCHANGED <<scenario, counters, hand, shutting, file, exited, atStart>>

(* GracefulShutdown: from the loop when the time is over, from the handler  *)
(* of the console at any time; the first call does it.                      *)
GracefulShutdown(t) ==
    /\ t = "main" => MainFree
    /\ ~shutting
    /\ At(t, "idle", "lastSnapshot")
    /\ shutting' = TRUE
    /\ atStart' = recorded
    /\ UNCHANGED <<scenario, counters, hand, file, exited>>

(* mutant of GetSnapshotAndReset: the counters are not reset *)
GetSnapshotOnly(t) ==
    /\ At(t, "snapshot", "push") \/ At(t, "lastSnapshot", "lastPush")
    /\ hand' = [hand EXCEPT ![t] = metrics]
    /\ UNCHANGED <<scenario, counters, shutting, file, exited, atStart>>

GetSnapshotAndReset(t) ==
    /\ At(t, "snapshot", "push") \/ At(t, "lastSnapshot", "lastPush")
    /\ hand' = [hand EXCEPT ![t] = metrics]
    /\ metrics' = Zero
    /\ UNCHANGED <<scenario, history, recorded, shutting, file, exited, atStart>>

(* The rest of ReportInterval *)
PushHistory(t) ==
    /\ At(t, "push", "idle") \/ At(t, "lastPush", "write")
    /\ history' = Plus(history, hand[t])
    /\ hand' = [hand EXCEPT ![t] = Zero]
    /\ UNCHANGED <<scenario, metrics, recorded, shutting, file, exited, atStart>>

(* WriteFinalReport copies the history and writes it, unless the file does  *)
(* not open.                                                                *)
WriteFile(t) ==
    /\ At(t, "write", "exit")
    /\ file' = Append(file, history) \/ UNCHANGED file
    /\ UNCHANGED <<scenario, counters, hand, shutting, exited, atStart>>

ExitProcess(t) ==
    /\ rpc[t] = "exit"
    /\ exited' = TRUE
    /\ UNCHANGED <<scenario, counters, rpc, hand, shutting, file, atStart>>

Report(t) == GetSnapshotAndReset(t) \/ PushHistory(t) \/ WriteFile(t) \/ ExitProcess(t)

Step(s) ==
    \/ Register(s) \/ Unregister(s)
    \/ HandleResLobbyEnter(s) \/ HandleNotiRoomEnter(s) \/ HandleResTest(s) \/ RecordRtt(s)
    \/ AdvanceScenario(s) \/ AdvancePing(s)

Next ==
    /\ ~exited
    /\ \/ \E s \in Sessions : Step(s)
       \/ MainAct \/ StartInterval
       \/ \E t \in Threads : GracefulShutdown(t) \/ Report(t)

Spec == Init /\ [][Next]_vars

(* The main loop visits every session in every round, and time passes; a    *)
(* report that was begun is finished.  Nothing is asked of the server, of   *)
(* the connections or of the user.                                          *)
FairSpec ==
    /\ Spec
    /\ \A s \in Sessions : SF_vars(~exited /\ AdvanceScenario(s))
    /\ WF_vars(~exited /\ MainAct)
    /\ \A t \in Threads : WF_vars(~exited /\ Report(t))

-----------------------------------------------------------------------------
Phases == {"None", "Handshaking", "InLobby", "AwaitingRoomEnter", "InRoom", "AwaitingRoomExit", "Stuck"}

TypeOK ==
    /\ \A s \in Sessions :
          /\ state[s].phase \in Phases
          /\ state[s].chats \in 0..(IF LobbyChatCount > RoomChatCount THEN LobbyChatCount ELSE RoomChatCount)
          /\ state[s].retries \in 0..MaxRetries
    /\ Len(main.todo) <= 2

(* Every ping is counted once: as answered or timed out, unless it is in    *)
(* flight or was given up with its session.  An answer that finds no ping   *)
(* in flight adds no success (ScenarioHandlers.cpp:210), and a ping that    *)
(* timed out is not forgotten (ScenarioHandlers.cpp:233).  Which ping an    *)
(* answer is counted for is the matter of OwnEcho.                          *)
PingsConserved ==
    pings = recorded.success + recorded.timeout + dropped
            + Cardinality({s \in Sessions : state[s].ping # 0})
            + Cardinality({s \in Sessions : handler[s] = "record"})
            + (IF main.todo # <<>> /\ Head(main.todo) = "timeout" THEN 1 ELSE 0)

(* An RTT is the time of a ping and its own answer, as long as no ping of   *)
(* the connection has timed out.  After a timeout the late answer is not    *)
(* ignored, as ScenarioHandlers.cpp:211 has it: it ends the ping that is    *)
(* in flight by then, the RTT comes out too short, and the answers may stay *)
(* behind the pings for the rest of the connection; but an answer is never  *)
(* taken for that of an earlier ping.                                       *)
OwnEcho ==
    \A rtt \in credits : rtt.echo <= rtt.ping /\ (~rtt.lagging => rtt.echo = rtt.ping)

(* The server does not handle Req_RoomEnter idempotently, so the retries    *)
(* are limited (comment at ScenarioHandlers.cpp:113): between two answers a session *)
(* sends one request and MaxRetries retries of a kind at most, and one that *)
(* was decided on before the earlier answer came and sent after it.         *)
RetriesBounded ==
    \A s \in Sessions : requests[s].room <= 2 + MaxRetries /\ requests[s].lobby <= 2 + MaxRetries

(* What was recorded is in the history, in the counters or in the hands of  *)
(* one thread that reports, exactly once (MetricsAggregator.cpp:54,         *)
(* ReportManager.cpp:40).                                                   *)
ReportsAddUp ==
    recorded = Plus(Plus(history, metrics), Plus(hand["main"], hand["console"]))

(* GracefulShutdown runs once, whoever calls it first (main.cpp:82); there  *)
(* is no file at all when it does not open.                                 *)
OneFinalReport == Len(file) <= 1

(* The counters, the history and the file agree with what was recorded. *)
Consistent == TypeOK /\ ReportsAddUp /\ OneFinalReport

(* The report is not lost whichever way the program ends (comment at        *)
(* main.cpp:75), nor is the last, unfinished interval (comment at           *)
(* ReportManager.cpp:62): all that was recorded before the shutdown is in   *)
(* the file.                                                                *)
FinalReportComplete ==
    \A i \in 1..Len(file) : \A k \in DOMAIN Zero : file[i][k] >= atStart[k]

(* A session does not stay in a phase that AdvanceScenario serves: without  *)
(* an answer it retries and then gives up (ScenarioHandlers.cpp:111-164).   *)
PhaseEnds ==
    \A s \in Sessions, p \in {"InLobby", "AwaitingRoomEnter", "InRoom", "AwaitingRoomExit"} :
        state[s].phase = p ~> state[s].phase # p \/ exited

=============================================================================
