----------------------------- MODULE SessionIO -----------------------------
(***************************************************************************)
(* The life of a Session (Session.cpp, with Service, Listener and          *)
(* IocpCore): it is accepted or connected, has at most one receive and one *)
(* send outstanding, is disconnected once, and is destroyed when nothing   *)
(* refers to it any more.                                                  *)
(*                                                                         *)
(* The threads are strands: "recv" is the thread that handles the last     *)
(* accept, connect or receive completion, "send" the one that handles the  *)
(* last send completion, and Apps are other threads that send to the       *)
(* session or disconnect it (jobs, broadcasts, the admin).  Sockets and    *)
(* the completion port are external: an operation is refused, or it is     *)
(* outstanding until its completion is dispatched.                         *)
(*                                                                         *)
(* What arrives is the matter of module RecvBuffer.                        *)
(***************************************************************************)
EXTENDS Naturals, Sequences, FiniteSets

CONSTANTS
  Apps,      \* threads that use the session
  Msgs,      \* Senders, each sent at most once
  None

ASSUME NamesAssumption ==
  {"recv", "send"} \cap Apps = {} /\ None \notin Apps \cup {"recv", "send"}

Strands == {"recv", "send"} \cup Apps

\* The overlapped operations; "open" is AcceptEx or ConnectEx.
Events == {"open", "recv", "send", "disc"}

VARIABLES
  isServer,    \* m_isServerService: of a ServerService, or of a ClientService
  connected,   \* m_connected
  inService,   \* in Service::m_sessions
  opened,      \* history: OnConnected has been called
  closed,      \* history: OnDisconnected has been called
  known,       \* the entry that OnConnected adds and OnDisconnected removes, in
               \* GameSessionSystem or in ScenarioStateRegistry
  queue,       \* m_senderQueue
  registered,  \* m_sendRegistered
  senders,     \* m_sendEvent.m_senders
  lock,        \* the strand that holds the session's lock, or None
  owner,       \* owner[e]: m_owner of the event, for "open" also m_session
  io,          \* io[e]: operations outstanding
  flight,      \* the buffers given to the last WSASend
  pc,          \* where a strand is
  dpc,         \* where a strand is inside Disconnect
  alive,       \* the object exists
  crashed,     \* an ASSERT_CRASH, or an event without owner
  pushed,      \* history: the messages passed to Send
  tried,       \* history: the messages passed to WSASend
  refused,     \* history: those of them that WSASend refused, and that are dropped
  deaf,        \* history: RegisterRecv gave up without a disconnect
  kicked       \* the threads that have called Disconnect

stateVars == <<connected, inService, opened, closed, known, alive, crashed>>
sendVars  == <<queue, registered, senders, lock, flight, pushed, tried, refused>>
eventVars == <<owner, io>>
vars == <<stateVars, sendVars, eventVars, pc, dpc, deaf, kicked, isServer>>

Init ==
  /\ isServer \in BOOLEAN
  /\ connected = FALSE /\ inService = FALSE /\ opened = FALSE /\ closed = FALSE
  /\ known = FALSE
  /\ queue = <<>> /\ registered = FALSE /\ senders = <<>> /\ lock = None
  /\ flight = <<>> /\ pushed = <<>> /\ tried = <<>> /\ refused = {}
  /\ owner = [e \in Events |-> e = "open"]
  /\ io = [e \in Events |-> IF e = "open" THEN 1 ELSE 0]
  /\ pc = [t \in Strands |-> "none"]
  /\ dpc = [t \in Strands |-> "none"]
  /\ alive = TRUE /\ crashed = FALSE /\ deaf = FALSE
  /\ kicked = {}

At(t, label) == ~crashed /\ pc[t] = label /\ dpc[t] = "none"
Goto(t, label) == pc' = [pc EXCEPT ![t] = label]
-----------------------------------------------------------------------------
(* Session::Disconnect.  The caller goes on when it is over. *)

\* Mutant: m_connected is loaded and stored, without a test of the old value.
CallDisconnectAlways(t) ==
  /\ connected' = FALSE
  /\ dpc' = [dpc EXCEPT ![t] = "notify"]

\* m_connected.exchange(false); the first caller does the rest.
CallDisconnect(t) ==
  /\ connected' = FALSE
  /\ dpc' = IF connected THEN [dpc EXCEPT ![t] = "notify"] ELSE dpc

OnDisconnected(t) ==
  /\ ~crashed /\ dpc[t] = "notify"
  /\ closed' = TRUE /\ known' = FALSE
  /\ dpc' = [dpc EXCEPT ![t] = "release"]
  /\ UNCHANGED <<connected, inService, opened, alive, crashed, sendVars, eventVars, pc, deaf, kicked, isServer>>

\* Service::ReleaseSession asserts that the session was there.
ReleaseSession(t) ==
  /\ ~crashed /\ dpc[t] = "release"
  /\ crashed' = ~inService
  /\ inService' = FALSE
  /\ dpc' = [dpc EXCEPT ![t] = "register"]
  /\ UNCHANGED <<connected, opened, closed, known, alive, sendVars, eventVars, pc, deaf, kicked, isServer>>

\* DisconnectEx is outstanding, or is refused.
RegisterDisconnect(t) ==
  /\ ~crashed /\ dpc[t] = "register"
  /\ dpc' = [dpc EXCEPT ![t] = "none"]
  /\ \/ /\ owner' = [owner EXCEPT !["disc"] = TRUE]
        /\ io' = [io EXCEPT !["disc"] = @ + 1]
     \/ /\ owner' = [owner EXCEPT !["disc"] = FALSE]
        /\ UNCHANGED io
  /\ UNCHANGED <<stateVars, sendVars, pc, deaf, kicked, isServer>>

ProcessDisconnect ==
  /\ ~crashed /\ io["disc"] > 0
  /\ crashed' = ~owner["disc"]
  /\ io' = [io EXCEPT !["disc"] = @ - 1]
  /\ owner' = [owner EXCEPT !["disc"] = FALSE]
  /\ UNCHANGED <<connected, inService, opened, closed, known, alive, sendVars, pc, dpc, deaf, kicked, isServer>>

\* After the last call of a handler.
Quit(t) ==
  /\ At(t, "quit")
  /\ Goto(t, "none")
  /\ owner' = IF t = "recv" THEN [owner EXCEPT !["open"] = FALSE] ELSE owner
  /\ UNCHANGED <<stateVars, sendVars, io, dpc, deaf, kicked, isServer>>
-----------------------------------------------------------------------------
(* Listener::ProcessAccept or a ConnectEx completion, then ProcessConnect. *)

\* The event of a connect lets go of the session; the one of an accept keeps
\* it until the next RegisterAccept, after ProcessConnect.
ProcessConnect ==
  /\ At("recv", "none") /\ io["open"] > 0
  /\ io' = [io EXCEPT !["open"] = 0]
  /\ owner' = [owner EXCEPT !["open"] = isServer]
  /\ connected' = TRUE
  /\ Goto("recv", "add")
  /\ UNCHANGED <<inService, opened, closed, known, alive, crashed, sendVars, dpc, deaf, kicked, isServer>>

\* An accepted socket that is of no use: the event takes a new session.
AcceptFailed ==
  /\ isServer /\ ~crashed /\ io["open"] > 0
  /\ io' = [io EXCEPT !["open"] = 0]
  /\ owner' = [owner EXCEPT !["open"] = FALSE]
  /\ UNCHANGED <<stateVars, sendVars, pc, dpc, deaf, kicked, isServer>>

\* IocpCore::Dispatch drops the completion of a refused connection.
ConnectRefused ==
  /\ ~isServer /\ ~crashed /\ io["open"] > 0
  /\ io' = [io EXCEPT !["open"] = 0]
  /\ UNCHANGED <<stateVars, sendVars, owner, pc, dpc, deaf, kicked, isServer>>

AddSession ==
  /\ At("recv", "add")
  /\ inService' = TRUE
  /\ Goto("recv", "notify")
  /\ UNCHANGED <<connected, opened, closed, known, alive, crashed, sendVars, eventVars, dpc, deaf, kicked, isServer>>

OnConnected ==
  /\ At("recv", "notify")
  /\ opened' = TRUE /\ known' = TRUE
  /\ Goto("recv", "register")
  /\ UNCHANGED <<connected, inService, closed, alive, crashed, sendVars, eventVars, dpc, deaf, kicked, isServer>>
-----------------------------------------------------------------------------
(* RegisterRecv and ProcessRecv *)

\* Mutant: the event takes no reference.
RegisterRecvUnowned ==
  /\ At("recv", "register")
  /\ IF connected THEN Goto("recv", "post") ELSE Goto("recv", "quit")
  /\ UNCHANGED <<stateVars, sendVars, eventVars, dpc, deaf, kicked, isServer>>

RegisterRecv ==
  /\ At("recv", "register")
  /\ IF connected
     THEN owner' = [owner EXCEPT !["recv"] = TRUE] /\ Goto("recv", "post")
     ELSE UNCHANGED owner /\ Goto("recv", "quit")
  /\ UNCHANGED <<stateVars, sendVars, io, dpc, deaf, kicked, isServer>>

\* WSARecv is outstanding.  For an accepted session the handler still has to
\* replace the m_session of the accept event.
RecvPosted ==
  /\ At("recv", "post")
  /\ io' = [io EXCEPT !["recv"] = @ + 1]
  /\ owner' = [owner EXCEPT !["open"] = FALSE]
  /\ Goto("recv", "none")
  /\ UNCHANGED <<stateVars, sendVars, dpc, deaf, kicked, isServer>>

\* WSARecv fails: HandleError disconnects after a reset, and only then.
RecvReset ==
  /\ At("recv", "post")
  /\ CallDisconnect("recv")
  /\ Goto("recv", "failed")
  /\ UNCHANGED <<inService, opened, closed, known, alive, crashed, sendVars, eventVars, deaf, kicked, isServer>>

RecvError ==
  /\ At("recv", "post")
  /\ deaf' = TRUE
  /\ Goto("recv", "failed")
  /\ UNCHANGED <<stateVars, sendVars, eventVars, dpc, kicked, isServer>>

RecvFailed ==
  /\ At("recv", "failed")
  /\ owner' = [owner EXCEPT !["recv"] = FALSE]
  /\ Goto("recv", "quit")
  /\ UNCHANGED <<stateVars, sendVars, io, dpc, deaf, kicked, isServer>>

\* Mutant: the owner is not released.
ProcessRecvKeepsOwner ==
  /\ At("recv", "none") /\ io["recv"] > 0
  /\ crashed' = ~owner["recv"]
  /\ io' = [io EXCEPT !["recv"] = @ - 1]
  /\ Goto("recv", "received")
  /\ UNCHANGED <<connected, inService, opened, closed, known, alive, sendVars, owner, dpc, deaf, kicked, isServer>>

\* IocpCore::Dispatch takes the owner of the event, ProcessRecv releases it.
ProcessRecv ==
  /\ At("recv", "none") /\ io["recv"] > 0
  /\ crashed' = ~owner["recv"]
  /\ io' = [io EXCEPT !["recv"] = @ - 1]
  /\ owner' = [owner EXCEPT !["recv"] = FALSE]
  /\ Goto("recv", "received")
  /\ UNCHANGED <<connected, inService, opened, closed, known, alive, sendVars, dpc, deaf, kicked, isServer>>

\* Mutant: the handler returns without a disconnect.
ReceivedNothingReturns ==
  /\ At("recv", "received")
  /\ Goto("recv", "quit")
  /\ UNCHANGED <<stateVars, sendVars, eventVars, dpc, deaf, kicked, isServer>>

\* No bytes, a bad size or a packet that OnRecv refuses.
ReceivedNothing ==
  /\ At("recv", "received")
  /\ CallDisconnect("recv")
  /\ Goto("recv", "quit")
  /\ UNCHANGED <<inService, opened, closed, known, alive, crashed, sendVars, eventVars, deaf, kicked, isServer>>

ReceivedData ==
  /\ At("recv", "received")
  /\ Goto("recv", "register")
  /\ UNCHANGED <<stateVars, sendVars, eventVars, dpc, deaf, kicked, isServer>>
-----------------------------------------------------------------------------
(* Send, RegisterSend and ProcessSend *)

\* On a server other threads find a session in GameSessionSystem, from
\* OnConnected on; on a client they go through the sessions of the service.
Reachable == alive /\ IF isServer THEN opened ELSE inService

\* Under the lock until RegisterSend, if it is called, has returned.
Send(t, m) ==
  /\ At(t, "none") /\ Reachable /\ lock = None
  /\ \A i \in DOMAIN pushed : pushed[i] # m
  /\ pushed' = Append(pushed, m)
  /\ queue' = Append(queue, m)
  /\ registered' = TRUE
  /\ IF registered THEN UNCHANGED <<lock, pc>> ELSE lock' = t /\ Goto(t, "register")
  /\ UNCHANGED <<stateVars, senders, flight, tried, refused, eventVars, dpc, deaf, kicked, isServer>>

\* The whole queue goes to the event.
RegisterSend(t) ==
  /\ t # "recv" /\ At(t, "register")
  /\ IF connected
     THEN /\ owner' = [owner EXCEPT !["send"] = TRUE]
          /\ senders' = senders \o queue
          /\ queue' = <<>>
          /\ Goto(t, "post")
          /\ UNCHANGED lock
     ELSE /\ lock' = None
          /\ Goto(t, "none")
          /\ UNCHANGED <<owner, senders, queue>>
  /\ UNCHANGED <<stateVars, registered, flight, pushed, tried, refused, io, dpc, deaf, kicked, isServer>>

SendPosted(t) ==
  /\ t # "recv" /\ At(t, "post")
  /\ io' = [io EXCEPT !["send"] = @ + 1]
  /\ flight' = senders
  /\ tried' = tried \o senders
  /\ lock' = None
  /\ Goto(t, "none")
  /\ UNCHANGED <<stateVars, queue, registered, senders, pushed, refused, owner, dpc, deaf, kicked, isServer>>

\* WSASend fails: HandleError disconnects after a reset, under the session's
\* lock, and only logs any other error.
SendReset(t) ==
  /\ t # "recv" /\ At(t, "post")
  /\ CallDisconnect(t)
  /\ Goto(t, "failed")
  /\ UNCHANGED <<inService, opened, closed, known, alive, crashed, sendVars, eventVars, deaf, kicked, isServer>>

SendError(t) ==
  /\ t # "recv" /\ At(t, "post")
  /\ Goto(t, "failed")
  /\ UNCHANGED <<stateVars, sendVars, eventVars, dpc, deaf, kicked, isServer>>

\* The batch that WSASend refused is dropped.
Dropped ==
  /\ tried' = tried \o senders
  /\ refused' = refused \cup {senders[i] : i \in DOMAIN senders}
  /\ senders' = <<>>

\* Mutant: m_sendRegistered stays set.
SendFailedStays(t) ==
  /\ t # "recv" /\ At(t, "failed")
  /\ owner' = [owner EXCEPT !["send"] = FALSE]
  /\ Dropped
  /\ lock' = None
  /\ Goto(t, "none")
  /\ UNCHANGED <<stateVars, queue, registered, flight, pushed, io, dpc, deaf, kicked, isServer>>

SendFailed(t) ==
  /\ t # "recv" /\ At(t, "failed")
  /\ owner' = [owner EXCEPT !["send"] = FALSE]
  /\ Dropped
  /\ registered' = FALSE
  /\ lock' = None
  /\ Goto(t, "none")
  /\ UNCHANGED <<stateVars, queue, flight, pushed, io, dpc, deaf, kicked, isServer>>

\* Mutant: the senders are not cleared.
ProcessSendKeeps ==
  /\ At("send", "none") /\ io["send"] > 0
  /\ crashed' = ~owner["send"]
  /\ io' = [io EXCEPT !["send"] = @ - 1]
  /\ owner' = [owner EXCEPT !["send"] = FALSE]
  /\ Goto("send", "sent")
  /\ UNCHANGED <<connected, inService, opened, closed, known, alive, sendVars, dpc, deaf, kicked, isServer>>

\* Dispatch of the completion; ProcessSend releases the owner and the senders
\* before it takes the lock.
ProcessSend ==
  /\ At("send", "none") /\ io["send"] > 0
  /\ crashed' = ~owner["send"]
  /\ io' = [io EXCEPT !["send"] = @ - 1]
  /\ owner' = [owner EXCEPT !["send"] = FALSE]
  /\ senders' = <<>>
  /\ Goto("send", "sent")
  /\ UNCHANGED <<connected, inService, opened, closed, known, alive, queue, registered, lock, flight, pushed,
                 tried, refused, dpc, deaf, kicked, isServer>>

SentNothing ==
  /\ At("send", "sent")
  /\ CallDisconnect("send")
  /\ Goto("send", "quit")
  /\ UNCHANGED <<inService, opened, closed, known, alive, crashed, sendVars, eventVars, deaf, kicked, isServer>>

\* Mutant: the queue is tested before the lock is taken.
SentDataUnlocked ==
  /\ At("send", "sent") /\ lock = None
  /\ registered' = FALSE
  /\ Goto("send", "none")
  /\ UNCHANGED <<stateVars, queue, senders, lock, flight, pushed, tried, refused, eventVars, dpc, deaf, kicked, isServer>>

\* OnSend; then, under the lock, the next send or none.
SentData ==
  /\ At("send", "sent") /\ lock = None
  /\ IF queue = <<>>
     THEN registered' = FALSE /\ Goto("send", "none") /\ UNCHANGED lock
     ELSE lock' = "send" /\ Goto("send", "register") /\ UNCHANGED registered
  /\ UNCHANGED <<stateVars, queue, senders, flight, pushed, tried, refused, eventVars, dpc, deaf, kicked, isServer>>
-----------------------------------------------------------------------------
\* KickPlayer, a failed login, ClientService::End.
Kick(t) ==
  /\ At(t, "none") /\ t \in Apps \ kicked /\ Reachable
  /\ CallDisconnect(t)
  /\ kicked' = kicked \cup {t}
  /\ Goto(t, "quit")
  /\ UNCHANGED <<inService, opened, closed, known, alive, crashed, sendVars, eventVars, deaf, isServer>>

\* A strand keeps a reference while it works, and so do the service, on the
\* server GameSessionSystem, and the events.  ScenarioStateRegistry does not.
Referenced ==
  \/ inService
  \/ isServer /\ known
  \/ \E e \in Events : owner[e]
  \/ \E t \in Strands : pc[t] # "none"

Destroy ==
  /\ ~crashed /\ alive /\ ~Referenced
  /\ alive' = FALSE
  /\ UNCHANGED <<connected, inService, opened, closed, known, crashed, sendVars, eventVars, pc, dpc, deaf, kicked, isServer>>

RecvStep ==
  \/ AddSession \/ OnConnected \/ RegisterRecv \/ RecvPosted \/ RecvReset
  \/ RecvError \/ RecvFailed \/ ReceivedNothing \/ ReceivedData
SendStep(t) ==
  RegisterSend(t) \/ SendPosted(t) \/ SendReset(t) \/ SendError(t) \/ SendFailed(t)
DisconnectStep(t) ==
  OnDisconnected(t) \/ ReleaseSession(t) \/ RegisterDisconnect(t) \/ Quit(t)
SentStep == SentNothing \/ SentData
Opening == ProcessConnect \/ AcceptFailed \/ ConnectRefused

Next ==
  \/ Opening \/ RecvStep \/ SentStep
  \/ ProcessRecv \/ ProcessSend \/ ProcessDisconnect \/ Destroy
  \/ \E t \in Strands : SendStep(t) \/ DisconnectStep(t)
  \/ \E t \in Apps : Kick(t) \/ \E m \in Msgs : Send(t, m)

Spec == Init /\ [][Next]_vars

\* Threads keep running; a send and a disconnect complete, and so does a
\* receive once the session is disconnected.
Fairness ==
  /\ WF_vars(RecvStep) /\ WF_vars(SentStep)
  /\ \A t \in Strands : WF_vars(SendStep(t)) /\ WF_vars(DisconnectStep(t))
  /\ WF_vars(ProcessSend) /\ WF_vars(ProcessDisconnect)
  /\ WF_vars(~connected /\ ProcessRecv)
  /\ WF_vars(Destroy)

FairSpec == Spec /\ Fairness
-----------------------------------------------------------------------------
\* Every variable has its type.
TypeOK ==
  /\ connected \in BOOLEAN /\ inService \in BOOLEAN /\ opened \in BOOLEAN /\ closed \in BOOLEAN
  /\ known \in BOOLEAN
  /\ queue \in Seq(Msgs) /\ senders \in Seq(Msgs) /\ flight \in Seq(Msgs)
  /\ pushed \in Seq(Msgs) /\ tried \in Seq(Msgs) /\ refused \subseteq Msgs
  /\ registered \in BOOLEAN /\ lock \in Strands \cup {None}
  /\ owner \in [Events -> BOOLEAN] /\ io \in [Events -> 0 .. 1]
  /\ pc \in [Strands -> {"none", "add", "notify", "register", "post", "failed", "received",
                         "sent", "quit"}]
  /\ dpc \in [Strands -> {"none", "notify", "release", "register"}]
  /\ alive \in BOOLEAN /\ crashed \in BOOLEAN /\ deaf \in BOOLEAN
  /\ kicked \subseteq Apps /\ isServer \in BOOLEAN

\* The session is in the service when Disconnect releases it, and no
\* completion finds its event without an owner.
NoCrash == ~crashed

\* What Windows uses stays allocated until the operation completes: the event
\* keeps the session alive, with the OVERLAPPED and the buffers inside it, and
\* holds on to the very senders that WSASend was given.
KeptAlive ==
  /\ \A e \in Events : io[e] > 0 => owner[e] /\ alive
  /\ io["send"] > 0 => senders = flight

\* WSASend is given the messages in the order of Send, none twice and none
\* left out, whoever has the turn.  A batch that it refuses is given once: it
\* is dropped and not tried again.
Posting == \E t \in Strands \ {"recv"} : pc[t] \in {"post", "failed"}
InOrder == pushed = tried \o (IF Posting THEN senders ELSE <<>>) \o queue

\* Something will send what is queued, as long as the session is connected.
SendAwake ==
  connected /\ queue # <<>> =>
    io["send"] > 0 \/ \E t \in Strands \ {"recv"} : pc[t] # "none"

\* A connected session listens, unless a receive failed with an error that
\* HandleError only logs.
Listening ==
  connected => io["recv"] > 0 \/ pc["recv"] # "none" \/ deaf

\* On the server OnDisconnected is called after OnConnected, so that it undoes
\* what OnConnected did.
HooksInOrder == isServer /\ closed => opened

\* The pieces of state that are changed in several steps agree: the types, the
\* flag of the send queue with what is queued, and the two hooks.
Consistent == TypeOK /\ SendAwake /\ HooksInOrder

-----------------------------------------------------------------------------
(* What the invariants above rest on. *)

Others == Strands \ {"recv"}

\* Until the accept or the connect completes nothing has happened.
Unopened ==
  io["open"] > 0 =>
    /\ owner["open"] /\ ~connected /\ ~inService /\ ~opened /\ ~registered
    /\ \A t \in Strands : pc[t] = "none" /\ dpc[t] = "none"
    /\ io["recv"] = 0 /\ io["send"] = 0 /\ io["disc"] = 0

\* Before AddSession nobody else can reach the session; from then on it is in
\* the service while it is connected.
Starting ==
  /\ pc["recv"] = "add" =>
       /\ connected /\ ~opened /\ ~inService /\ io["send"] = 0
       /\ \A t \in Others : pc[t] = "none"
  /\ connected => pc["recv"] = "add" \/ inService

\* The receive is outstanding, or the strand "recv" works for the session.
Receiving ==
  /\ pc["recv"] # "sent"
  /\ pc["recv"] \notin {"none", "add", "notify"} \/ io["recv"] > 0 => opened
  /\ io["recv"] > 0 => pc["recv"] = "none" /\ owner["recv"]
  /\ pc["recv"] = "post" => owner["recv"]
  /\ pc["recv"] \in {"failed", "quit"} => ~connected \/ deaf

\* The one who has the turn to send: m_sendRegistered stands for it, and it
\* is the strand with the lock, the operation, or its completion.
Turn == lock # None \/ io["send"] > 0 \/ pc["send"] = "sent"

Sending ==
  /\ \A t \in Others :
       /\ pc[t] \in {"none", "register", "post", "failed", "sent", "quit"}
       /\ pc[t] = "sent" => t = "send"
       /\ lock = t <=> pc[t] \in {"register", "post", "failed"}
       /\ pc[t] \in {"post", "failed"} => queue = <<>> /\ owner["send"]
       /\ pc[t] = "register" => senders = <<>>
       /\ pc[t] # "none" => (isServer => opened)
  /\ lock # "recv"
  /\ lock # None => io["send"] = 0 /\ pc["send"] # "sent"
  /\ io["send"] > 0 => pc["send"] # "sent" /\ owner["send"] /\ senders = flight /\ (isServer => opened)
  /\ Turn => registered
  /\ ~registered => queue = <<>>
  /\ connected /\ registered => Turn
  /\ lock = None /\ io["send"] = 0 => senders = <<>>

\* One thread at most is in Disconnect, and comes to it once.
Disconnecting ==
  /\ \A t \in Strands : dpc[t] # "none" =>
       /\ pc[t] \in {"failed", "quit"} /\ ~connected /\ io["disc"] = 0
       /\ dpc[t] \in {"notify", "release"} => inService
       /\ isServer => opened
       /\ \A u \in Strands \ {t} : dpc[u] = "none"
  /\ connected => io["disc"] = 0
  /\ io["disc"] > 0 => owner["disc"]

\* The life of the session, apart from its messages.
Coherent ==
  /\ NoCrash /\ Listening /\ HooksInOrder
  /\ Unopened /\ Starting /\ Receiving /\ Disconnecting
  /\ Referenced => alive

\* The inductive invariant behind the theorems of SessionIOProofs.
IndInv == TypeOK /\ InOrder /\ Sending /\ Coherent

-----------------------------------------------------------------------------
\* The socket has taken the message.
Handed(m) == m \notin refused /\ \E i \in DOMAIN tried : tried[i] = m

\* A message passed to Send is taken by the socket, unless the session ends or
\* WSASend refuses the batch it is in.  In the last case the message is lost
\* while the session may go on: HandleError disconnects only after a reset.
\* What was queued behind the lost batch is sent nevertheless.
Sent == \A m \in Msgs :
  (\E i \in DOMAIN pushed : pushed[i] = m) ~> (Handed(m) \/ m \in refused \/ ~connected)

\* A session of the server that was disconnected is destroyed.
Reclaimed == isServer /\ closed ~> ~alive
=============================================================================
