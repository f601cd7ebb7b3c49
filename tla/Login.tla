------------------------------- MODULE Login -------------------------------
(***************************************************************************)
(* The path of a login through the server: a client that has finished the   *)
(* key exchange (Handshake) sends its name and password, the receiving      *)
(* thread hands a task to the database threads (DbSystem), the task checks  *)
(* the account and calls OnLoginResult, on the database thread: what        *)
(* PushGlobalQueue is given runs before it returns (module JobQueue).       *)
(* LoginController.cpp of server and client, OnLoginResult of               *)
(* GameSession.cpp, TestController.cpp.                                     *)
(***************************************************************************)
EXTENDS Handshake, DbSystem

CONSTANTS
    LoginBound, \* LoginBound[c]: how many logins a client sends
    Creds       \* what it may send, out of "ok", "wrong" and "short"

VARIABLES
    logins,     \* logins sent by each client
    processed,  \* m_loginProcessed of each GameSession
    at,         \* how far each worker is in OnLoginResult
    results     \* auxiliary: what each GameSession was told, in order

loginVars == <<logins, processed, at, results>>
vars == <<hsVars, dbVars, loginVars>>

Init ==
    /\ HsInit
    /\ DbInit
    /\ logins = [c \in Clients |-> 0]
    /\ processed = [c \in Clients |-> FALSE]
    /\ at = [w \in Workers |-> "start"]
    /\ results = [c \in Clients |-> <<>>]

-----------------------------------------------------------------------------
(* The end of HandleResKeyExchange sends the login.  A client may send it   *)
(* again; the server provides for that with m_loginProcessed.               *)
ClientLogin(c, cred) ==
    /\ client[c].done
    /\ client[c].pc \in {"login", "idle"}
    /\ client[c].open \/ client[c].pc = "login"
    /\ logins[c] < LoginBound[c]
    /\ SendUp(c, Wrapped("ReqLogin", cred))
    /\ logins' = [logins EXCEPT ![c] = @ + 1]
    /\ client' = [client EXCEPT ![c].pc = "idle"]
    /\ UNCHANGED <<server, down, ping, pings, plain, cause, dbVars, processed, at, results>>

(* OnRecv after the handshake, and the handler of the packet: HandleTestPacket *)
(* answers with another Test ...                                            *)
ServerEcho(c) ==
    /\ ServerGets(c)
    /\ server[c].done
    /\ Head(up[c]) = Wrapped("Test", "none")
    /\ up' = [up EXCEPT ![c] = Tail(@)]
    /\ down' = ToClient(down, c, Wrapped("Test", "none"))
    /\ UNCHANGED <<client, server, ping, pings, plain, cause, dbVars, loginVars>>

(* ... HandleReqLoginPacket refuses a name or a password of a wrong length, *)
(* and lets the connection be ...                                           *)
ServerRefusesLength(c) ==
    /\ ServerGets(c)
    /\ server[c].done
    /\ Head(up[c]) = Wrapped("ReqLogin", "short")
    /\ up' = [up EXCEPT ![c] = Tail(@)]
    /\ down' = ToClient(down, c, Wrapped("ResLoginFailed", "length"))
    /\ UNCHANGED <<client, server, ping, pings, plain, cause, dbVars, loginVars>>

(* ... or gives a task to Execute, which notifies a thread when it has left *)
(* the mutex, or returns at once after Shutdown.  (GameServer has always    *)
(* made a DbSystem: the branch for none is not taken.)                      *)
ServerTakesLogin(c) ==
    /\ ServerGets(c)
    /\ server[c].done
    /\ \E cred \in {"ok", "wrong"} :
          /\ Head(up[c]) = Wrapped("ReqLogin", cred)
          /\ Enqueue([session |-> c, cred |-> cred])
    /\ up' = [up EXCEPT ![c] = Tail(@)]
    /\ server' = [server EXCEPT ![c].pc = IF running THEN "notify" ELSE "idle"]
    /\ UNCHANGED <<client, down, ping, pings, plain, cause, logins, processed, at, results>>

ServerNotifies(c) ==
    /\ server[c].pc = "notify"
    /\ NotifyOne
    /\ server' = [server EXCEPT ![c].pc = "idle"]
    /\ UNCHANGED <<client, up, down, ping, pings, plain, cause, loginVars>>

-----------------------------------------------------------------------------
(* The task is over *)
Settle(w) ==
    /\ TaskDone(w)
    /\ at' = [at EXCEPT ![w] = "start"]

(* ok of the task: a connection, and the account repository agrees *)
Ok(w) == conn[w] # NoConn /\ job[w].cred = "ok"

(* mutant of ClaimResult: m_loginProcessed is read, and stored later *)
ClaimResultLater(w) ==
    /\ wpc[w] = "run"
    /\ at[w] = "start"
    /\ IF processed[job[w].session]
       THEN Settle(w) /\ UNCHANGED processed
       ELSE at' = [at EXCEPT ![w] = "claimed"] /\ UNCHANGED <<dbVars, processed>>
    /\ UNCHANGED <<hsVars, logins, results>>

(* OnLoginResult: the exchange on m_loginProcessed *)
ClaimResult(w) ==
    LET c == job[w].session IN
    /\ wpc[w] = "run"
    /\ at[w] = "start"
    /\ \/ /\ processed[c]
          /\ Settle(w)
          /\ UNCHANGED processed
       \/ /\ ~processed[c]
          /\ processed' = [processed EXCEPT ![c] = TRUE]
          /\ at' = [at EXCEPT ![w] = "claimed"]
          /\ UNCHANGED dbVars
    /\ UNCHANGED <<hsVars, logins, results>>

(* IsConnected *)
CheckConnected(w) ==
    LET c == job[w].session IN
    /\ wpc[w] = "run"
    /\ at[w] = "claimed"
    /\ \/ /\ ~server[c].open
          /\ Settle(w)
       \/ /\ server[c].open
          /\ at' = [at EXCEPT ![w] = "connected"]
          /\ UNCHANGED dbVars
    /\ UNCHANGED <<hsVars, logins, processed, results>>

(* The rest of OnLoginResult: the player and its lobby are in Membership *)
AnswerOk(w) ==
    LET c == job[w].session IN
    /\ wpc[w] = "run"
    /\ at[w] = "connected"
    /\ Ok(w)
    /\ down' = ToClient(down, c, Wrapped("ResLogin", "none"))
    /\ results' = [results EXCEPT ![c] = Append(@, "ok")]
    /\ Settle(w)
    /\ UNCHANGED <<client, server, up, ping, pings, plain, cause, logins, processed>>

(* ResLoginFailed, and Disconnect: some of the packets on their way have    *)
(* been received by now                                                     *)
AnswerFailed(w) ==
    LET c == job[w].session IN
    /\ wpc[w] = "run"
    /\ at[w] = "connected"
    /\ ~Ok(w)
    /\ down' = ToClient(down, c, Wrapped("ResLoginFailed", "account"))
    /\ results' = [results EXCEPT ![c] = Append(@, "failed")]
    /\ CloseServer(c, "other")
    /\ \E n \in 0..Len(up[c]) : up' = [up EXCEPT ![c] = SubSeq(@, 1, n)]
    /\ Settle(w)
    /\ UNCHANGED <<client, ping, pings, plain, logins, processed>>

-----------------------------------------------------------------------------
(* OnRecv of the client after the handshake: a packet that is not wrapped   *)
(* ends the connection, and so does a refused login.                        *)
ClientReceives(c) ==
    /\ ClientGets(c)
    /\ client[c].done
    /\ CASE ~Head(down[c]).wrapped -> CloseClient(c, "OnReadError")
         [] Head(down[c]).kind = "ResLoginFailed" -> CloseClient(c, "other")
         [] OTHER -> UNCHANGED <<client, cause>>
    /\ UNCHANGED <<server, up, ping, pings, plain>>

HandshakeStep(c) ==
    \/ OnConnected(c) \/ PingRead(c) \/ PingSend(c)
    \/ ServerKeyExchange(c) \/ ServerRejects(c) \/ ServerHandshakeDone(c) \/ SendKey(c)
    \/ ClientKeyExchange(c) \/ ClientHandshakeDone(c) \/ ClientReceives(c)
    \/ ClientLeaves(c) \/ ServerSeesEnd(c)

ServerLoginStep(c) ==
    \/ ServerEcho(c) \/ ServerRefusesLength(c) \/ ServerTakesLogin(c) \/ ServerNotifies(c)

TaskStep(w) == ClaimResult(w) \/ CheckConnected(w) \/ AnswerOk(w) \/ AnswerFailed(w)

Next ==
    \/ \E c \in Clients : HandshakeStep(c) /\ UNCHANGED <<dbVars, loginVars>>
    \/ \E c \in Clients, cred \in Creds : ClientLogin(c, cred)
    \/ \E c \in Clients : ServerLoginStep(c)
    \/ DbNext /\ UNCHANGED <<hsVars, loginVars>>
    \/ \E w \in Workers : TaskStep(w)

Spec == Init /\ [][Next]_vars

(* The threads of the server go on: a handler that has begun, a worker that *)
(* can move, and a shutdown that has begun.  Nothing is asked of a client,  *)
(* of the network or of the one who stops the server.                       *)
WorkerStep(w) == ((WorkerLoop(w) \/ Acquire(w)) /\ UNCHANGED <<hsVars, loginVars>>) \/ TaskStep(w)

FairSpec ==
    /\ Spec
    /\ \A c \in Clients :
          /\ WF_vars(ServerLoginStep(c))
          /\ WF_vars((ServerKeyExchange(c) \/ ServerRejects(c) \/ ServerHandshakeDone(c) \/ SendKey(c))
                        /\ UNCHANGED <<dbVars, loginVars>>)
    /\ \A w \in Workers : WF_vars(WorkerStep(w))
    /\ WF_vars((NotifyAll \/ Join \/ PoolShutdown) /\ UNCHANGED <<hsVars, loginVars>>)

-----------------------------------------------------------------------------
TypeOK ==
    /\ DbTypeOK
    /\ \A c \in Clients :
          /\ client[c].pc \in {"connected", "idle", "cipher", "login"}
          /\ server[c].pc \in {"idle", "cipher", "respond", "notify"}
          /\ logins[c] \in 0..LoginBound[c]
          /\ pings[c] \in 0..PingBound[c]
    /\ \A w \in Workers :
          /\ at[w] \in {"start", "claimed", "connected"}
          /\ at[w] # "start" => wpc[w] = "run"

(* "Atomic exchange prevents duplicate processing if two login responses    *)
(* race" (GameSession.cpp:161): a session acts on one result at most,       *)
(* however many logins it sent and however many threads work on them.       *)
OneResult == \A c \in Clients : Len(results[c]) <= 1

(* A thread that finds m_handshakeDone set finds the cipher too: the ping   *)
(* thread of the client reads both while HandleResKeyExchange runs          *)
(* (ServerSession.cpp:87-91, GameSession.cpp:124-128).                      *)
CipherReady ==
    \A c \in Clients :
        /\ client[c].done \/ ping[c] = "wrap" => client[c].cipher
        /\ server[c].done => server[c].cipher

(* The only packet that either end refuses is a ping sent before the        *)
(* handshake was done, for which the server disconnects the client with     *)
(* "ProtocolViolation" (GameSession.cpp:51).  The key exchange and the      *)
(* login never cause it, and the client never gives up with "OnRead Error": *)
(* the public key arrives in the clear and first and everything after it is *)
(* wrapped, although m_handshakeDone is set before the key is sent          *)
(* (GameSession.cpp:128-130) and answers come from other threads.           *)
RefusesOnlyEarlyPing ==
    \A c \in Clients :
        /\ cause[c].client # "OnReadError"
        /\ cause[c].server = "ProtocolViolation" => plain[c]

(* The state of handshake and database agrees with where the threads are:   *)
(* the types, a cipher behind every m_handshakeDone, each connection in one *)
(* place, and nothing left when Shutdown has returned.                      *)
Consistent == TypeOK /\ CipherReady /\ ConnsConserved /\ ShutdownClean

Pending(c) ==
    \/ \E i \in 1..Len(tasks) : tasks[i].session = c
    \/ \E w \in Workers : job[w] # NoTask /\ job[w].session = c

(* A session whose login Execute accepted is told a result or loses its     *)
(* connection, also when the server is stopped in between: no notification  *)
(* is lost between _cv.wait and notify_one (DbSystem.cpp:67).  It is one    *)
(* result per session: a second login that finds m_loginProcessed set is    *)
(* not answered.  Without any database connection no thread is started and  *)
(* the login waits for ever (DbSystem.cpp:18-21), which is excepted.        *)
Answered ==
    \A c \in Clients :
        Pending(c) /\ opened # {} ~> results[c] # <<>> \/ ~server[c].open

(* Shutdown, once begun, returns: every thread is woken, finishes the tasks *)
(* and leaves (DbSystem.cpp:32-45).                                         *)
ShutdownEnds == shut = "stopped" ~> shut = "done"

=============================================================================
