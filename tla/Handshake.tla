----------------------------- MODULE Handshake -----------------------------
(***************************************************************************)
(* The key exchange and the packet wrapping of one server and its clients:  *)
(* GameSession.cpp on the server, ServerSession.cpp on the client.          *)
(*                                                                         *)
(* The transport keeps the order of the packets of one direction (the       *)
(* framing and the socket are RecvBuffer and SessionIO); what is under way  *)
(* to an end that has closed is lost.  One handler runs per session and     *)
(* end, since the next receive is registered when the handler is done; the  *)
(* ping of the load test runs on another thread, and so do the answers to   *)
(* a login (module Login).  A key is not modelled: an end can decrypt when  *)
(* it has a cipher.                                                         *)
(***************************************************************************)
EXTENDS Integers, Sequences

CONSTANTS
    Clients,
    PingBound   \* PingBound[c]: how many pings the load test sends on c

VARIABLES
    client,     \* the ServerSession of each client
    server,     \* the GameSession of each client
    up,         \* packets on the way to the server
    down,       \* packets on the way to the client
    ping,       \* the ping thread: what Send found in m_handshakeDone
    pings,      \* the pings sent so far
    plain,      \* auxiliary: a ping was sent in the clear
    cause       \* why the server, and the client, closed: the packet, or another cause

hsVars == <<client, server, up, down, ping, pings, plain, cause>>

Plain(kind) == [wrapped |-> FALSE, kind |-> kind, arg |-> "none"]

Wrapped(kind, arg) == [wrapped |-> TRUE, kind |-> kind, arg |-> arg]

(* An end of a connection: m_connected, m_handshakeDone, m_cipher and the   *)
(* place of its packet handler.                                             *)
End(open, pc) == [open |-> open, done |-> FALSE, cipher |-> FALSE, pc |-> pc]

HsInit ==
    /\ client = [c \in Clients |-> End(TRUE, "connected")]
    /\ server = [c \in Clients |-> End(TRUE, "idle")]
    /\ up = [c \in Clients |-> <<>>]
    /\ down = [c \in Clients |-> <<>>]
    /\ ping = [c \in Clients |-> "idle"]
    /\ pings = [c \in Clients |-> 0]
    /\ plain = [c \in Clients |-> FALSE]
    /\ cause = [c \in Clients |-> [server |-> "none", client |-> "none"]]

-----------------------------------------------------------------------------
(* Session::Send: nothing leaves an end that has closed, and nothing        *)
(* arrives at one.                                                          *)
SendUp(c, p) ==
    up' = IF client[c].open /\ server[c].open THEN [up EXCEPT ![c] = Append(@, p)] ELSE up

ToClient(ch, c, p) ==
    IF client[c].open /\ server[c].open THEN [ch EXCEPT ![c] = Append(@, p)] ELSE ch

(* Disconnect, once: the first cause counts *)
CloseServer(c, why) ==
    /\ server' = [server EXCEPT ![c].open = FALSE]
    /\ cause' = IF server[c].open THEN [cause EXCEPT ![c].server = why] ELSE cause

CloseClient(c, why) ==
    /\ client' = [client EXCEPT ![c].open = FALSE]
    /\ cause' = IF client[c].open THEN [cause EXCEPT ![c].client = why] ELSE cause

-----------------------------------------------------------------------------
(* ServerSession::OnConnected: the key pair, the first packet; then the     *)
(* session is registered for the scenario and the pings.                    *)
OnConnected(c) ==
    /\ client[c].pc = "connected"
    /\ \/ /\ client' = [client EXCEPT ![c].open = FALSE, ![c].pc = "idle"]
          /\ cause' = [cause EXCEPT ![c].client = "other"]
          /\ UNCHANGED up
       \/ /\ SendUp(c, Plain("ReqKeyExchange"))
          /\ client' = [client EXCEPT ![c].pc = "idle"]
          /\ UNCHANGED cause
    /\ UNCHANGED <<server, down, ping, pings, plain>>

(* AdvancePing: the first ping is due as soon as the session is registered  *)
(* (lastPingSentTime starts at the epoch).  ServerSession::Send reads       *)
(* m_handshakeDone ...                                                      *)
PingRead(c) ==
    /\ ping[c] = "idle"
    /\ pings[c] < PingBound[c]
    /\ client[c].open
    /\ client[c].pc # "connected"
    /\ ping' = [ping EXCEPT ![c] = IF client[c].done THEN "wrap" ELSE "clear"]
    /\ pings' = [pings EXCEPT ![c] = @ + 1]
    /\ UNCHANGED <<client, server, up, down, plain, cause>>

(* ... and sends the packet as it is, or encrypted with m_cipher *)
PingSend(c) ==
    /\ ping[c] # "idle"
    /\ SendUp(c, IF ping[c] = "wrap" THEN Wrapped("Test", "none") ELSE Plain("Test"))
    /\ plain' = [plain EXCEPT ![c] = @ \/ ping[c] = "clear"]
    /\ ping' = [ping EXCEPT ![c] = "idle"]
    /\ UNCHANGED <<client, server, down, pings, cause>>

-----------------------------------------------------------------------------
(* The next packet reaches GameSession::OnRecv.  ProcessRecv does not read  *)
(* what follows a packet that ends the connection, but goes on with what it *)
(* has received when another thread disconnects.                            *)
ServerGets(c) ==
    /\ server[c].pc = "idle"
    /\ up[c] # <<>>

(* OnRecv before the handshake, HandleKeyExchange up to the cipher *)
ServerKeyExchange(c) ==
    /\ ServerGets(c)
    /\ ~server[c].done
    /\ Head(up[c]) = Plain("ReqKeyExchange")
    /\ \/ /\ CloseServer(c, "other")
          /\ up' = [up EXCEPT ![c] = <<>>]
       \/ /\ server' = [server EXCEPT ![c].cipher = TRUE, ![c].pc = "cipher"]
          /\ up' = [up EXCEPT ![c] = Tail(@)]
          /\ UNCHANGED cause
    /\ UNCHANGED <<client, down, ping, pings, plain>>

(* OnRecv: the wrong kind of packet, before or after the handshake *)
ServerRejects(c) ==
    /\ ServerGets(c)
    /\ LET p == Head(up[c])
       IN  IF server[c].done THEN ~p.wrapped ELSE p # Plain("ReqKeyExchange")
    /\ CloseServer(c, "ProtocolViolation")
    /\ up' = [up EXCEPT ![c] = <<>>]
    /\ UNCHANGED <<client, down, ping, pings, plain>>

(* m_handshakeDone is stored *)
ServerHandshakeDone(c) ==
    /\ server[c].pc = "cipher"
    /\ server' = [server EXCEPT ![c].done = TRUE, ![c].pc = "respond"]
    /\ UNCHANGED <<client, up, down, ping, pings, plain, cause>>

(* mutant of SendKey: the answer goes through Send, which wraps it *)
SendKeyWrapped(c) ==
    /\ server[c].pc = "respond"
    /\ down' = ToClient(down, c, Wrapped("ResKeyExchange", "none"))
    /\ server' = [server EXCEPT ![c].pc = "idle"]
    /\ UNCHANGED <<client, up, ping, pings, plain, cause>>

(* Session::Send of the public key, in the clear *)
SendKey(c) ==
    /\ server[c].pc = "respond"
    /\ down' = ToClient(down, c, Plain("ResKeyExchange"))
    /\ server' = [server EXCEPT ![c].pc = "idle"]
    /\ UNCHANGED <<client, up, ping, pings, plain, cause>>

-----------------------------------------------------------------------------
ClientGets(c) ==
    /\ client[c].open
    /\ client[c].pc = "idle"
    /\ down[c] # <<>>
    /\ down' = [down EXCEPT ![c] = Tail(@)]

(* mutant of ClientKeyExchange: m_handshakeDone is stored before the cipher *)
ClientKeyExchangeEarly(c) ==
    /\ ClientGets(c)
    /\ ~client[c].done
    /\ client' = [client EXCEPT ![c].done = TRUE, ![c].pc = "cipher"]
    /\ UNCHANGED <<server, up, ping, pings, plain, cause>>

(* ServerSession::OnRecv before the handshake: HandleResKeyExchange up to   *)
(* the cipher; any other packet makes OnRecv return false, and ProcessRecv  *)
(* disconnects with "OnRead Error".                                         *)
ClientKeyExchange(c) ==
    /\ ClientGets(c)
    /\ ~client[c].done
    /\ IF Head(down[c]) = Plain("ResKeyExchange")
       THEN \/ CloseClient(c, "other")
            \/ /\ client' = [client EXCEPT ![c].cipher = TRUE, ![c].pc = "cipher"]
               /\ UNCHANGED cause
       ELSE CloseClient(c, "OnReadError")
    /\ UNCHANGED <<server, up, ping, pings, plain>>

(* m_handshakeDone is stored; the login follows *)
ClientHandshakeDone(c) ==
    /\ client[c].pc = "cipher"
    /\ client' = [client EXCEPT ![c].done = TRUE, ![c].pc = "login"]
    /\ UNCHANGED <<server, up, down, ping, pings, plain, cause>>

-----------------------------------------------------------------------------
(* external: the network, or the user, ends a connection; either end finds  *)
(* out that the other is gone, before or after it has got what was sent.    *)
ClientLeaves(c) ==
    /\ client[c].open
    /\ CloseClient(c, "other")
    /\ down' = [down EXCEPT ![c] = <<>>]
    /\ UNCHANGED <<server, up, ping, pings, plain>>

ServerSeesEnd(c) ==
    /\ server[c].open
    /\ ~client[c].open
    /\ CloseServer(c, "other")
    /\ up' = [up EXCEPT ![c] = <<>>]
    /\ UNCHANGED <<client, down, ping, pings, plain>>

=============================================================================
