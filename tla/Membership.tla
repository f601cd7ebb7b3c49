----------------------------- MODULE Membership -----------------------------
(***************************************************************************)
(* Who is in which lobby or room (Player, Lobby, LobbySystem, Room,        *)
(* RoomSystem, PlayerSystem, and the handlers of GameSession and of        *)
(* RoomController that drive them).                                        *)
(*                                                                         *)
(* A place is entered in two halves.  A handler first takes one of the     *)
(* place's slots (TryReserveSlot, an atomic counter any thread may use) and *)
(* posts an Enter job; the job later makes the player a member or gives    *)
(* the slot back.  Leaving posts a job too.  The jobs of one place run one *)
(* at a time in the order they were posted: that is what module JobQueue   *)
(* establishes, and a queue is a sequence here.                            *)
(*                                                                         *)
(* Several threads work for one session at once: the thread that received  *)
(* its last packet ("recv"), the one that disconnects it ("disc") and the  *)
(* ones that carry the answers to its logins (LoginIds).  Each is a strand *)
(* whose steps interleave with all the others and with the jobs.           *)
(*                                                                         *)
(* A session has at most one Player, so the session stands for it.         *)
(***************************************************************************)
EXTENDS Naturals, Sequences, FiniteSets

CONSTANTS
  Sessions,     \* GameSession objects
  LoginIds,     \* answers of the login query that may arrive for a session
  Accounts,     \* player ids
  Account,      \* the account a session logs in to
  LobbyCount,   \* MAX_LOBBY_COUNT
  LobbyMax,     \* MAX_LOBBY_PLAYERS
  RoomMax,      \* MAX_ROOM_PLAYER
  RoomBound,    \* bound of the model: rooms ever made
  Patient,      \* sessions of clients that wait for the answer before they ask again
  AskBound      \* bound of the model: room requests of all sessions

ASSUME AccountAssumption == Account \in [Sessions -> Accounts]

ASSUME SizesAssumption ==
  /\ LobbyCount \in Nat /\ LobbyMax \in Nat /\ RoomBound \in Nat /\ AskBound \in Nat
  /\ RoomMax \in Nat \ {0}

ASSUME FiniteAssumption == IsFiniteSet(Sessions) /\ IsFiniteSet(LoginIds)

ASSUME NamesAssumption == {"recv", "disc"} \cap LoginIds = {}

\* Places are numbered from 1, the lobbies before the rooms; None is a null
\* pointer.
None    == 0
Lobbies == 1 .. LobbyCount
Rooms   == LobbyCount + 1 .. LobbyCount + RoomBound
Places  == Lobbies \cup Rooms

Capacity(x) == IF x \in Lobbies THEN LobbyMax ELSE RoomMax

Strands == Sessions \X ({"recv", "disc"} \cup LoginIds)

Session(a)  == a[1]
IsDisc(a)   == a[2] = "disc"
IsLogin(a)  == a[2] \in LoginIds

Job(op, s) == [op |-> op, who |-> s]

\* The players that have the id of s's player.
SameId(s) == {u \in Sessions : Account[u] = Account[s]}

VARIABLES
  conn,       \* "up", "down" (m_connected false), "gone" (object destroyed)
  processed,  \* m_loginProcessed
  player,     \* m_player is set
  lobbyOf,    \* Player::m_currentLobby
  roomOf,     \* Player::m_currentRoom
  registry,   \* PlayerSystem::m_players: account -> {} or {session}
  roomNum,    \* RoomSystem::m_roomNum
  avail,      \* m_availableSlots of each place
  members,    \* m_players of each place
  queue,      \* jobs of each place that have not run
  pc,         \* what each strand does next
  at,         \* the place each strand is looking at or has reserved
  client,     \* what a client that waits for its answers waits for, has been told, or
              \* will never be told ("ignored"); "any" for one that does not wait
  asked       \* room requests sent

sessionVars == <<conn, processed, player, registry>>
playerVars  == <<lobbyOf, roomOf>>
placeVars   == <<avail, members, queue, roomNum>>
clientVars  == <<client, asked>>
vars == <<sessionVars, playerVars, placeVars, clientVars, pc, at>>

Init ==
  /\ conn = [s \in Sessions |-> "up"]
  /\ processed = [s \in Sessions |-> FALSE]
  /\ player = [s \in Sessions |-> FALSE]
  /\ lobbyOf = [s \in Sessions |-> None]
  /\ roomOf = [s \in Sessions |-> None]
  /\ registry = [i \in Accounts |-> {}]
  /\ roomNum = 0
  /\ avail = [x \in Places |-> Capacity(x)]
  /\ members = [x \in Places |-> {}]
  /\ queue = [x \in Places |-> <<>>]
  /\ pc = [a \in Strands |-> "idle"]
  /\ at = [a \in Strands |-> None]
  /\ client = [s \in Sessions |-> IF s \in Patient THEN "toLobby" ELSE "any"]
  /\ asked = 0

-----------------------------------------------------------------------------
\* Steps shared by the strands.

Goto(a, step, x) ==
  /\ pc' = [pc EXCEPT ![a] = step]
  /\ at' = [at EXCEPT ![a] = x]

\* A strand that has finished; a session receives packets again and again.
Finish(a) == Goto(a, IF IsDisc(a) \/ IsLogin(a) THEN "done" ELSE "idle", None)

\* DoAsync on place x.
Post(x, op, s) == queue' = [queue EXCEPT ![x] = Append(@, Job(op, s))]

\* The compare-and-exchange loop.
TryReserveSlot(x) == avail[x] > 0 /\ avail' = [avail EXCEPT ![x] = @ - 1]

-----------------------------------------------------------------------------
\* Player::LeaveLobby and Player::LeaveRoom read the pointer, post the job
\* and clear the pointer; the pointer is not protected, and a job that sets
\* it may run between the read and the reset.

\* Mutant: the lobby is not told.
LeaveLobbySilently(a) ==
  /\ pc[a] = "leaveLobby"
  /\ Goto(a, "resetLobby", None)
  /\ UNCHANGED <<sessionVars, playerVars, clientVars, placeVars>>

LeaveLobby(a) ==
  LET s == Session(a) IN
  /\ pc[a] = "leaveLobby"
  /\ IF lobbyOf[s] = None THEN UNCHANGED queue ELSE Post(lobbyOf[s], "leave", s)
  /\ Goto(a, "resetLobby", None)
  /\ UNCHANGED <<sessionVars, playerVars, clientVars, avail, members, roomNum>>

ResetLobby(a) ==
  /\ pc[a] = "resetLobby"
  /\ lobbyOf' = [lobbyOf EXCEPT ![Session(a)] = None]
  /\ IF IsDisc(a) THEN Goto(a, "leaveRoom", None) ELSE Goto(a, "scanRooms", LobbyCount + 1)
  /\ UNCHANGED <<sessionVars, placeVars, clientVars, roomOf>>

LeaveRoom(a) ==
  LET s == Session(a) IN
  /\ pc[a] = "leaveRoom"
  /\ IF roomOf[s] = None THEN UNCHANGED queue ELSE Post(roomOf[s], "leave", s)
  /\ Goto(a, "resetRoom", None)
  /\ UNCHANGED <<sessionVars, playerVars, clientVars, avail, members, roomNum>>

ResetRoom(a) ==
  /\ pc[a] = "resetRoom"
  /\ roomOf' = [roomOf EXCEPT ![Session(a)] = None]
  /\ Goto(a, IF IsDisc(a) THEN "remove" ELSE "pickLobby", None)
  /\ UNCHANGED <<sessionVars, placeVars, clientVars, lobbyOf>>

-----------------------------------------------------------------------------
\* LobbySystem::AssignLobby: the fullest lobby that has a free slot, the
\* first of them on a tie; if it fills up meanwhile, the first lobby with a
\* slot; if there is none, no lobby at all.  The counts are read in one step:
\* the choice is only a hint, and TryReserveSlot decides.

Open == {x \in Lobbies : avail[x] > 0}

\* The client is sent nothing, and never will be.
Ignored(s) ==
  client' = [client EXCEPT ![s] = IF @ \in {"toLobby", "toRoom"} THEN "ignored" ELSE @]

Fullest(x) ==
  /\ x \in Open
  /\ \A y \in Open : avail[x] < avail[y] \/ (avail[x] = avail[y] /\ x <= y)

PickLobby(a) ==
  /\ pc[a] = "pickLobby"
  /\ \/ \E x \in Open : Fullest(x) /\ Goto(a, "tryLobby", x)
     \/ Open = {} /\ Goto(a, "scanLobbies", 1)
  /\ UNCHANGED <<sessionVars, playerVars, placeVars, clientVars>>

\* Mutant: there is no second try.
TryLobbyOnce(a) ==
  /\ pc[a] = "tryLobby"
  /\ \/ TryReserveSlot(at[a]) /\ Goto(a, "enterLobby", at[a])
     \/ avail[at[a]] = 0 /\ Finish(a) /\ UNCHANGED avail
  /\ UNCHANGED <<sessionVars, playerVars, clientVars, members, queue, roomNum>>

TryLobby(a) ==
  /\ pc[a] = "tryLobby"
  /\ \/ TryReserveSlot(at[a]) /\ Goto(a, "enterLobby", at[a])
     \/ avail[at[a]] = 0 /\ Goto(a, "scanLobbies", 1) /\ UNCHANGED avail
  /\ UNCHANGED <<sessionVars, playerVars, clientVars, members, queue, roomNum>>

ScanLobbies(a) ==
  /\ pc[a] = "scanLobbies"
  /\ \/ /\ at[a] \in Lobbies
        /\ TryReserveSlot(at[a])
        /\ Goto(a, "enterLobby", at[a])
        /\ UNCHANGED client
     \/ /\ at[a] \in Lobbies /\ avail[at[a]] = 0
        /\ Goto(a, "scanLobbies", at[a] + 1)
        /\ UNCHANGED <<avail, client>>
     \/ /\ at[a] \notin Lobbies
        /\ Finish(a)
        /\ Ignored(Session(a))
        /\ UNCHANGED avail
  /\ UNCHANGED <<sessionVars, playerVars, asked, members, queue, roomNum>>

EnterLobby(a) ==
  /\ pc[a] = "enterLobby"
  /\ Post(at[a], "enter", Session(a))
  /\ Finish(a)
  /\ UNCHANGED <<sessionVars, playerVars, clientVars, avail, members, roomNum>>

-----------------------------------------------------------------------------
\* RoomSystem::GetNotFullRoom: the first room with a slot, in index order.
\* It holds the read lock of the room table; MakeRoom needs the write lock.

ScanRooms(a) ==
  /\ pc[a] = "scanRooms"
  /\ \/ /\ at[a] <= LobbyCount + roomNum
        /\ TryReserveSlot(at[a])
        /\ Goto(a, "enterRoom", at[a])
     \/ /\ at[a] <= LobbyCount + roomNum /\ avail[at[a]] = 0
        /\ Goto(a, "scanRooms", at[a] + 1)
        /\ UNCHANGED avail
     \/ /\ at[a] > LobbyCount + roomNum
        /\ Goto(a, "makeRoom", None)
        /\ UNCHANGED avail
  /\ UNCHANGED <<sessionVars, playerVars, clientVars, members, queue, roomNum>>

Scanning == {a \in Strands : pc[a] = "scanRooms" /\ at[a] > LobbyCount + 1}

MakeRoom(a) ==
  LET x == LobbyCount + roomNum + 1 IN
  /\ pc[a] = "makeRoom"
  /\ roomNum < RoomBound
  /\ Scanning = {}
  /\ roomNum' = roomNum + 1
  /\ TryReserveSlot(x)
  /\ Goto(a, "enterRoom", x)
  /\ UNCHANGED <<sessionVars, playerVars, clientVars, members, queue>>

EnterRoom(a) ==
  /\ pc[a] = "enterRoom"
  /\ Post(at[a], "enter", Session(a))
  /\ Finish(a)
  /\ UNCHANGED <<sessionVars, playerVars, clientVars, avail, members, roomNum>>

-----------------------------------------------------------------------------
\* RoomController: HandleReqRoomEnterPacket and HandleReqRoomExitPacket.  A
\* session's packets are handled one at a time, possibly after another thread
\* has disconnected it; without a player the handler fails and the session is
\* disconnected (Disconnect).  Chat requests only broadcast and are left out.

Ask(s, from, to, step) ==
  LET a == <<s, "recv">> IN
  /\ pc[a] = "idle" /\ conn[s] # "gone" /\ player[s]
  /\ asked < AskBound
  /\ \/ client[s] = "any" /\ UNCHANGED client
     \/ conn[s] = "up" /\ client[s] = from /\ client' = [client EXCEPT ![s] = to]
  /\ asked' = asked + 1
  /\ Goto(a, step, None)
  /\ UNCHANGED <<sessionVars, playerVars, placeVars>>

ReqRoomEnter(s) == Ask(s, "inLobby", "toRoom", "leaveLobby")

ReqRoomExit(s) == Ask(s, "inRoom", "toLobby", "leaveRoom")

-----------------------------------------------------------------------------
\* Session::Disconnect clears m_connected once and runs OnDisconnected, which
\* undoes what the player did, if there is a player by now.

Disconnecting(s) ==
  /\ conn[s] = "up"
  /\ conn' = [conn EXCEPT ![s] = "down"]

DiscStep(s) == IF player[s] THEN "leaveLobby" ELSE "clear"

Disconnect(s) ==
  /\ Disconnecting(s)
  /\ Goto(<<s, "disc">>, DiscStep(s), None)
  /\ UNCHANGED <<processed, player, registry, playerVars, placeVars, clientVars>>

\* PlayerSystem::Remove erases by id.
Remove(a) ==
  /\ pc[a] = "remove"
  /\ registry' = [registry EXCEPT ![Account[Session(a)]] = {}]
  /\ Goto(a, "clear", None)
  /\ UNCHANGED <<conn, processed, player, playerVars, placeVars, clientVars>>

\* m_player.reset(), the end of OnDisconnected.
ClearPlayer(a) ==
  /\ pc[a] = "clear"
  /\ player' = [player EXCEPT ![Session(a)] = FALSE]
  /\ Finish(a)
  /\ UNCHANGED <<conn, processed, registry, playerVars, placeVars, clientVars>>

\* The last reference to the session is dropped: from now on
\* Player::GetOwnerSession is null.  A strand holds a reference.
Destroy(s) ==
  /\ conn[s] = "down"
  /\ \A a \in Strands : Session(a) = s => pc[a] \in {"idle", "done"}
  /\ pc[<<s, "disc">>] = "done"
  /\ conn' = [conn EXCEPT ![s] = "gone"]
  /\ UNCHANGED <<processed, player, registry, playerVars, placeVars, clientVars, pc, at>>

-----------------------------------------------------------------------------
\* GameSession::OnLoginResult, on the thread that runs the answer.

LoginRefused(a) ==
  LET s == Session(a) IN
  /\ ~processed[s] /\ processed' = [processed EXCEPT ![s] = TRUE]
  /\ Disconnecting(s)
  /\ pc' = [pc EXCEPT ![a] = "done", ![<<s, "disc">>] = DiscStep(s)]
  /\ UNCHANGED <<player, registry, at>>

LoginAccepted(a) ==
  LET s == Session(a) IN
  /\ ~processed[s] /\ processed' = [processed EXCEPT ![s] = TRUE]
  /\ conn[s] = "up"
  /\ Goto(a, "setPlayer", None)
  /\ UNCHANGED <<conn, player, registry>>

LoginDropped(a) ==
  LET s == Session(a) IN
  /\ processed[s] \/ conn[s] # "up"
  /\ processed' = [processed EXCEPT ![s] = TRUE]
  /\ Finish(a)
  /\ UNCHANGED <<conn, player, registry>>

OnLoginResult(a) ==
  /\ IsLogin(a) /\ pc[a] = "idle" /\ conn[Session(a)] # "gone"
  /\ LoginRefused(a) \/ LoginAccepted(a) \/ LoginDropped(a)
  /\ UNCHANGED <<playerVars, placeVars, clientVars>>

\* Mutant: the player is not listed.
SetPlayerUnlisted(a) ==
  /\ pc[a] = "setPlayer"
  /\ player' = [player EXCEPT ![Session(a)] = TRUE]
  /\ Goto(a, "pickLobby", None)
  /\ UNCHANGED <<conn, processed, registry, playerVars, placeVars, clientVars>>

SetPlayer(a) ==
  /\ pc[a] = "setPlayer"
  /\ player' = [player EXCEPT ![Session(a)] = TRUE]
  /\ Goto(a, "add", None)
  /\ UNCHANGED <<conn, processed, registry, playerVars, placeVars, clientVars>>

\* PlayerSystem::Add inserts; an entry with the same id stays.
Add(a) ==
  LET s == Session(a) IN
  /\ pc[a] = "add"
  /\ registry' = [registry EXCEPT ![Account[s]] = IF @ = {} THEN {s} ELSE @]
  /\ Goto(a, "pickLobby", None)
  /\ UNCHANGED <<conn, processed, player, playerVars, placeVars, clientVars>>

-----------------------------------------------------------------------------
\* The jobs.  Each runs alone on its place; jobs of different places and the
\* strands run at the same time.

HeadIs(x, op, s) == queue[x] # <<>> /\ Head(queue[x]) = Job(op, s)

Release(x) == avail' = [avail EXCEPT ![x] = @ + 1]

Present(x, s) == members[x] \cap SameId(s) # {}

\* The map takes the player unless the id is in already or the room is full.
Inserted(x, s) ==
  ~Present(x, s) /\ (x \in Rooms => Cardinality(members[x]) < RoomMax)

\* The player stays unless the session is gone by now.
Admitted(x, s) == Inserted(x, s) /\ conn[s] # "gone"

\* Mutant: the slot of a duplicate is kept.
AdmitKeepsSlot(x, s) ==
  IF Admitted(x, s)
  THEN members' = [members EXCEPT ![x] = @ \cup {s}] /\ UNCHANGED avail
  ELSE IF Present(x, s) THEN UNCHANGED <<avail, members>> ELSE Release(x) /\ UNCHANGED members

\* Who does not stay gives the slot back.
Admit(x, s) ==
  IF Admitted(x, s)
  THEN members' = [members EXCEPT ![x] = @ \cup {s}] /\ UNCHANGED avail
  ELSE Release(x) /\ UNCHANGED members

\* The client is told that it is in, if it waits for that.
Told(s, from, to) == client' = [client EXCEPT ![s] = IF @ = from THEN to ELSE @]

\* Lobby::Enter; ResLobbyEnter tells the client.
LobbyEnter(x, s) ==
  /\ x \in Lobbies /\ HeadIs(x, "enter", s)
  /\ queue' = [queue EXCEPT ![x] = Tail(@)]
  /\ Admit(x, s)
  /\ lobbyOf' = IF Inserted(x, s) THEN [lobbyOf EXCEPT ![s] = x] ELSE lobbyOf
  /\ IF Admitted(x, s) THEN Told(s, "toLobby", "inLobby") ELSE Ignored(s)
  /\ UNCHANGED <<sessionVars, roomOf, roomNum, asked, pc, at>>

\* Room::Enter; the NotiRoomEnter broadcast is a job of its own, behind the
\* ones already there.
RoomEnter(x, s) ==
  /\ x \in Rooms /\ HeadIs(x, "enter", s)
  /\ queue' = [queue EXCEPT ![x] = IF Admitted(x, s) THEN Append(Tail(@), Job("noti", s))
                                                     ELSE Tail(@)]
  /\ Admit(x, s)
  /\ roomOf' = IF Inserted(x, s) THEN [roomOf EXCEPT ![s] = x] ELSE roomOf
  /\ IF Admitted(x, s) THEN UNCHANGED client ELSE Ignored(s)
  /\ UNCHANGED <<sessionVars, lobbyOf, roomNum, asked, pc, at>>

\* Room::Broadcast of the NotiRoomEnter of s, to those who are members by now.
RoomNoti(x, s) ==
  /\ HeadIs(x, "noti", s)
  /\ queue' = [queue EXCEPT ![x] = Tail(@)]
  /\ IF s \in members[x] THEN Told(s, "toRoom", "inRoom") ELSE Ignored(s)
  /\ UNCHANGED <<sessionVars, playerVars, avail, members, roomNum, asked, pc, at>>

\* Mutant: a slot is released for a player who is not there.
LeaveReleasesAlways(x, s) ==
  /\ HeadIs(x, "leave", s)
  /\ queue' = [queue EXCEPT ![x] = Tail(@)]
  /\ members' = [members EXCEPT ![x] = @ \ SameId(s)]
  /\ Release(x)
  /\ UNCHANGED <<sessionVars, playerVars, roomNum, clientVars, pc, at>>

\* Lobby::Exit and Room::Leave: by id, and only who is there.
Leave(x, s) ==
  /\ HeadIs(x, "leave", s)
  /\ queue' = [queue EXCEPT ![x] = Tail(@)]
  /\ members' = [members EXCEPT ![x] = @ \ SameId(s)]
  /\ IF Present(x, s) THEN Release(x) ELSE UNCHANGED avail
  /\ UNCHANGED <<sessionVars, playerVars, roomNum, clientVars, pc, at>>

-----------------------------------------------------------------------------
StrandStep(a) ==
  \/ LeaveLobby(a) \/ ResetLobby(a) \/ LeaveRoom(a) \/ ResetRoom(a)
  \/ PickLobby(a) \/ TryLobby(a) \/ ScanLobbies(a) \/ EnterLobby(a)
  \/ ScanRooms(a) \/ MakeRoom(a) \/ EnterRoom(a)
  \/ Remove(a) \/ ClearPlayer(a) \/ SetPlayer(a) \/ Add(a)

JobStep(x) ==
  \E s \in Sessions : LobbyEnter(x, s) \/ RoomEnter(x, s) \/ RoomNoti(x, s) \/ Leave(x, s)

SessionStep(s) == ReqRoomEnter(s) \/ ReqRoomExit(s) \/ Disconnect(s) \/ Destroy(s)

Next ==
  \/ \E a \in Strands : StrandStep(a) \/ OnLoginResult(a)
  \/ \E x \in Places : JobStep(x)
  \/ \E s \in Sessions : SessionStep(s)

Spec == Init /\ [][Next]_vars

\* Worker threads keep running the strands that were started, and the jobs
\* that were posted run (PostedJobsRun of module JobQueue).  No client, answer
\* or disconnect is fair.
Work == (\E a \in Strands : StrandStep(a)) \/ (\E x \in Places : JobStep(x))

Fairness == WF_vars(Work)

FairSpec == Spec /\ Fairness

-----------------------------------------------------------------------------
Steps == {"idle", "done", "leaveLobby", "resetLobby", "leaveRoom", "resetRoom",
          "pickLobby", "tryLobby", "scanLobbies", "enterLobby", "scanRooms",
          "makeRoom", "enterRoom", "setPlayer", "add", "remove", "clear"}

ClientStates == {"any", "toLobby", "inLobby", "toRoom", "inRoom", "ignored"}

Jobs == [op : {"enter", "leave", "noti"}, who : Sessions]

\* Every variable stays in its range; in particular no slot counter passes 0
\* or the capacity of its place.
TypeOK ==
  /\ conn \in [Sessions -> {"up", "down", "gone"}]
  /\ processed \in [Sessions -> BOOLEAN]
  /\ player \in [Sessions -> BOOLEAN]
  /\ lobbyOf \in [Sessions -> Lobbies \cup {None}]
  /\ roomOf \in [Sessions -> Rooms \cup {None}]
  /\ registry \in [Accounts -> SUBSET Sessions]
  /\ roomNum \in 0 .. RoomBound
  /\ avail \in [Places -> Nat]
  /\ \A x \in Places : avail[x] <= Capacity(x)
  /\ members \in [Places -> SUBSET Sessions]
  /\ queue \in [Places -> Seq(Jobs)]
  /\ pc \in [Strands -> Steps]
  /\ at \in [Strands -> Nat]
  /\ client \in [Sessions -> ClientStates]
  /\ asked \in 0 .. AskBound

\* The Enter jobs of x that have not run, and the strands about to post one:
\* each of them stands for a slot taken from x.
Enters(q) == {i \in DOMAIN q : q[i].op = "enter"}
Pending(x) == Enters(queue[x])
Reserved == {"enterLobby", "enterRoom"}
Holding(x) == {a \in Strands : pc[a] \in Reserved /\ at[a] = x}

\* No slot of a lobby or room is lost or given back twice, whatever requests,
\* logins and disconnects overlap: free slots, reservations on their way and
\* members always add up to the capacity.  So a reservation is a promise, and
\* the "room is full" branch of Room::Enter is never taken.
SlotsExact ==
  \A x \in Places :
    avail[x] + Cardinality(members[x]) + Cardinality(Pending(x)) + Cardinality(Holding(x))
      = Capacity(x)

\* The place a strand looks at is of the kind it looks for.
AtAgrees ==
  \A a \in Strands :
    /\ pc[a] \in {"tryLobby", "enterLobby"} => at[a] \in Lobbies
    /\ pc[a] = "scanRooms" => at[a] > LobbyCount
    /\ pc[a] = "enterRoom" => at[a] \in Rooms

\* OnDisconnected has not begun while the session is connected.
DiscOnce == \A s \in Sessions : conn[s] = "up" => pc[<<s, "disc">>] = "idle"

\* m_players has a key once.
OneOfId == \A x \in Places : \A s, u \in members[x] : Account[s] = Account[u] => s = u

\* The inductive invariant behind SlotsExact.
IndInv == TypeOK /\ SlotsExact /\ AtAgrees /\ DiscOnce /\ OneOfId

\* A reservation is honoured: the test of Room::Enter for a full room fails.
RoomForReserved ==
  \A x \in Rooms :
    queue[x] # <<>> /\ Head(queue[x]).op = "enter" => Cardinality(members[x]) < RoomMax

Contains(q, j) == \E i \in DOMAIN q : q[i] = j

Leaving(x, s) == Contains(queue[x], Job("leave", s))

\* The player of a client that waits for its answers sits in one place: in two
\* only until the Leave job of one of them, already posted, runs.  The
\* connection may end at any time, and the other sessions do as they please.
OneSeat ==
  \A s \in Sessions, x, y \in Places :
    client[s] # "any" /\ s \in members[x] /\ s \in members[y] /\ x # y =>
      Leaving(x, s) \/ Leaving(y, s)

\* A session that has disconnected and been destroyed leaves no member
\* behind: once the jobs of a place have run it is not in the place.
NoGhost ==
  \A s \in Sessions, x \in Places :
    conn[s] = "gone" /\ queue[x] = <<>> => s \notin members[x]

\* An account whose player is logged in is in PlayerSystem, though its sessions
\* share one entry, which the first to log in makes: the entry stays until one
\* of them has run to the end of OnDisconnected, which removes it by id whosever
\* it is.
AccountListed ==
  \A s \in Sessions :
    /\ conn[s] = "up" /\ player[s]
    /\ \A a \in Strands : Session(a) = s => pc[a] # "add"
    /\ \A u \in SameId(s) : pc[<<u, "disc">>] \notin {"clear", "done"}
    => registry[Account[s]] # {}

\* A client that waits for a room or a lobby is told that it is in, unless its
\* connection ends or one of three things happens, after which it is sent
\* nothing: no lobby has a free slot, a session of the same account is in the
\* place already, or such a session, leaving twice, takes the player out of the
\* room before NotiRoomEnter is sent.
Answered ==
  \A s \in Sessions :
    client[s] = "toRoom" \/ (client[s] = "toLobby" /\ player[s]) ~>
      client[s] \in {"inLobby", "inRoom", "ignored"} \/ conn[s] # "up"

-----------------------------------------------------------------------------
(* What OneSeat rests on, for the clients that wait for their answers. *)

\* The threads that work for s and do not disconnect it.
Busy(s) == {a \in Strands : Session(a) = s /\ ~IsDisc(a) /\ pc[a] \notin {"idle", "done"}}

Queued(x, op, s) == Contains(queue[x], Job(op, s))

Coming(s) == {Job("enter", s), Job("noti", s)}

\* When the jobs q have run, s is one of the members m: it is one and does not
\* leave, or it comes and does not leave after that.
EndsUpIn(q, m, s) ==
  \/ s \in m /\ ~Contains(q, Job("leave", s))
  \/ \E i \in DOMAIN q :
       /\ q[i] = Job("enter", s)
       /\ \A k \in DOMAIN q : i < k => q[k] # Job("leave", s)

Stays(x, s) == EndsUpIn(queue[x], members[x], s)

\* s comes once, and while it is connected it does not leave behind that.
ComesOnce(q, s) == \A i, k \in DOMAIN q : q[i] \in Coming(s) /\ i < k => q[k] \notin Coming(s)
Remains(q, s)   == \A i, k \in DOMAIN q : q[i] = Job("enter", s) /\ i < k => q[k] # Job("leave", s)

ToLobby == {"pickLobby", "tryLobby", "scanLobbies", "enterLobby"}
ToRoom  == {"resetLobby", "scanRooms", "makeRoom", "enterRoom"}
Undo    == {"idle", "leaveLobby", "resetLobby", "leaveRoom", "resetRoom", "remove", "clear", "done"}

\* One thread at a time works for s, besides the one that disconnects it.
OneStrand(s) ==
  /\ \A a, b \in Busy(s) : a = b
  /\ pc[<<s, "disc">>] \in IF conn[s] = "up" THEN {"idle"} ELSE Undo
  /\ ~processed[s] => client[s] = "toLobby" /\ Busy(s) = {}
  /\ \A a \in Busy(s) :
       IF IsLogin(a)
       THEN client[s] = "toLobby" /\ pc[a] \in ToLobby \cup {"setPlayer", "add"}
       ELSE \/ client[s] = "toLobby" /\ pc[a] \in ToLobby \cup {"leaveRoom", "resetRoom"}
            \/ client[s] = "toRoom" /\ pc[a] \in ToRoom \cup {"leaveLobby"}

\* While the Enter job or the broadcast behind it waits, the client waits too.
JobsWait(s) ==
  \A x \in Places :
    /\ Queued(x, "enter", s) \/ Queued(x, "noti", s) =>
         /\ processed[s] /\ Busy(s) = {} /\ client[s] \in {"toLobby", "toRoom"}
         /\ \A y \in Places \ {x} : ~Queued(y, "enter", s) /\ ~Queued(y, "noti", s)
    /\ ComesOnce(queue[x], s)
    /\ conn[s] = "up" => Remains(queue[x], s)

\* s ends up in one place at most, in none while a thread looks for the next,
\* and its pointer says which before the thread leaves it.
Seated(s) ==
  \A x \in Places : Stays(x, s) =>
    /\ processed[s]
    /\ conn[s] = "up" /\ Busy(s) = {} =>
         /\ client[s] = "inLobby" => lobbyOf[s] = x
         /\ client[s] = "inRoom" => roomOf[s] = x
         /\ \A y \in Places : Queued(y, "noti", s) => roomOf[s] = x
    /\ \A a \in Busy(s) :
         \/ pc[a] = "leaveLobby" /\ lobbyOf[s] = x /\ pc[<<s, "disc">>] # "resetLobby"
         \/ pc[a] = "leaveRoom" /\ roomOf[s] = x /\ pc[<<s, "disc">>] # "resetRoom"
    /\ \A y \in Places : Stays(y, s) => x = y

\* The invariant behind OneSeat.
SeatInv == \A s \in Sessions : client[s] # "any" => OneStrand(s) /\ JobsWait(s) /\ Seated(s)

=============================================================================
