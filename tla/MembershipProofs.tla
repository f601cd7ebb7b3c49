-------------------------- MODULE MembershipProofs --------------------------
(***************************************************************************)
(* Proofs about Membership: the slots of lobbies and rooms are exact, a    *)
(* reservation is honoured, and an account that plays is listed.           *)
(*                                                                         *)
(* SlotsExact is a sum of four numbers, and a step of a strand or a job    *)
(* moves one from a term to another.  That the moves balance needs more:   *)
(*   - a strand that holds a slot of a place posts its job to that place   *)
(*     (AtAgrees), so that the slot moves from Holding to Pending;         *)
(*   - OnDisconnected starts once (DiscOnce), so that a refused login does *)
(*     not overwrite a disconnect strand;                                  *)
(*   - a place has a player id once (OneOfId), so that Leave, which erases *)
(*     by id, takes out one member for the one slot it gives back.         *)
(* IndInv joins these and the types.  The lemmas count: what Append, Tail  *)
(* and Goto change in Pending and Holding (EntersAppend ... SlotsQuiet),   *)
(* then one lemma for each group of actions.  AccountListed, at the end,   *)
(* needs besides that only the end of a session removes an entry.          *)
(***************************************************************************)
EXTENDS Membership, FiniteSetTheorems, TLAPS

(* A strand belongs to a session, and there are finitely many. *)
LEMMA StrandFacts ==
  /\ \A a \in Strands : Session(a) \in Sessions
  /\ \A s \in Sessions : <<s, "recv">> \in Strands /\ <<s, "disc">> \in Strands
  /\ \A s \in Sessions : IsDisc(<<s, "disc">>) /\ ~IsDisc(<<s, "recv">>)
  /\ \A s, u \in Sessions : <<s, "disc">> = <<u, "disc">> => s = u
  /\ \A a \in Strands : IsDisc(a) => a = <<Session(a), "disc">>
  /\ IsFiniteSet(Strands)
  <1>1. IsFiniteSet({"recv", "disc"} \cup LoginIds)
    <2>1. IsFiniteSet({"recv"}) /\ IsFiniteSet({"disc"})
      BY FS_Singleton, Zenon
    <2>2. IsFiniteSet({"recv"} \cup {"disc"})
      BY <2>1, FS_Union, Zenon
    <2>3. {"recv", "disc"} = {"recv"} \cup {"disc"}
      BY Zenon
    <2> QED BY <2>2, <2>3, FS_Union, FiniteAssumption, Zenon
  <1>2. IsFiniteSet(Strands)
    BY <1>1, FS_Product, FiniteAssumption, Zenon DEF Strands
  <1>3. \A s \in Sessions : IsDisc(<<s, "disc">>) /\ ~IsDisc(<<s, "recv">>)
    BY DEF IsDisc
  <1>4. \A s, u \in Sessions : <<s, "disc">> = <<u, "disc">> => s = u
    OBVIOUS
  <1>5. \A a \in Strands : a = <<a[1], a[2]>>
    BY DEF Strands
  <1>6. \A a \in Strands : IsDisc(a) => a = <<Session(a), "disc">>
    BY <1>5, Zenon DEF IsDisc, Session
  <1> QED BY <1>2, <1>3, <1>4, <1>6, Zenon DEF Strands, Session

(* Places are numbers from 1, and no place is a lobby and a room. *)
LEMMA PlaceFacts ==
  /\ Lobbies \subseteq Places /\ Rooms \subseteq Places
  /\ Places \subseteq Nat /\ None \notin Places
  /\ \A x \in Places : Capacity(x) \in Nat
  BY SizesAssumption DEF Places, Lobbies, Rooms, None, Capacity

(* A queue has finitely many Enter jobs. *)
LEMMA EntersFinite ==
  ASSUME NEW q \in Seq(Jobs)
  PROVE  IsFiniteSet(Enters(q)) /\ Cardinality(Enters(q)) \in Nat
  <1>1. IsFiniteSet(1 .. Len(q)) /\ Enters(q) \in SUBSET (1 .. Len(q))
    BY FS_Interval DEF Enters
  <1> QED BY <1>1, FS_Subset, FS_CardinalityType, Zenon

(* Posting a job adds an Enter job only if it is one. *)
LEMMA EntersAppend ==
  ASSUME NEW q \in Seq(Jobs), NEW j \in Jobs
  PROVE  /\ j.op = "enter" => Cardinality(Enters(Append(q, j))) = Cardinality(Enters(q)) + 1
         /\ j.op # "enter" => Cardinality(Enters(Append(q, j))) = Cardinality(Enters(q))
  <1>1. IsFiniteSet(Enters(q)) /\ Cardinality(Enters(q)) \in Nat
    BY EntersFinite, Zenon
  <1>2. ASSUME j.op = "enter" PROVE Cardinality(Enters(Append(q, j))) = Cardinality(Enters(q)) + 1
    <2>1. Enters(Append(q, j)) = Enters(q) \cup {Len(q) + 1} /\ Len(q) + 1 \notin Enters(q)
      BY <1>2 DEF Enters
    <2> QED BY <1>1, <2>1, FS_AddElement, Zenon
  <1>3. ASSUME j.op # "enter" PROVE Enters(Append(q, j)) = Enters(q)
    BY <1>3 DEF Enters
  <1> QED BY <1>1, <1>2, <1>3, Zenon

(* Taking the first job away. *)
LEMMA EntersTail ==
  ASSUME NEW q \in Seq(Jobs), q # <<>>
  PROVE  /\ Tail(q) \in Seq(Jobs)
         /\ Head(q).op = "enter" => Cardinality(Enters(q)) = Cardinality(Enters(Tail(q))) + 1
         /\ Head(q).op # "enter" => Cardinality(Enters(q)) = Cardinality(Enters(Tail(q)))
  <1>0. Tail(q) \in Seq(Jobs)
    OBVIOUS
  <1>1. IsFiniteSet(Enters(Tail(q))) /\ Cardinality(Enters(Tail(q))) \in Nat
    BY <1>0, EntersFinite, Zenon
  <1> DEFINE T == Enters(q) \ {1}
             f == [i \in Enters(Tail(q)) |-> i + 1]
  <1>2. \A i \in Enters(Tail(q)) : i \in Nat /\ i + 1 \in T
    BY DEF Enters
  <1>3. \A k \in T : \E i \in Enters(Tail(q)) : k = i + 1
    <2>1. SUFFICES ASSUME NEW k \in T PROVE k - 1 \in Enters(Tail(q)) /\ k = (k - 1) + 1
      BY <2>1
    <2> QED BY DEF Enters
  <1>4. f \in Bijection(Enters(Tail(q)), T)
    <2>1. f \in [Enters(Tail(q)) -> T]
      BY <1>2, Zenon
    <2>2. \A a, b \in Enters(Tail(q)) : f[a] = f[b] => a = b
      BY <1>2
    <2>3. \A k \in T : \E i \in Enters(Tail(q)) : f[i] = k
      BY <1>3, Zenon
    <2> HIDE DEF f, T
    <2> QED BY <2>1, <2>2, <2>3, Zenon DEF Bijection, Injection, Surjection, IsInjective
  <1>5. IsFiniteSet(T) /\ Cardinality(T) = Cardinality(Enters(Tail(q)))
    <2> HIDE DEF f, T
    <2>1. ExistsBijection(Enters(Tail(q)), T)
      BY <1>4, Zenon DEF ExistsBijection
    <2> QED BY <1>1, <2>1, FS_Bijection, Zenon
  <1>6. ASSUME Head(q).op = "enter" PROVE Cardinality(Enters(q)) = Cardinality(T) + 1
    <2>1. Enters(q) = T \cup {1} /\ 1 \notin T
      BY <1>6 DEF Enters
    <2> HIDE DEF T
    <2> QED BY <1>5, <2>1, FS_AddElement, Zenon
  <1>7. ASSUME Head(q).op # "enter" PROVE Enters(q) = T
    BY <1>7 DEF Enters
  <1> QED BY <1>0, <1>5, <1>6, <1>7, Zenon

-----------------------------------------------------------------------------
(* The parts that are counted are finite. *)
LEMMA CountsAreNat ==
  ASSUME TypeOK, NEW x \in Places
  PROVE  /\ avail[x] \in Nat /\ queue[x] \in Seq(Jobs)
         /\ IsFiniteSet(members[x]) /\ Cardinality(members[x]) \in Nat
         /\ Cardinality(Pending(x)) \in Nat
         /\ IsFiniteSet(Holding(x)) /\ Cardinality(Holding(x)) \in Nat
  <1>1. avail[x] \in Nat /\ queue[x] \in Seq(Jobs) /\ members[x] \in SUBSET Sessions
    BY Zenon DEF TypeOK
  <1>2. IsFiniteSet(members[x]) /\ Cardinality(members[x]) \in Nat
    BY <1>1, FS_Subset, FS_CardinalityType, FiniteAssumption, Zenon
  <1>3. Holding(x) \in SUBSET Strands
    BY Zenon DEF Holding
  <1>4. IsFiniteSet(Holding(x)) /\ Cardinality(Holding(x)) \in Nat
    BY <1>3, StrandFacts, FS_Subset, FS_CardinalityType, Zenon
  <1>6. Cardinality(Pending(x)) \in Nat
    BY <1>1, EntersFinite, Zenon DEF Pending
  <1> QED BY <1>1, <1>2, <1>4, <1>6, Zenon

(* A step that changes the counts of one place only. *)
LEMMA SlotsOfOne ==
  ASSUME SlotsExact, NEW x \in Places,
         \A y \in Places \ {x} : avail'[y] = avail[y] /\ members'[y] = members[y]
                                 /\ queue'[y] = queue[y] /\ Holding(y)' = Holding(y),
         avail'[x] + Cardinality(members'[x]) + Cardinality(Pending(x)') + Cardinality(Holding(x)')
           = avail[x] + Cardinality(members[x]) + Cardinality(Pending(x)) + Cardinality(Holding(x))
  PROVE  SlotsExact'
  <1>1. SUFFICES ASSUME NEW y \in Places
        PROVE avail'[y] + Cardinality(members'[y]) + Cardinality(Pending(y)') + Cardinality(Holding(y)')
                = Capacity(y)
    BY Zenon DEF SlotsExact, Capacity, Lobbies
  <1>2. avail[y] + Cardinality(members[y]) + Cardinality(Pending(y)) + Cardinality(Holding(y))
                = Capacity(y)
    BY Zenon DEF SlotsExact
  <1>3. CASE y = x
    BY <1>2, <1>3, Zenon
  <1>4. CASE y # x
    <2>1. avail'[y] = avail[y] /\ members'[y] = members[y] /\ queue'[y] = queue[y] /\ Holding(y)' = Holding(y)
      BY <1>4, Zenon
    <2>2. Pending(y)' = Pending(y)
      BY <2>1, Zenon DEF Pending
    <2> QED BY <1>2, <2>1, <2>2, Zenon
  <1> QED BY <1>3, <1>4, Zenon

(* A strand moves on without taking or giving a reservation. *)
LEMMA HoldingKept ==
  ASSUME TypeOK, NEW a \in Strands, NEW step, NEW y, Goto(a, step, y),
         pc[a] \notin Reserved, step \notin Reserved
  PROVE  \A x \in Places : Holding(x)' = Holding(x)
  <1>1. \A b \in Strands : b # a => pc'[b] = pc[b] /\ at'[b] = at[b]
    BY Zenon DEF TypeOK, Goto
  <1>2. pc'[a] = step
    BY Zenon DEF TypeOK, Goto
  <1> QED BY <1>1, <1>2, Zenon DEF Holding

(* A strand reserves a slot: the slot is now the reservation. *)
LEMMA SlotTaken ==
  ASSUME TypeOK, SlotsExact, NEW a \in Strands, NEW step \in Reserved, NEW x \in Places,
         pc[a] \notin Reserved, TryReserveSlot(x), Goto(a, step, x), UNCHANGED <<members, queue>>
  PROVE  SlotsExact'
  <1>1. \A b \in Strands : b # a => pc'[b] = pc[b] /\ at'[b] = at[b]
    BY Zenon DEF TypeOK, Goto
  <1>2. pc'[a] = step /\ at'[a] = x
    BY Zenon DEF TypeOK, Goto
  <1>3. Holding(x)' = Holding(x) \cup {a} /\ a \notin Holding(x)
    BY <1>1, <1>2, Zenon DEF Holding
  <1>4. \A y \in Places \ {x} : Holding(y)' = Holding(y)
    BY <1>1, <1>2, Zenon DEF Holding
  <1>5. Cardinality(Holding(x)') = Cardinality(Holding(x)) + 1
    BY <1>3, CountsAreNat, FS_AddElement, Zenon
  <1>6. avail'[x] = avail[x] - 1 /\ \A y \in Places \ {x} : avail'[y] = avail[y]
    BY Zenon DEF TryReserveSlot, TypeOK
  <1>7. Pending(x)' = Pending(x)
    BY Zenon DEF Pending
  <1>8. avail'[x] + Cardinality(members'[x]) + Cardinality(Pending(x)') + Cardinality(Holding(x)')
           = avail[x] + Cardinality(members[x]) + Cardinality(Pending(x)) + Cardinality(Holding(x))
    <2>1. /\ avail[x] \in Nat /\ Cardinality(members[x]) \in Nat
          /\ Cardinality(Pending(x)) \in Nat /\ Cardinality(Holding(x)) \in Nat
      BY CountsAreNat, Zenon
    <2> QED BY <2>1, <1>5, <1>6, <1>7
  <1> QED BY <1>4, <1>6, <1>8, SlotsOfOne, Zenon

(* It posts the Enter job: the reservation goes with the job. *)
LEMMA SlotPosted ==
  ASSUME TypeOK, SlotsExact, NEW a \in Strands, NEW x \in Places,
         pc[a] \in Reserved, at[a] = x, Post(x, "enter", Session(a)), Finish(a),
         UNCHANGED <<avail, members>>
  PROVE  SlotsExact'
  <1> DEFINE j == Job("enter", Session(a))
  <1>1. \A b \in Strands : b # a => pc'[b] = pc[b] /\ at'[b] = at[b]
    BY Zenon DEF TypeOK, Goto, Finish
  <1>2. pc'[a] \in {"done", "idle"}
    BY Zenon DEF TypeOK, Goto, Finish
  <1>3. Holding(x)' = Holding(x) \ {a} /\ a \in Holding(x)
    BY <1>1, <1>2, Zenon DEF Holding, Reserved
  <1>4. \A y \in Places \ {x} : Holding(y)' = Holding(y)
    BY <1>1, <1>2, Zenon DEF Holding, Reserved
  <1>5. Cardinality(Holding(x)') = Cardinality(Holding(x)) - 1
    BY <1>3, CountsAreNat, FS_RemoveElement, ZenonT(60)
  <1>6. queue'[x] = Append(queue[x], j) /\ \A y \in Places \ {x} : queue'[y] = queue[y]
    BY Zenon DEF Post, TypeOK
  <1>7. Cardinality(Pending(x)') = Cardinality(Pending(x)) + 1
    <2>1. j \in Jobs /\ j.op = "enter"
      BY StrandFacts DEF Jobs, Job
    <2> HIDE DEF j
    <2> QED BY <1>6, <2>1, CountsAreNat, EntersAppend, Zenon DEF Pending
  <1>8. avail'[x] + Cardinality(members'[x]) + Cardinality(Pending(x)') + Cardinality(Holding(x)')
           = avail[x] + Cardinality(members[x]) + Cardinality(Pending(x)) + Cardinality(Holding(x))
    <2>1. /\ avail[x] \in Nat /\ Cardinality(members[x]) \in Nat
          /\ Cardinality(Pending(x)) \in Nat /\ Cardinality(Holding(x)) \in Nat
      BY CountsAreNat, Zenon
    <2> QED BY <2>1, <1>5, <1>7
  <1> QED BY <1>4, <1>6, <1>8, SlotsOfOne, Zenon

(* No slot changes hands: at most a job that is no Enter job is posted. *)
LEMMA SlotsQuiet ==
  ASSUME TypeOK, SlotsExact, UNCHANGED <<avail, members>>,
         \A x \in Places : Holding(x)' = Holding(x),
         \/ queue' = queue
         \/ \E x \in Places, j \in Jobs : j.op # "enter" /\ queue' = [queue EXCEPT ![x] = Append(@, j)]
  PROVE  SlotsExact'
  <1>1. CASE queue' = queue
    BY <1>1, Zenon DEF SlotsExact, Pending, Capacity, Lobbies
  <1>2. ASSUME NEW x \in Places, NEW j \in Jobs, j.op # "enter",
               queue' = [queue EXCEPT ![x] = Append(@, j)]
        PROVE  SlotsExact'
    <2>1. queue'[x] = Append(queue[x], j) /\ \A y \in Places \ {x} : queue'[y] = queue[y]
      BY <1>2, Zenon DEF TypeOK
    <2>2. Cardinality(Pending(x)') = Cardinality(Pending(x))
      BY <1>2, <2>1, CountsAreNat, EntersAppend, Zenon DEF Pending
    <2> QED BY <2>1, <2>2, SlotsOfOne, Zenon
  <1> QED BY <1>1, <1>2, Zenon

-----------------------------------------------------------------------------
\* The places a strand may look at in each of its steps.
Fits(step, y) ==
  /\ step \in Steps /\ y \in Nat
  /\ step \in {"tryLobby", "enterLobby"} => y \in Lobbies
  /\ step = "scanRooms" => y > LobbyCount
  /\ step = "enterRoom" => y \in Rooms

(* A strand moves on. *)
LEMMA MoveInv ==
  ASSUME IndInv, NEW a \in Strands, NEW step, NEW y, Fits(step, y), Goto(a, step, y),
         pc[a] # "idle" \/ ~IsDisc(a), UNCHANGED <<conn, members>>
  PROVE  pc' \in [Strands -> Steps] /\ at' \in [Strands -> Nat] /\ AtAgrees' /\ DiscOnce' /\ OneOfId'
  <1>1. pc' \in [Strands -> Steps] /\ at' \in [Strands -> Nat]
    BY Zenon DEF IndInv, TypeOK, Goto, Fits
  <1>2. \A b \in Strands : b # a => pc'[b] = pc[b] /\ at'[b] = at[b]
    BY Zenon DEF IndInv, TypeOK, Goto
  <1>3. pc'[a] = step /\ at'[a] = y
    BY Zenon DEF IndInv, TypeOK, Goto
  <1>4. AtAgrees'
    <2>1. SUFFICES ASSUME NEW b \in Strands
          PROVE /\ pc'[b] \in {"tryLobby", "enterLobby"} => at'[b] \in Lobbies
                /\ pc'[b] = "scanRooms" => at'[b] > LobbyCount
                /\ pc'[b] = "enterRoom" => at'[b] \in Rooms
      BY Zenon DEF AtAgrees, Lobbies, Rooms
    <2>2. CASE b = a
      BY <1>3, <2>2, Zenon DEF Fits
    <2>3. CASE b # a
      BY <1>2, <2>3, Zenon DEF IndInv, AtAgrees
    <2> QED BY <2>2, <2>3, Zenon
  <1>5. DiscOnce'
    <2>1. SUFFICES ASSUME NEW s \in Sessions, conn[s] = "up" PROVE pc'[<<s, "disc">>] = "idle"
      BY Zenon DEF DiscOnce
    <2>2. pc[<<s, "disc">>] = "idle" /\ <<s, "disc">> \in Strands
      BY <2>1, StrandFacts, Zenon DEF IndInv, DiscOnce
    <2>3. <<s, "disc">> # a
      BY <2>2, StrandFacts, Zenon
    <2> QED BY <1>2, <2>2, <2>3, Zenon
  <1>6. OneOfId'
    BY Zenon DEF IndInv, OneOfId
  <1> QED BY <1>1, <1>4, <1>5, <1>6, Zenon

(* A strand moves on and no slot changes hands. *)
LEMMA QuietMove ==
  ASSUME IndInv, NEW a \in Strands, NEW step, NEW y, Fits(step, y), Goto(a, step, y),
         pc[a] # "idle" \/ ~IsDisc(a), pc[a] \notin Reserved, step \notin Reserved,
         UNCHANGED <<conn, members, avail>>,
         \/ queue' = queue
         \/ \E x \in Places, j \in Jobs : j.op # "enter" /\ queue' = [queue EXCEPT ![x] = Append(@, j)],
         lobbyOf' \in [Sessions -> Lobbies \cup {None}], roomOf' \in [Sessions -> Rooms \cup {None}],
         processed' \in [Sessions -> BOOLEAN], player' \in [Sessions -> BOOLEAN],
         registry' \in [Accounts -> SUBSET Sessions], UNCHANGED roomNum,
         client' \in [Sessions -> ClientStates],
         asked' \in 0 .. AskBound
  PROVE  IndInv'
  <1>0. TypeOK /\ SlotsExact
    BY Zenon DEF IndInv
  <1>1. pc' \in [Strands -> Steps] /\ at' \in [Strands -> Nat] /\ AtAgrees' /\ DiscOnce' /\ OneOfId'
    BY MoveInv, Zenon
  <1>2. \A x \in Places : Holding(x)' = Holding(x)
    BY <1>0, HoldingKept, Zenon
  <1>3. SlotsExact'
    BY <1>0, <1>2, SlotsQuiet, Zenon
  <1>4. queue' \in [Places -> Seq(Jobs)]
    <2>1. ASSUME NEW x \in Places, NEW j \in Jobs, queue' = [queue EXCEPT ![x] = Append(@, j)]
          PROVE  queue' \in [Places -> Seq(Jobs)]
      <3>1. Append(queue[x], j) \in Seq(Jobs)
        BY <1>0 DEF TypeOK
      <3> QED BY <1>0, <2>1, <3>1, Zenon DEF TypeOK
    <2> QED BY <1>0, <2>1, Zenon DEF TypeOK
  <1>5. TypeOK'
    BY <1>0, <1>1, <1>4, Zenon DEF TypeOK, Capacity, Lobbies
  <1> QED BY <1>1, <1>3, <1>5, Zenon DEF IndInv

(* A strand reserves a slot. *)
LEMMA TakingMove ==
  ASSUME IndInv, NEW a \in Strands, NEW step \in Reserved, NEW x \in Places, Fits(step, x),
         TryReserveSlot(x), Goto(a, step, x), pc[a] # "idle", pc[a] \notin Reserved,
         UNCHANGED <<sessionVars, playerVars, clientVars, members, queue>>,
         roomNum' \in 0 .. RoomBound
  PROVE  IndInv'
  <1> USE DEF sessionVars, playerVars, clientVars
  <1>0. TypeOK /\ SlotsExact
    BY Zenon DEF IndInv
  <1>1. pc' \in [Strands -> Steps] /\ at' \in [Strands -> Nat] /\ AtAgrees' /\ DiscOnce' /\ OneOfId'
    BY MoveInv, Zenon
  <1>2. SlotsExact'
    BY <1>0, SlotTaken, Zenon
  <1>3. avail' \in [Places -> Nat] /\ \A y \in Places : avail'[y] <= Capacity(y)
    BY <1>0, PlaceFacts DEF TypeOK, TryReserveSlot
  <1>4. TypeOK'
    BY <1>0, <1>1, <1>3, Zenon DEF TypeOK, Capacity, Lobbies
  <1> QED BY <1>1, <1>2, <1>4, Zenon DEF IndInv

(* A strand posts the Enter job and is done. *)
LEMMA PostingMove ==
  ASSUME IndInv, NEW a \in Strands, pc[a] \in Reserved, Post(at[a], "enter", Session(a)), Finish(a),
         UNCHANGED <<sessionVars, playerVars, clientVars, avail, members, roomNum>>
  PROVE  IndInv'
  <1> USE DEF sessionVars, playerVars, clientVars
  <1>0. TypeOK /\ SlotsExact
    BY Zenon DEF IndInv
  <1>1. PICK step \in {"done", "idle"} : Goto(a, step, None)
    BY Zenon DEF Finish
  <1>2. Fits(step, None)
    BY <1>1 DEF Fits, Steps, None
  <1>3. pc' \in [Strands -> Steps] /\ at' \in [Strands -> Nat] /\ AtAgrees' /\ DiscOnce' /\ OneOfId'
    BY <1>1, <1>2, MoveInv, Zenon DEF Reserved
  <1>4. at[a] \in Places
    BY PlaceFacts, Zenon DEF IndInv, AtAgrees, Reserved
  <1>5. SlotsExact'
    BY <1>0, <1>4, SlotPosted, Zenon
  <1>6. queue' \in [Places -> Seq(Jobs)]
    <2>1. Append(queue[at[a]], Job("enter", Session(a))) \in Seq(Jobs)
      <3>1. queue[at[a]] \in Seq(Jobs) /\ Session(a) \in Sessions
        BY <1>0, <1>4, StrandFacts, Zenon DEF TypeOK
      <3>2. Job("enter", Session(a)) \in Jobs
        BY <3>1 DEF Jobs, Job
      <3> QED BY <3>1, <3>2
    <2> QED BY <1>0, <2>1, Zenon DEF TypeOK, Post
  <1>7. TypeOK'
    BY <1>0, <1>3, <1>6, Zenon DEF TypeOK, Capacity, Lobbies
  <1> QED BY <1>3, <1>5, <1>7, Zenon DEF IndInv

-----------------------------------------------------------------------------
(* What the client has been told. *)
LEMMA ClientTypes ==
  ASSUME client \in [Sessions -> ClientStates], NEW s,
         \/ Ignored(s) \/ Told(s, "toLobby", "inLobby") \/ Told(s, "toRoom", "inRoom") \/ UNCHANGED client
  PROVE  client' \in [Sessions -> ClientStates]
  BY Zenon DEF Ignored, Told, ClientStates

(* Leaving: the Leave job is posted and the pointer reset. *)
LEMMA LeavingInv ==
  ASSUME IndInv, NEW a \in Strands, LeaveLobby(a) \/ ResetLobby(a) \/ LeaveRoom(a) \/ ResetRoom(a)
  PROVE  IndInv'
  <1> USE DEF sessionVars, playerVars, placeVars, clientVars
  <1>0. TypeOK /\ Session(a) \in Sessions
    BY StrandFacts, Zenon DEF IndInv
  <1>1. /\ Fits("resetLobby", None) /\ Fits("resetRoom", None) /\ Fits("leaveRoom", None)
        /\ Fits("remove", None) /\ Fits("pickLobby", None) /\ Fits("scanRooms", LobbyCount + 1)
    BY SizesAssumption DEF Fits, Steps, None
  <1>2. Job("leave", Session(a)) \in Jobs /\ Job("leave", Session(a)).op # "enter"
    BY <1>0 DEF Jobs, Job
  <1>3. CASE LeaveLobby(a)
    <2>1. lobbyOf[Session(a)] = None \/ lobbyOf[Session(a)] \in Places
      BY <1>0, PlaceFacts, Zenon DEF TypeOK
    <2>2. \/ queue' = queue
          \/ \E x \in Places, j \in Jobs : j.op # "enter" /\ queue' = [queue EXCEPT ![x] = Append(@, j)]
      BY <1>2, <1>3, <2>1, Zenon DEF LeaveLobby, Post
    <2> QED BY <1>0, <1>1, <1>3, <2>2, QuietMove, Zenon DEF LeaveLobby, TypeOK, Reserved
  <1>4. CASE ResetLobby(a)
    <2>1. lobbyOf' \in [Sessions -> Lobbies \cup {None}]
      BY <1>0, <1>4, Zenon DEF ResetLobby, TypeOK
    <2>2. PICK step \in {"leaveRoom", "scanRooms"}, y \in {None, LobbyCount + 1} :
            Fits(step, y) /\ Goto(a, step, y)
      BY <1>1, <1>4, Zenon DEF ResetLobby
    <2> QED BY <1>0, <1>4, <2>1, <2>2, QuietMove, Zenon DEF ResetLobby, TypeOK, Reserved
  <1>5. CASE LeaveRoom(a)
    <2>1. roomOf[Session(a)] = None \/ roomOf[Session(a)] \in Places
      BY <1>0, PlaceFacts, Zenon DEF TypeOK
    <2>2. \/ queue' = queue
          \/ \E x \in Places, j \in Jobs : j.op # "enter" /\ queue' = [queue EXCEPT ![x] = Append(@, j)]
      BY <1>2, <1>5, <2>1, Zenon DEF LeaveRoom, Post
    <2> QED BY <1>0, <1>1, <1>5, <2>2, QuietMove, Zenon DEF LeaveRoom, TypeOK, Reserved
  <1>6. CASE ResetRoom(a)
    <2>1. roomOf' \in [Sessions -> Rooms \cup {None}]
      BY <1>0, <1>6, Zenon DEF ResetRoom, TypeOK
    <2>2. PICK step \in {"remove", "pickLobby"} : Fits(step, None) /\ Goto(a, step, None)
      BY <1>1, <1>6, Zenon DEF ResetRoom
    <2> QED BY <1>0, <1>6, <2>1, <2>2, QuietMove, Zenon DEF ResetRoom, TypeOK, Reserved
  <1> QED BY <1>3, <1>4, <1>5, <1>6, Zenon

(* Looking for a lobby. *)
LEMMA LobbyInv ==
  ASSUME IndInv, NEW a \in Strands, PickLobby(a) \/ TryLobby(a) \/ ScanLobbies(a) \/ EnterLobby(a)
  PROVE  IndInv'
  <1> USE DEF sessionVars, playerVars, placeVars, clientVars
  <1>0. TypeOK /\ Lobbies \subseteq Places /\ Lobbies \subseteq Nat
    BY PlaceFacts, Zenon DEF IndInv
  <1>1. /\ \A y \in Nat : Fits("scanLobbies", y)
        /\ 1 \in Nat /\ Fits("scanLobbies", 1) /\ Fits("done", None) /\ Fits("idle", None)
    BY DEF Fits, Steps, None
  <1>2. \A y \in Lobbies : Fits("tryLobby", y) /\ Fits("enterLobby", y)
    BY <1>0, Zenon DEF Fits, Steps
  <1>3. CASE PickLobby(a)
    <2>1. PICK step \in {"tryLobby", "scanLobbies"}, y \in Nat : Fits(step, y) /\ Goto(a, step, y)
      BY <1>0, <1>1, <1>2, <1>3, Zenon DEF PickLobby, Open
    <2> QED BY <1>0, <1>3, <2>1, QuietMove, Zenon DEF PickLobby, TypeOK, Reserved
  <1>4. CASE TryLobby(a)
    <2>1. at[a] \in Lobbies
      BY <1>4, Zenon DEF TryLobby, IndInv, AtAgrees
    <2>2. CASE TryReserveSlot(at[a]) /\ Goto(a, "enterLobby", at[a])
      BY <1>0, <1>2, <1>4, <2>1, <2>2, TakingMove, Zenon DEF TryLobby, TypeOK, Reserved
    <2>3. CASE Goto(a, "scanLobbies", 1) /\ UNCHANGED avail
      BY <1>0, <1>1, <1>4, <2>3, QuietMove, Zenon DEF TryLobby, TypeOK, Reserved
    <2> QED BY <1>4, <2>2, <2>3, Zenon DEF TryLobby
  <1>5. CASE ScanLobbies(a)
    <2>1. CASE at[a] \in Lobbies /\ TryReserveSlot(at[a]) /\ Goto(a, "enterLobby", at[a]) /\ UNCHANGED client
      BY <1>0, <1>2, <1>5, <2>1, TakingMove, Zenon DEF ScanLobbies, TypeOK, Reserved
    <2>2. CASE Goto(a, "scanLobbies", at[a] + 1) /\ UNCHANGED <<avail, client>>
      <3>1. at[a] + 1 \in Nat
        BY <1>0 DEF TypeOK
      <3> QED BY <1>0, <1>1, <1>5, <2>2, <3>1, QuietMove, Zenon DEF ScanLobbies, TypeOK, Reserved
    <2>3. CASE Finish(a) /\ Ignored(Session(a)) /\ UNCHANGED avail
      <3>1. PICK step \in {"done", "idle"} : Goto(a, step, None) /\ Fits(step, None)
        BY <1>1, <2>3, Zenon DEF Finish
      <3>2. client' \in [Sessions -> ClientStates]
        BY <1>0, <2>3, ClientTypes, Zenon DEF TypeOK
      <3> QED BY <1>0, <1>5, <2>3, <3>1, <3>2, QuietMove, Zenon DEF ScanLobbies, TypeOK, Reserved
    <2> QED BY <1>5, <2>1, <2>2, <2>3, Zenon DEF ScanLobbies
  <1>6. CASE EnterLobby(a)
    BY <1>6, PostingMove, Zenon DEF EnterLobby, Reserved
  <1> QED BY <1>3, <1>4, <1>5, <1>6, Zenon

(* Looking for a room. *)
LEMMA RoomInv ==
  ASSUME IndInv, NEW a \in Strands, ScanRooms(a) \/ MakeRoom(a) \/ EnterRoom(a)
  PROVE  IndInv'
  <1> USE DEF sessionVars, playerVars, placeVars, clientVars
  <1>0. TypeOK /\ Rooms \subseteq Places /\ Rooms \subseteq Nat /\ at[a] \in Nat
    BY PlaceFacts, Zenon DEF IndInv, TypeOK
  <1>1. \A y \in Rooms : Fits("enterRoom", y)
    BY <1>0, Zenon DEF Fits, Steps
  <1>2. CASE ScanRooms(a)
    <2>0. at[a] > LobbyCount
      BY <1>2, Zenon DEF ScanRooms, IndInv, AtAgrees
    <2>1. CASE at[a] <= LobbyCount + roomNum /\ TryReserveSlot(at[a]) /\ Goto(a, "enterRoom", at[a])
      <3>1. at[a] \in Rooms
        BY <1>0, <2>0, <2>1, SizesAssumption DEF TypeOK, Rooms
      <3> QED BY <1>0, <1>1, <1>2, <2>1, <3>1, TakingMove, Zenon DEF ScanRooms, TypeOK, Reserved
    <2>2. CASE Goto(a, "scanRooms", at[a] + 1) /\ UNCHANGED avail
      <3>1. Fits("scanRooms", at[a] + 1)
        BY <1>0, <2>0, SizesAssumption DEF Fits, Steps
      <3> QED BY <1>0, <1>2, <2>2, <3>1, QuietMove, Zenon DEF ScanRooms, TypeOK, Reserved
    <2>3. CASE Goto(a, "makeRoom", None) /\ UNCHANGED avail
      <3>1. Fits("makeRoom", None)
        BY DEF Fits, Steps, None
      <3> QED BY <1>0, <1>2, <2>3, <3>1, QuietMove, Zenon DEF ScanRooms, TypeOK, Reserved
    <2> QED BY <1>2, <2>1, <2>2, <2>3, Zenon DEF ScanRooms
  <1>3. CASE MakeRoom(a)
    <2>1. LobbyCount + roomNum + 1 \in Rooms /\ roomNum' \in 0 .. RoomBound
      BY <1>0, <1>3, SizesAssumption DEF MakeRoom, TypeOK, Rooms
    <2> QED BY <1>0, <1>1, <1>3, <2>1, TakingMove, Zenon DEF MakeRoom, Reserved
  <1>4. CASE EnterRoom(a)
    BY <1>4, PostingMove, Zenon DEF EnterRoom, Reserved
  <1> QED BY <1>2, <1>3, <1>4, Zenon

(* The player comes and goes. *)
LEMMA PlayerInv ==
  ASSUME IndInv, NEW a \in Strands, Remove(a) \/ ClearPlayer(a) \/ SetPlayer(a) \/ Add(a)
  PROVE  IndInv'
  <1> USE DEF sessionVars, playerVars, placeVars, clientVars
  <1>0. TypeOK /\ Session(a) \in Sessions /\ Account[Session(a)] \in Accounts
    BY StrandFacts, AccountAssumption, Zenon DEF IndInv
  <1>1. /\ Fits("clear", None) /\ Fits("add", None) /\ Fits("pickLobby", None)
        /\ Fits("done", None) /\ Fits("idle", None)
    BY DEF Fits, Steps, None
  <1>2. CASE Remove(a)
    <2>1. registry' \in [Accounts -> SUBSET Sessions]
      BY <1>0, <1>2, Zenon DEF Remove, TypeOK
    <2> QED BY <1>0, <1>1, <1>2, <2>1, QuietMove, Zenon DEF Remove, TypeOK, Reserved
  <1>3. CASE ClearPlayer(a)
    <2>1. player' \in [Sessions -> BOOLEAN]
      BY <1>0, <1>3, Zenon DEF ClearPlayer, TypeOK
    <2>2. PICK step \in {"done", "idle"} : Goto(a, step, None) /\ Fits(step, None)
      BY <1>1, <1>3, Zenon DEF ClearPlayer, Finish
    <2> QED BY <1>0, <1>3, <2>1, <2>2, QuietMove, Zenon DEF ClearPlayer, TypeOK, Reserved
  <1>4. CASE SetPlayer(a)
    <2>1. player' \in [Sessions -> BOOLEAN]
      BY <1>0, <1>4, Zenon DEF SetPlayer, TypeOK
    <2> QED BY <1>0, <1>1, <1>4, <2>1, QuietMove, Zenon DEF SetPlayer, TypeOK, Reserved
  <1>5. CASE Add(a)
    <2>1. registry' \in [Accounts -> SUBSET Sessions]
      BY <1>0, <1>5, Zenon DEF Add, TypeOK
    <2> QED BY <1>0, <1>1, <1>5, <2>1, QuietMove, Zenon DEF Add, TypeOK, Reserved
  <1> QED BY <1>2, <1>3, <1>4, <1>5, Zenon

(* Requests, disconnects and the end of a session. *)
LEMMA SessionInv ==
  ASSUME IndInv, NEW s \in Sessions, SessionStep(s)
  PROVE  IndInv'
  <1> USE DEF sessionVars, playerVars, placeVars, clientVars
  <1>0. TypeOK /\ SlotsExact /\ <<s, "recv">> \in Strands /\ <<s, "disc">> \in Strands
    BY StrandFacts, Zenon DEF IndInv
  <1>1. /\ Fits("leaveLobby", None) /\ Fits("leaveRoom", None) /\ Fits("clear", None)
    BY DEF Fits, Steps, None
  <1>2. ASSUME NEW from, NEW to \in {"toRoom", "toLobby"}, NEW step \in {"leaveLobby", "leaveRoom"},
               Ask(s, from, to, step)
        PROVE  IndInv'
    <2>1. asked' \in 0 .. AskBound
      BY <1>0, <1>2, SizesAssumption DEF Ask, TypeOK
    <2>2. client' \in [Sessions -> ClientStates]
      BY <1>0, <1>2, Zenon DEF Ask, TypeOK, ClientStates
    <2>3. ~IsDisc(<<s, "recv">>)
      BY DEF IsDisc
    <2> QED BY <1>0, <1>1, <1>2, <2>1, <2>2, <2>3, QuietMove, Zenon DEF Ask, TypeOK, Reserved
  <1>3. CASE Disconnect(s)
    <2>1. PICK step \in {"leaveLobby", "clear"} : Goto(<<s, "disc">>, step, None) /\ Fits(step, None)
      BY <1>1, <1>3, Zenon DEF Disconnect, DiscStep
    <2>2. pc[<<s, "disc">>] = "idle"
      BY <1>3, Zenon DEF Disconnect, Disconnecting, IndInv, DiscOnce
    <2>3. /\ pc' \in [Strands -> Steps] /\ at' \in [Strands -> Nat]
          /\ conn' \in [Sessions -> {"up", "down", "gone"}]
      BY <1>0, <1>3, <2>1, ZenonT(60) DEF TypeOK, Goto, Fits, Disconnect, Disconnecting
    <2>4. \A b \in Strands : b # <<s, "disc">> => pc'[b] = pc[b] /\ at'[b] = at[b]
      BY <1>0, <2>1, Zenon DEF TypeOK, Goto
    <2>5. pc'[<<s, "disc">>] = step
      BY <1>0, <2>1, Zenon DEF TypeOK, Goto
    <2>6. AtAgrees'
      BY <2>4, <2>5, Zenon DEF IndInv, AtAgrees, Lobbies, Rooms
    <2>7. DiscOnce'
      <3>1. SUFFICES ASSUME NEW u \in Sessions, conn'[u] = "up" PROVE pc'[<<u, "disc">>] = "idle"
        BY Zenon DEF DiscOnce
      <3>2. u # s /\ conn[u] = "up"
        BY <1>0, <1>3, <3>1, Zenon DEF TypeOK, Disconnect, Disconnecting
      <3>3. <<u, "disc">> # <<s, "disc">> /\ <<u, "disc">> \in Strands
        BY <3>2, StrandFacts, Zenon
      <3> QED BY <2>4, <3>2, <3>3, Zenon DEF IndInv, DiscOnce
    <2>8. \A x \in Places : Holding(x)' = Holding(x)
      BY <1>0, <2>1, <2>2, HoldingKept, Zenon DEF Reserved
    <2>9. SlotsExact'
      BY <1>0, <1>3, <2>8, SlotsQuiet, Zenon DEF Disconnect
    <2>10. TypeOK'
      BY <1>0, <1>3, <2>3, Zenon DEF Disconnect, TypeOK, Capacity, Lobbies
    <2>11. OneOfId'
      BY <1>3, Zenon DEF Disconnect, IndInv, OneOfId
    <2> QED BY <2>6, <2>7, <2>9, <2>10, <2>11, Zenon DEF IndInv
  <1>4. CASE Destroy(s)
    <2>1. conn' \in [Sessions -> {"up", "down", "gone"}]
      BY <1>0, <1>4, Zenon DEF Destroy, TypeOK
    <2>2. \A u \in Sessions : conn'[u] = "up" => conn[u] = "up"
      BY <1>0, <1>4, Zenon DEF Destroy, TypeOK
    <2>3. TypeOK'
      BY <1>0, <1>4, <2>1, Zenon DEF Destroy, TypeOK, Capacity, Lobbies
    <2>4. DiscOnce'
      BY <1>4, <2>2, Zenon DEF Destroy, IndInv, DiscOnce
    <2>5. AtAgrees' /\ OneOfId'
      BY <1>4, Zenon DEF Destroy, IndInv, AtAgrees, OneOfId, Lobbies, Rooms
    <2>6. \A x \in Places : Holding(x)' = Holding(x)
      BY <1>4, Zenon DEF Destroy, Holding
    <2>7. SlotsExact'
      BY <1>0, <1>4, <2>6, SlotsQuiet, Zenon DEF Destroy
    <2> QED BY <2>3, <2>4, <2>5, <2>7, Zenon DEF IndInv
  <1> QED BY <1>2, <1>3, <1>4, Zenon DEF SessionStep, ReqRoomEnter, ReqRoomExit

(* The answer to a login. *)
LEMMA LoginInv ==
  ASSUME IndInv, NEW a \in Strands, OnLoginResult(a)
  PROVE  IndInv'
  <1> USE DEF sessionVars, playerVars, placeVars, clientVars
  <1> DEFINE s == Session(a)
             d == <<s, "disc">>
  <1>0. TypeOK /\ SlotsExact /\ s \in Sessions /\ d \in Strands /\ pc[a] = "idle"
    BY StrandFacts, Zenon DEF IndInv, OnLoginResult
  <1>1. ~IsDisc(a) /\ a # d
    <2>1. ~IsDisc(a)
      BY NamesAssumption, Zenon DEF IsDisc, OnLoginResult, IsLogin
    <2> QED BY <1>0, <2>1, StrandFacts, Zenon
  <1>2. Fits("setPlayer", None) /\ Fits("done", None)
    BY DEF Fits, Steps, None
  <1>3. CASE LoginAccepted(a) \/ LoginDropped(a)
    <2>1. PICK step \in {"setPlayer", "done"} : Goto(a, step, None) /\ Fits(step, None)
      BY <1>2, <1>3, Zenon DEF LoginAccepted, LoginDropped, Finish, OnLoginResult
    <2>2. processed' \in [Sessions -> BOOLEAN]
      BY <1>0, <1>3, Zenon DEF LoginAccepted, LoginDropped, TypeOK
    <2>3. UNCHANGED <<conn, player, registry, playerVars, placeVars, clientVars>>
      BY <1>3, Zenon DEF OnLoginResult, LoginAccepted, LoginDropped
    <2> HIDE DEF s, d
    <2> QED BY <1>0, <1>1, <2>1, <2>2, <2>3, QuietMove, Zenon DEF TypeOK, Reserved
  <1>4. CASE LoginRefused(a)
    <2>1. PICK step \in {"leaveLobby", "clear"} : pc' = [pc EXCEPT ![a] = "done", ![d] = step]
      BY <1>4, Zenon DEF LoginRefused, DiscStep
    <2>2. /\ pc[d] = "idle" /\ conn' = [conn EXCEPT ![s] = "down"] /\ at' = at
          /\ processed' = [processed EXCEPT ![s] = TRUE]
          /\ UNCHANGED <<player, registry, playerVars, placeVars, clientVars>>
      BY <1>0, <1>4, Zenon DEF OnLoginResult, LoginRefused, Disconnecting, IndInv, DiscOnce
    <2> HIDE DEF s, d
    <2>3. /\ pc' \in [Strands -> Steps] /\ conn' \in [Sessions -> {"up", "down", "gone"}]
          /\ processed' \in [Sessions -> BOOLEAN]
      BY <1>0, <2>1, <2>2, Zenon DEF TypeOK, Steps
    <2>4. \A b \in Strands : b \notin {a, d} => pc'[b] = pc[b]
      BY <1>0, <2>1, Zenon DEF TypeOK
    <2>5. pc'[a] = "done" /\ pc'[d] = step
      BY <1>0, <1>1, <2>1, Zenon DEF TypeOK
    <2>6. AtAgrees'
      BY <2>2, <2>4, <2>5, Zenon DEF IndInv, AtAgrees, Lobbies, Rooms
    <2>7. DiscOnce'
      <3>1. SUFFICES ASSUME NEW u \in Sessions, conn'[u] = "up" PROVE pc'[<<u, "disc">>] = "idle"
        BY Zenon DEF DiscOnce
      <3>2. u # s /\ conn[u] = "up"
        BY <1>0, <2>2, <3>1, Zenon DEF TypeOK
      <3>3. <<u, "disc">> # d /\ <<u, "disc">> # a /\ <<u, "disc">> \in Strands
        BY <1>0, <1>1, <3>2, StrandFacts, Zenon DEF d
      <3> QED BY <2>4, <3>2, <3>3, Zenon DEF IndInv, DiscOnce
    <2>8. \A x \in Places : Holding(x)' = Holding(x)
      BY <1>0, <2>2, <2>4, <2>5, Zenon DEF Holding, Reserved
    <2>9. SlotsExact'
      BY <1>0, <2>2, <2>8, SlotsQuiet, Zenon
    <2>10. TypeOK'
      BY <1>0, <2>2, <2>3, Zenon DEF TypeOK, Capacity, Lobbies
    <2>11. OneOfId'
      BY <2>2, Zenon DEF IndInv, OneOfId
    <2> QED BY <2>6, <2>7, <2>9, <2>10, <2>11, Zenon DEF IndInv
  <1> QED BY <1>3, <1>4, Zenon DEF OnLoginResult

-----------------------------------------------------------------------------
(* What a job of place x has to keep. *)
LEMMA JobKeeps ==
  ASSUME IndInv, NEW x \in Places, UNCHANGED <<sessionVars, roomNum, asked, pc, at>>,
         avail' \in [Places -> Nat], members' \in [Places -> SUBSET Sessions],
         queue' \in [Places -> Seq(Jobs)],
         \A y \in Places \ {x} : avail'[y] = avail[y] /\ members'[y] = members[y] /\ queue'[y] = queue[y],
         avail'[x] + Cardinality(members'[x]) + Cardinality(Enters(queue'[x]))
           = avail[x] + Cardinality(members[x]) + Cardinality(Enters(queue[x])),
         \A s, u \in members'[x] : Account[s] = Account[u] => s = u,
         lobbyOf' \in [Sessions -> Lobbies \cup {None}], roomOf' \in [Sessions -> Rooms \cup {None}],
         client' \in [Sessions -> ClientStates]
  PROVE  IndInv'
  <1> USE DEF sessionVars
  <1>0. TypeOK /\ SlotsExact
    BY Zenon DEF IndInv
  <1>1. AtAgrees' /\ DiscOnce'
    BY Zenon DEF IndInv, AtAgrees, DiscOnce, Lobbies, Rooms
  <1>2. OneOfId'
    <2>1. SUFFICES ASSUME NEW y \in Places
          PROVE \A s, u \in members'[y] : Account[s] = Account[u] => s = u
      BY Zenon DEF OneOfId, Places, Lobbies, Rooms
    <2> QED BY Zenon DEF IndInv, OneOfId
  <1>3. \A y \in Places : Holding(y)' = Holding(y)
    BY Zenon DEF Holding
  <1>4. avail'[x] + Cardinality(members'[x]) + Cardinality(Pending(x)') + Cardinality(Holding(x)')
           = avail[x] + Cardinality(members[x]) + Cardinality(Pending(x)) + Cardinality(Holding(x))
    BY <1>3, Zenon DEF Pending
  <1>5. SlotsExact'
    BY <1>0, <1>3, <1>4, SlotsOfOne, Zenon
  <1>6. \A y \in Places : avail'[y] <= Capacity(y)
    <2>1. SUFFICES ASSUME NEW y \in Places PROVE avail'[y] <= Capacity(y)
      OBVIOUS
    <2>2. avail'[y] + Cardinality(members'[y]) + Cardinality(Pending(y)') + Cardinality(Holding(y)')
            = Capacity(y)
      BY <1>5, Zenon DEF SlotsExact, Capacity, Lobbies, Places, Rooms
    <2>3. /\ avail'[y] \in Nat /\ members'[y] \in SUBSET Sessions /\ queue'[y] \in Seq(Jobs)
          /\ Cardinality(Holding(y)') \in Nat
      BY <1>0, <1>3, CountsAreNat, Zenon
    <2>4. Cardinality(members'[y]) \in Nat
      BY <2>3, FS_Subset, FS_CardinalityType, FiniteAssumption, Zenon
    <2>5. Cardinality(Pending(y)') \in Nat
      BY <2>3, EntersFinite, Zenon DEF Pending
    <2>6. Capacity(y) \in Nat
      BY PlaceFacts, Zenon
    <2> QED BY <2>2, <2>3, <2>4, <2>5, <2>6
  <1>7. TypeOK'
    BY <1>0, <1>6, Zenon DEF TypeOK, Capacity, Lobbies, Places, Rooms
  <1> QED BY <1>1, <1>2, <1>5, <1>7, Zenon DEF IndInv

(* The first job of a queue. *)
LEMMA HeadFacts ==
  ASSUME TypeOK, NEW x \in Places, NEW s \in Sessions, NEW op \in {"enter", "leave", "noti"},
         HeadIs(x, op, s)
  PROVE  /\ queue[x] # <<>> /\ queue[x] \in Seq(Jobs) /\ Tail(queue[x]) \in Seq(Jobs)
         /\ op = "enter" => Cardinality(Enters(queue[x])) = Cardinality(Enters(Tail(queue[x]))) + 1
         /\ op # "enter" => Cardinality(Enters(queue[x])) = Cardinality(Enters(Tail(queue[x])))
  <1>1. queue[x] # <<>> /\ queue[x] \in Seq(Jobs)
    BY Zenon DEF TypeOK, HeadIs
  <1>2. Head(queue[x]).op = op
    BY DEF HeadIs, Job
  <1> QED BY <1>1, <1>2, EntersTail, Zenon

(* The Enter jobs: the reservation becomes a member or a free slot. *)
LEMMA EnterInv ==
  ASSUME IndInv, NEW x \in Places, NEW s \in Sessions, LobbyEnter(x, s) \/ RoomEnter(x, s)
  PROVE  IndInv'
  <1> USE DEF sessionVars, playerVars, clientVars
  <1>0. TypeOK /\ HeadIs(x, "enter", s) /\ Admit(x, s)
    BY Zenon DEF IndInv, LobbyEnter, RoomEnter
  <1>1. /\ queue[x] # <<>> /\ queue[x] \in Seq(Jobs) /\ Tail(queue[x]) \in Seq(Jobs)
        /\ Cardinality(Enters(queue[x])) = Cardinality(Enters(Tail(queue[x]))) + 1
        /\ Cardinality(Enters(Tail(queue[x]))) \in Nat
    BY <1>0, HeadFacts, EntersFinite, Zenon
  <1>2. PICK q \in Seq(Jobs) : /\ queue' = [queue EXCEPT ![x] = q]
                               /\ Cardinality(Enters(q)) = Cardinality(Enters(Tail(queue[x])))
    <2>1. Job("noti", s) \in Jobs /\ Job("noti", s).op # "enter"
      BY DEF Jobs, Job
    <2>2. /\ Append(Tail(queue[x]), Job("noti", s)) \in Seq(Jobs)
          /\ Cardinality(Enters(Append(Tail(queue[x]), Job("noti", s)))) = Cardinality(Enters(Tail(queue[x])))
      <3>1. Append(Tail(queue[x]), Job("noti", s)) \in Seq(Jobs)
        BY <1>1, <2>1
      <3> QED BY <1>1, <2>1, <3>1, EntersAppend, Zenon
    <2>3. \/ queue' = [queue EXCEPT ![x] = Tail(queue[x])]
          \/ queue' = [queue EXCEPT ![x] = Append(Tail(queue[x]), Job("noti", s))]
      BY Zenon DEF LobbyEnter, RoomEnter
    <2> QED BY <1>1, <2>2, <2>3, Zenon
  <1>3. /\ lobbyOf' \in [Sessions -> Lobbies \cup {None}] /\ roomOf' \in [Sessions -> Rooms \cup {None}]
        /\ client' \in [Sessions -> ClientStates]
        /\ UNCHANGED <<sessionVars, roomNum, asked, pc, at>>
    <2>1. client' \in [Sessions -> ClientStates]
      BY <1>0, ClientTypes, Zenon DEF LobbyEnter, RoomEnter, TypeOK
    <2>2. lobbyOf' \in [Sessions -> Lobbies \cup {None}] /\ roomOf' \in [Sessions -> Rooms \cup {None}]
      BY <1>0, ZenonT(60) DEF LobbyEnter, RoomEnter, TypeOK
    <2> QED BY <2>1, <2>2, Zenon DEF LobbyEnter, RoomEnter
  <1>4. /\ queue' \in [Places -> Seq(Jobs)] /\ queue'[x] = q
        /\ \A y \in Places \ {x} : queue'[y] = queue[y]
    BY <1>0, <1>2, Zenon DEF TypeOK
  <1>5. avail[x] \in Nat /\ Cardinality(members[x]) \in Nat /\ IsFiniteSet(members[x])
    BY <1>0, CountsAreNat, Zenon
  <1>6. CASE Admitted(x, s)
    <2>1. members' = [members EXCEPT ![x] = @ \cup {s}] /\ avail' = avail
      BY <1>0, <1>6, Zenon DEF Admit
    <2>2. /\ members' \in [Places -> SUBSET Sessions] /\ members'[x] = members[x] \cup {s}
          /\ \A y \in Places \ {x} : members'[y] = members[y]
      BY <1>0, <2>1, Zenon DEF TypeOK
    <2>3. \A u \in members[x] : Account[u] # Account[s]
      BY <1>0, <1>6, Zenon DEF Admitted, Inserted, Present, SameId, TypeOK
    <2>4. \A v, u \in members'[x] : Account[v] = Account[u] => v = u
      BY <2>2, <2>3, Zenon DEF IndInv, OneOfId
    <2>5. Cardinality(members'[x]) = Cardinality(members[x]) + 1
      BY <1>5, <2>2, <2>3, FS_AddElement, Zenon
    <2>6. avail'[x] + Cardinality(members'[x]) + Cardinality(Enters(queue'[x]))
           = avail[x] + Cardinality(members[x]) + Cardinality(Enters(queue[x]))
      <3>1. avail'[x] = avail[x]
        BY <2>1, Zenon
      <3> QED BY <1>1, <1>2, <1>4, <1>5, <2>5, <3>1
    <2> QED BY <1>0, <1>3, <1>4, <2>1, <2>2, <2>4, <2>6, JobKeeps, Zenon DEF TypeOK
  <1>7. CASE ~Admitted(x, s)
    <2>1. avail' = [avail EXCEPT ![x] = @ + 1] /\ members' = members
      BY <1>0, <1>7, Zenon DEF Admit, Release
    <2>2. /\ avail' \in [Places -> Nat] /\ avail'[x] = avail[x] + 1
          /\ \A y \in Places \ {x} : avail'[y] = avail[y]
      BY <1>0, <2>1 DEF TypeOK
    <2>3. avail'[x] + Cardinality(members'[x]) + Cardinality(Enters(queue'[x]))
           = avail[x] + Cardinality(members[x]) + Cardinality(Enters(queue[x]))
      BY <1>1, <1>2, <1>4, <1>5, <2>1, <2>2
    <2>4. \A v, u \in members'[x] : Account[v] = Account[u] => v = u
      BY <2>1, Zenon DEF IndInv, OneOfId
    <2> QED BY <1>0, <1>3, <1>4, <2>1, <2>2, <2>3, <2>4, JobKeeps, Zenon DEF TypeOK
  <1> QED BY <1>6, <1>7, Zenon

(* The broadcast and the Leave job: who leaves gives the slot back. *)
LEMMA LeaveInv ==
  ASSUME IndInv, NEW x \in Places, NEW s \in Sessions, RoomNoti(x, s) \/ Leave(x, s)
  PROVE  IndInv'
  <1> USE DEF sessionVars, playerVars, clientVars
  <1>0. TypeOK /\ queue' = [queue EXCEPT ![x] = Tail(@)]
    BY Zenon DEF IndInv, RoomNoti, Leave
  <1>1. /\ queue[x] # <<>> /\ queue[x] \in Seq(Jobs) /\ Tail(queue[x]) \in Seq(Jobs)
        /\ Cardinality(Enters(queue[x])) = Cardinality(Enters(Tail(queue[x])))
        /\ Cardinality(Enters(Tail(queue[x]))) \in Nat
    <2>1. "noti" # "enter" /\ "leave" # "enter"
      OBVIOUS
    <2> QED BY <1>0, <2>1, HeadFacts, EntersFinite, Zenon DEF RoomNoti, Leave
  <1>2. /\ lobbyOf' \in [Sessions -> Lobbies \cup {None}] /\ roomOf' \in [Sessions -> Rooms \cup {None}]
        /\ client' \in [Sessions -> ClientStates]
        /\ UNCHANGED <<sessionVars, roomNum, asked, pc, at>>
    BY <1>0, ClientTypes, Zenon DEF RoomNoti, Leave, TypeOK
  <1>3. /\ queue' \in [Places -> Seq(Jobs)] /\ queue'[x] = Tail(queue[x])
        /\ \A y \in Places \ {x} : queue'[y] = queue[y]
    BY <1>0, <1>1, Zenon DEF TypeOK
  <1>4. avail[x] \in Nat /\ Cardinality(members[x]) \in Nat /\ IsFiniteSet(members[x])
    BY <1>0, CountsAreNat, Zenon
  <1>5. CASE avail' = avail /\ members' = members
    <2>1. \A v, u \in members'[x] : Account[v] = Account[u] => v = u
      BY <1>5, Zenon DEF IndInv, OneOfId
    <2>2. avail'[x] + Cardinality(members'[x]) + Cardinality(Enters(queue'[x]))
           = avail[x] + Cardinality(members[x]) + Cardinality(Enters(queue[x]))
      BY <1>1, <1>3, <1>5, Zenon
    <2> QED BY <1>0, <1>2, <1>3, <1>5, <2>1, <2>2, JobKeeps, Zenon DEF TypeOK
  <1>6. CASE Leave(x, s) /\ Present(x, s)
    <2>1. PICK u \in members[x] : u \in SameId(s)
      BY <1>6, Zenon DEF Present
    <2>2. members[x] \ SameId(s) = members[x] \ {u}
      <3>1. \A v \in members[x] : v \in SameId(s) => v = u
        BY <2>1, Zenon DEF IndInv, OneOfId, SameId
      <3> QED BY <2>1, <3>1, Zenon
    <2>3. avail' = [avail EXCEPT ![x] = @ + 1] /\ members' = [members EXCEPT ![x] = @ \ SameId(s)]
      BY <1>6, Zenon DEF Leave, Release
    <2>4. /\ members' \in [Places -> SUBSET Sessions] /\ members'[x] = members[x] \ {u}
          /\ \A y \in Places \ {x} : members'[y] = members[y]
      BY <1>0, <2>2, <2>3, Zenon DEF TypeOK
    <2>5. /\ avail' \in [Places -> Nat] /\ avail'[x] = avail[x] + 1
          /\ \A y \in Places \ {x} : avail'[y] = avail[y]
      BY <1>0, <2>3 DEF TypeOK
    <2>6. \A v, w \in members'[x] : Account[v] = Account[w] => v = w
      BY <2>4, Zenon DEF IndInv, OneOfId
    <2>7. Cardinality(members'[x]) = Cardinality(members[x]) - 1
      <3>1. Cardinality(members[x] \ {u}) = Cardinality(members[x]) - 1
        BY <1>4, <2>1, FS_RemoveElement, Zenon
      <3> QED BY <2>4, <3>1, Zenon
    <2>8. avail'[x] + Cardinality(members'[x]) + Cardinality(Enters(queue'[x]))
           = avail[x] + Cardinality(members[x]) + Cardinality(Enters(queue[x]))
      <3>1. Cardinality(Enters(queue'[x])) = Cardinality(Enters(queue[x]))
        BY <1>1, <1>3, Zenon
      <3>2. avail'[x] = avail[x] + 1
        BY <2>5, Zenon
      <3> QED BY <1>1, <1>4, <2>7, <3>1, <3>2
    <2> QED BY <1>2, <1>3, <2>4, <2>5, <2>6, <2>8, JobKeeps, Zenon
  <1>7. CASE Leave(x, s) /\ ~Present(x, s)
    <2>1. members[x] \ SameId(s) = members[x]
      BY <1>7, Zenon DEF Present
    <2>2. members' = [members EXCEPT ![x] = members[x]] /\ avail' = avail
      BY <1>7, <2>1, Zenon DEF Leave
    <2>3. members' = members
      BY <1>0, <2>2 DEF TypeOK
    <2> QED BY <1>5, <2>2, <2>3, Zenon
  <1> QED BY <1>5, <1>6, <1>7, Zenon DEF RoomNoti

(* Nobody is anywhere and every slot is free. *)
LEMMA InitInv ==
  Init => IndInv
  <1> SUFFICES ASSUME Init PROVE IndInv
    OBVIOUS
  <1>1. TypeOK
    BY SizesAssumption, PlaceFacts, NamesAssumption DEF Init, TypeOK, Steps, None, ClientStates
  <1>2. SlotsExact
    <2>1. SUFFICES ASSUME NEW x \in Places
          PROVE avail[x] + Cardinality(members[x]) + Cardinality(Pending(x)) + Cardinality(Holding(x))
                  = Capacity(x)
      BY Zenon DEF SlotsExact
    <2>2. avail[x] = Capacity(x) /\ members[x] = {} /\ queue[x] = <<>>
      BY Zenon DEF Init
    <2>3. Enters(<<>>) = {}
      BY DEF Enters
    <2>4. Holding(x) = {}
      BY Zenon DEF Init, Holding, Reserved
    <2>5. Cardinality({}) = 0 /\ Capacity(x) \in Nat
      BY FS_EmptySet, PlaceFacts, Zenon
    <2>6. Cardinality(members[x]) = 0 /\ Cardinality(Pending(x)) = 0 /\ Cardinality(Holding(x)) = 0
      BY <2>2, <2>3, <2>4, <2>5, Zenon DEF Pending
    <2> QED BY <2>2, <2>5, <2>6
  <1>3. AtAgrees /\ OneOfId
    BY Zenon DEF Init, AtAgrees, OneOfId
  <1>4. DiscOnce
    BY StrandFacts, Zenon DEF Init, DiscOnce
  <1> QED BY <1>1, <1>2, <1>3, <1>4, Zenon DEF IndInv

(* Every step keeps the invariant. *)
LEMMA NextInv ==
  IndInv /\ [Next]_vars => IndInv'
  <1> SUFFICES ASSUME IndInv, [Next]_vars PROVE IndInv'
    OBVIOUS
  <1>1. CASE UNCHANGED vars
    BY <1>1, ZenonT(60) DEF vars, sessionVars, playerVars, placeVars, clientVars, IndInv, TypeOK, SlotsExact,
       AtAgrees, DiscOnce, OneOfId, Pending, Holding, Capacity, Lobbies
  <1>2. ASSUME NEW a \in Strands, StrandStep(a) \/ OnLoginResult(a) PROVE IndInv'
    BY <1>2, LeavingInv, LobbyInv, RoomInv, PlayerInv, LoginInv, Zenon DEF StrandStep
  <1>3. ASSUME NEW x \in Places, JobStep(x) PROVE IndInv'
    BY <1>3, EnterInv, LeaveInv, Zenon DEF JobStep
  <1>4. ASSUME NEW s \in Sessions, SessionStep(s) PROVE IndInv'
    BY <1>4, SessionInv, Zenon
  <1> QED BY <1>1, <1>2, <1>3, <1>4, Zenon DEF Next

-----------------------------------------------------------------------------
(* IndInv, and with it the types of all variables, holds in every reachable  *)
(* state, however requests, logins, disconnects and jobs interleave.         *)
THEOREM Invariance == Spec => []IndInv
  BY InitInv, NextInv, PTL DEF Spec

(* The slots that TryReserveSlot takes and the Enter and Leave jobs give     *)
(* back always add up: no slot of a lobby or a room is lost or given back    *)
(* twice, for any number of sessions, places and slots.                      *)
THEOREM SlotsAreExact == Spec => []SlotsExact
  <1>1. IndInv => SlotsExact
    BY Zenon DEF IndInv
  <1> QED BY <1>1, Invariance, PTL

(* When an Enter job of a room is next to run, the room has a seat for it:   *)
(* the test of Room::Enter for a full room never succeeds.                   *)
THEOREM ReservationsHonoured == Spec => []RoomForReserved
  <1>1. ASSUME IndInv, NEW x \in Rooms, queue[x] # <<>>, Head(queue[x]).op = "enter"
        PROVE  Cardinality(members[x]) < RoomMax
    <2>1. x \in Places /\ Capacity(x) = RoomMax /\ TypeOK /\ SlotsExact
      <3>1. x \notin Lobbies
        BY SizesAssumption DEF Rooms, Lobbies
      <3> QED BY <1>1, <3>1, PlaceFacts, Zenon DEF Capacity, IndInv
    <2>2. avail[x] + Cardinality(members[x]) + Cardinality(Pending(x)) + Cardinality(Holding(x)) = RoomMax
      BY <2>1, Zenon DEF SlotsExact
    <2>3. /\ avail[x] \in Nat /\ Cardinality(members[x]) \in Nat /\ queue[x] \in Seq(Jobs)
          /\ Cardinality(Holding(x)) \in Nat
      BY <2>1, CountsAreNat, Zenon
    <2>4. /\ Cardinality(Pending(x)) = Cardinality(Enters(Tail(queue[x]))) + 1
          /\ Cardinality(Enters(Tail(queue[x]))) \in Nat
      BY <1>1, <2>3, EntersTail, EntersFinite, Zenon DEF Pending
    <2> QED BY <2>2, <2>3, <2>4, SizesAssumption
  <1>2. IndInv => RoomForReserved
    BY <1>1, Zenon DEF RoomForReserved
  <1> QED BY <1>2, Invariance, PTL

-----------------------------------------------------------------------------
\* AccountListed, and who removes.
ListInv == AccountListed /\ \A a \in Strands : pc[a] = "remove" => IsDisc(a)

(* A step that neither adds nor removes a player keeps the list. *)
LEMMA ListKept ==
  ASSUME AccountListed, registry' = registry,
         \A u \in Sessions : (conn'[u] = "up" => conn[u] = "up") /\ (player'[u] => player[u]),
         \A b \in Strands : pc[b] = "add" => pc'[b] = "add",
         \A u \in Sessions : pc[<<u, "disc">>] \in {"clear", "done"} => pc'[<<u, "disc">>] \in {"clear", "done"}
  PROVE  AccountListed'
  <1>1. SUFFICES ASSUME NEW s \in Sessions, conn'[s] = "up", player'[s],
                        \A a \in Strands : Session(a) = s => pc'[a] # "add",
                        \A u \in SameId(s) : pc'[<<u, "disc">>] \notin {"clear", "done"}
                 PROVE  registry[Account[s]] # {}
    BY Zenon DEF AccountListed, SameId
  <1>2. \A u \in SameId(s) : u \in Sessions
    BY Zenon DEF SameId
  <1> QED BY <1>1, <1>2, Zenon DEF AccountListed

(* A strand that is at no step with the list moves on. *)
LEMMA ListMove ==
  ASSUME IndInv, ListInv, NEW a \in Strands, NEW step, NEW y, Goto(a, step, y),
         pc[a] \notin {"add", "done"}, pc[a] = "clear" /\ IsDisc(a) => step = "done",
         step = "remove" => IsDisc(a), UNCHANGED registry,
         \A u \in Sessions : (conn'[u] = "up" => conn[u] = "up") /\ (player'[u] => player[u])
  PROVE  ListInv'
  <1>1. pc'[a] = step /\ \A b \in Strands \ {a} : pc'[b] = pc[b]
    BY Zenon DEF IndInv, TypeOK, Goto
  <1>2. \A u \in Sessions : <<u, "disc">> \in Strands /\ IsDisc(<<u, "disc">>)
    BY StrandFacts, Zenon
  <1>3. \A u \in Sessions : pc[<<u, "disc">>] \in {"clear", "done"} => pc'[<<u, "disc">>] \in {"clear", "done"}
    BY <1>1, <1>2, Zenon
  <1>4. \A b \in Strands : pc[b] = "add" => pc'[b] = "add"
    BY <1>1, Zenon
  <1>5. AccountListed'
    BY <1>3, <1>4, ListKept, Zenon DEF ListInv
  <1>6. \A b \in Strands : pc'[b] = "remove" => IsDisc(b)
    BY <1>1, Zenon DEF ListInv
  <1> QED BY <1>5, <1>6, Zenon DEF ListInv

(* The steps of a strand. *)
LEMMA ListStrand ==
  ASSUME IndInv, ListInv, NEW a \in Strands, StrandStep(a)
  PROVE  ListInv'
  <1> USE DEF sessionVars
  <1>0. TypeOK /\ Session(a) \in Sessions
    BY StrandFacts, Zenon DEF IndInv
  <1>1. CASE Add(a)
    <2> DEFINE s == Session(a)
               k == Account[s]
    <2>1. k \in Accounts /\ \A u \in Sessions : Account[u] \in Accounts
      BY <1>0, AccountAssumption, Zenon
    <2>2. registry'[k] # {} /\ \A i \in Accounts \ {k} : registry'[i] = registry[i]
      BY <1>0, <1>1, <2>1, Zenon DEF Add, TypeOK
    <2>3. /\ conn' = conn /\ player' = player /\ pc[a] = "add" /\ pc'[a] = "pickLobby"
          /\ \A b \in Strands \ {a} : pc'[b] = pc[b]
      BY <1>0, <1>1, Zenon DEF Add, TypeOK, Goto
    <2>4. \A b \in Strands : pc'[b] = "remove" => IsDisc(b)
      BY <2>3, Zenon DEF ListInv
    <2> HIDE DEF s, k
    <2>5. ASSUME NEW u \in Sessions, conn'[u] = "up", player'[u], Account[u] # k,
                 \A b \in Strands : Session(b) = u => pc'[b] # "add",
                 \A v \in SameId(u) : pc'[<<v, "disc">>] \notin {"clear", "done"}
          PROVE  registry'[Account[u]] # {}
      <3>1. Session(a) # u
        BY <2>5, Zenon DEF k, s
      <3>2. \A b \in Strands : Session(b) = u => pc[b] # "add"
        BY <2>3, <2>5, <3>1, Zenon
      <3>3. \A v \in SameId(u) : <<v, "disc">> \in Strands
        BY StrandFacts, Zenon DEF SameId
      <3>4. \A v \in SameId(u) : pc[<<v, "disc">>] \notin {"clear", "done"}
        BY <2>3, <2>5, <3>3, Zenon
      <3>5. registry[Account[u]] # {}
        BY <2>3, <2>5, <3>2, <3>4, Zenon DEF ListInv, AccountListed
      <3> QED BY <2>1, <2>2, <2>5, <3>5, Zenon
    <2>6. AccountListed'
      BY <2>2, <2>5, Zenon DEF AccountListed, SameId
    <2> QED BY <2>4, <2>6, Zenon DEF ListInv
  <1>2. CASE Remove(a)
    <2> DEFINE s == Session(a)
               k == Account[s]
    <2>1. k \in Accounts /\ \A u \in Sessions : Account[u] \in Accounts
      BY <1>0, AccountAssumption, Zenon
    <2>2. \A i \in Accounts \ {k} : registry'[i] = registry[i]
      BY <1>0, <1>2, <2>1, Zenon DEF Remove, TypeOK
    <2>3. /\ conn' = conn /\ player' = player /\ pc[a] = "remove" /\ pc'[a] = "clear"
          /\ \A b \in Strands \ {a} : pc'[b] = pc[b]
      BY <1>0, <1>2, Zenon DEF Remove, TypeOK, Goto
    <2>4. a = <<s, "disc">>
      BY <2>3, StrandFacts, Zenon DEF ListInv
    <2>5. \A b \in Strands : pc'[b] = "remove" => IsDisc(b)
      BY <2>3, Zenon DEF ListInv
    <2>6. ASSUME NEW u \in Sessions, conn'[u] = "up", player'[u],
                 \A b \in Strands : Session(b) = u => pc'[b] # "add",
                 \A v \in SameId(u) : pc'[<<v, "disc">>] \notin {"clear", "done"}
          PROVE  registry'[Account[u]] # {}
      <3>1. Account[u] # k
        <4>1. Account[u] = k => s \in SameId(u)
          BY <1>0, Zenon DEF SameId
        <4> QED BY <2>3, <2>4, <2>6, <4>1, Zenon
      <3> HIDE DEF s, k
      <3>2. \A b \in Strands : Session(b) = u => pc[b] # "add"
        BY <2>3, <2>6, Zenon
      <3>3. \A v \in SameId(u) : <<v, "disc">> \in Strands
        BY StrandFacts, Zenon DEF SameId
      <3>4. \A v \in SameId(u) : pc[<<v, "disc">>] \notin {"clear", "done"}
        BY <2>3, <2>6, <3>3, Zenon
      <3>5. registry[Account[u]] # {}
        BY <2>3, <2>6, <3>2, <3>4, Zenon DEF ListInv, AccountListed
      <3> QED BY <2>1, <2>2, <3>1, <3>5, Zenon
    <2> HIDE DEF s, k
    <2>7. AccountListed'
      BY <2>6, Zenon DEF AccountListed, SameId
    <2> QED BY <2>5, <2>7, Zenon DEF ListInv
  <1>3. CASE SetPlayer(a)
    <2> DEFINE s == Session(a)
    <2>1. /\ conn' = conn /\ registry' = registry /\ pc[a] = "setPlayer" /\ pc'[a] = "add"
          /\ \A b \in Strands \ {a} : pc'[b] = pc[b]
          /\ \A u \in Sessions \ {s} : player'[u] = player[u]
      BY <1>0, <1>3, Zenon DEF SetPlayer, TypeOK, Goto
    <2>2. \A b \in Strands : pc'[b] = "remove" => IsDisc(b)
      BY <2>1, Zenon DEF ListInv
    <2>3. ASSUME NEW u \in Sessions, conn'[u] = "up", player'[u],
                 \A b \in Strands : Session(b) = u => pc'[b] # "add",
                 \A v \in SameId(u) : pc'[<<v, "disc">>] \notin {"clear", "done"}
          PROVE  registry'[Account[u]] # {}
      <3>1. u # s
        BY <2>1, <2>3, Zenon
      <3> HIDE DEF s
      <3>2. \A b \in Strands : Session(b) = u => pc[b] # "add"
        BY <2>1, <2>3, Zenon
      <3>3. \A v \in SameId(u) : <<v, "disc">> \in Strands
        BY StrandFacts, Zenon DEF SameId
      <3>4. \A v \in SameId(u) : pc[<<v, "disc">>] \notin {"clear", "done"}
        BY <2>1, <2>3, <3>3, Zenon
      <3> QED BY <2>1, <2>3, <3>1, <3>2, <3>4, Zenon DEF ListInv, AccountListed
    <2> HIDE DEF s
    <2>4. AccountListed'
      BY <2>3, Zenon DEF AccountListed, SameId
    <2> QED BY <2>2, <2>4, Zenon DEF ListInv
  <1>4. CASE ClearPlayer(a)
    <2>1. conn' = conn /\ registry' = registry /\ pc[a] = "clear"
      BY <1>4, Zenon DEF ClearPlayer
    <2>2. \A u \in Sessions : player'[u] => player[u]
      BY <1>0, <1>4, Zenon DEF ClearPlayer, TypeOK
    <2>3. PICK step \in {"done", "idle"} : Goto(a, step, None) /\ (IsDisc(a) => step = "done")
      BY <1>4, Zenon DEF ClearPlayer, Finish
    <2> QED BY <2>1, <2>2, <2>3, ListMove, Zenon
  <1>5. CASE ~Add(a) /\ ~Remove(a) /\ ~SetPlayer(a) /\ ~ClearPlayer(a)
    <2>1. conn' = conn /\ registry' = registry /\ player' = player /\ pc[a] \notin {"add", "done", "clear"}
      BY <1>5, ZenonT(60) DEF StrandStep, LeaveLobby, ResetLobby, LeaveRoom, ResetRoom, PickLobby, TryLobby,
            ScanLobbies, EnterLobby, ScanRooms, MakeRoom, EnterRoom
    <2>2. \E step, y : Goto(a, step, y) /\ (step = "remove" => IsDisc(a))
      <3>0. "remove" \notin {"resetLobby", "resetRoom", "leaveRoom", "pickLobby", "tryLobby", "scanLobbies",
                            "enterLobby", "scanRooms", "makeRoom", "enterRoom", "done", "idle"}
        OBVIOUS
      <3>1. CASE LeaveLobby(a) \/ LeaveRoom(a)
        BY <3>0, <3>1, Zenon DEF LeaveLobby, LeaveRoom
      <3>2. CASE ResetLobby(a)
        BY <3>0, <3>2, Zenon DEF ResetLobby
      <3>3. CASE ResetRoom(a)
        BY <3>0, <3>3, Zenon DEF ResetRoom
      <3>4. CASE PickLobby(a) \/ TryLobby(a)
        BY <3>0, <3>4, Zenon DEF PickLobby, TryLobby
      <3>5. CASE ScanRooms(a) \/ MakeRoom(a)
        BY <3>0, <3>5, Zenon DEF ScanRooms, MakeRoom
      <3>6. CASE ScanLobbies(a)
        BY <3>0, <3>6, Zenon DEF ScanLobbies, Finish
      <3>7. CASE EnterLobby(a) \/ EnterRoom(a)
        BY <3>0, <3>7, Zenon DEF EnterLobby, EnterRoom, Finish
      <3> QED BY <1>5, <3>1, <3>2, <3>3, <3>4, <3>5, <3>6, <3>7, Zenon DEF StrandStep
    <2> QED BY <2>1, <2>2, ListMove, Zenon
  <1> QED BY <1>1, <1>2, <1>3, <1>4, <1>5, Zenon

(* Every step keeps ListInv. *)
LEMMA ListNext ==
  IndInv /\ ListInv /\ [Next]_vars => ListInv'
  <1> USE DEF sessionVars
  <1>0. SUFFICES ASSUME IndInv, ListInv, [Next]_vars PROVE ListInv'
    OBVIOUS
  <1>a. TypeOK /\ \A u \in Sessions : conn[u] = "up" => pc[<<u, "disc">>] = "idle"
    BY <1>0, Zenon DEF IndInv, DiscOnce
  <1>1. ASSUME UNCHANGED <<conn, player, registry, pc>> PROVE ListInv'
    <2>1. AccountListed'
      BY <1>0, <1>1, ListKept, Zenon DEF ListInv
    <2> QED BY <1>0, <1>1, <2>1, Zenon DEF ListInv
  <1>2. ASSUME NEW a \in Strands, OnLoginResult(a) PROVE ListInv'
    <2> DEFINE s == Session(a)
               d == <<s, "disc">>
    <2>0. s \in Sessions /\ d \in Strands /\ pc[a] = "idle" /\ IsDisc(d)
      BY <1>2, StrandFacts, Zenon DEF OnLoginResult
    <2>1. CASE LoginAccepted(a) \/ LoginDropped(a)
      <3>1. UNCHANGED <<conn, player, registry>>
        BY <2>1, Zenon DEF LoginAccepted, LoginDropped
      <3>2. \E step \in {"setPlayer", "done", "idle"} : Goto(a, step, None)
        BY <2>1, Zenon DEF LoginAccepted, LoginDropped, Finish
      <3> QED BY <1>0, <2>0, <3>1, <3>2, ListMove, Zenon
    <2>2. CASE LoginRefused(a)
      <3>1. PICK step \in {"leaveLobby", "clear"} : pc' = [pc EXCEPT ![a] = "done", ![d] = step]
        BY <2>2, Zenon DEF LoginRefused, DiscStep
      <3>2. conn[s] = "up" /\ conn' = [conn EXCEPT ![s] = "down"] /\ UNCHANGED <<player, registry>>
        BY <2>2, Zenon DEF LoginRefused, Disconnecting
      <3>3. pc[d] = "idle"
        BY <1>a, <2>0, <3>2, Zenon
      <3> HIDE DEF s, d
      <3>4. \A b \in Strands : (b \in {a, d} /\ pc'[b] \in {"done", step}) \/ pc'[b] = pc[b]
        BY <1>a, <2>0, <3>1, Zenon DEF TypeOK
      <3>5. \A u \in Sessions : conn'[u] = "up" => conn[u] = "up"
        BY <1>a, <2>0, <3>2, Zenon DEF TypeOK
      <3>6. \A b \in Strands : pc[b] \in {"add", "clear", "done"} => pc'[b] = pc[b]
        BY <2>0, <3>3, <3>4, Zenon
      <3>7. AccountListed'
        BY <1>0, <3>2, <3>5, <3>6, StrandFacts, ListKept, Zenon DEF ListInv
      <3> QED BY <1>0, <3>4, <3>7, Zenon DEF ListInv
    <2> QED BY <1>2, <2>1, <2>2, Zenon DEF OnLoginResult
  <1>3. ASSUME NEW s \in Sessions, SessionStep(s) PROVE ListInv'
    <2>0. <<s, "recv">> \in Strands /\ <<s, "disc">> \in Strands
      BY StrandFacts, Zenon
    <2>1. CASE ReqRoomEnter(s) \/ ReqRoomExit(s)
      <3>1. /\ UNCHANGED <<conn, player, registry>> /\ pc[<<s, "recv">>] = "idle"
            /\ \E step \in {"leaveLobby", "leaveRoom"} : Goto(<<s, "recv">>, step, None)
        BY <2>1, Zenon DEF ReqRoomEnter, ReqRoomExit, Ask
      <3> QED BY <1>0, <2>0, <3>1, ListMove, Zenon
    <2>2. CASE Disconnect(s)
      <3>1. /\ UNCHANGED <<player, registry>> /\ conn[s] = "up" /\ conn' = [conn EXCEPT ![s] = "down"]
            /\ \E step \in {"leaveLobby", "clear"} : Goto(<<s, "disc">>, step, None)
        BY <2>2, Zenon DEF Disconnect, Disconnecting, DiscStep
      <3>2. pc[<<s, "disc">>] = "idle" /\ \A u \in Sessions : conn'[u] = "up" => conn[u] = "up"
        BY <1>a, <3>1, Zenon DEF TypeOK
      <3> QED BY <1>0, <2>0, <3>1, <3>2, ListMove, Zenon
    <2>3. CASE Destroy(s)
      <3>1. UNCHANGED <<player, registry, pc>> /\ conn' = [conn EXCEPT ![s] = "gone"]
        BY <2>3, Zenon DEF Destroy
      <3>2. \A u \in Sessions : conn'[u] = "up" => conn[u] = "up"
        BY <1>a, <3>1, Zenon DEF TypeOK
      <3>3. AccountListed'
        BY <1>0, <3>1, <3>2, ListKept, Zenon DEF ListInv
      <3> QED BY <1>0, <3>1, <3>3, Zenon DEF ListInv
    <2> QED BY <1>3, <2>1, <2>2, <2>3, Zenon DEF SessionStep
  <1>4. ASSUME NEW x \in Places, JobStep(x) PROVE ListInv'
    <2>1. UNCHANGED <<conn, player, registry, pc>>
      BY <1>4, Zenon DEF JobStep, LobbyEnter, RoomEnter, RoomNoti, Leave
    <2> QED BY <1>1, <2>1, Zenon
  <1>5. CASE UNCHANGED vars
    <2>1. UNCHANGED <<conn, player, registry, pc>>
      BY <1>5, Zenon DEF vars
    <2> QED BY <1>1, <2>1, Zenon
  <1> QED BY <1>0, <1>2, <1>3, <1>4, <1>5, ListStrand, Zenon DEF Next

(* Whoever shares an account and in whatever order its sessions log in: as   *)
(* long as one of them is online, PlayerSystem has an entry of the account,  *)
(* until the first of them has passed PlayerSystem::Remove.                  *)
THEOREM AccountsAreListed == Spec => []AccountListed
  <1>1. Init => ListInv
    BY Zenon DEF Init, ListInv, AccountListed
  <1>2. ListInv => AccountListed
    BY Zenon DEF ListInv
  <1> QED BY <1>1, <1>2, ListNext, Invariance, PTL DEF Spec

=============================================================================
