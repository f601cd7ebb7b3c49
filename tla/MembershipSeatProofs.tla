------------------------ MODULE MembershipSeatProofs ------------------------
(***************************************************************************)
(* OneSeat of module Membership, for every value of the constants.         *)
(*                                                                         *)
(* OneSeat is not inductive: that a player is in one place only rests on   *)
(* the jobs that still wait, on the thread that works for the session and  *)
(* on the pointers it leaves by.  SeatInv adds them.  The lemmas take one  *)
(* session u apart: first what posting or running one job does to the jobs *)
(* of u, then the steps of the threads of u, of its disconnect, of the     *)
(* other sessions, of the requests and answers, and of the jobs.           *)
(***************************************************************************)
EXTENDS MembershipProofs

\* What SeatInv says of one session.
Fine(s) == OneStrand(s) /\ JobsWait(s) /\ Seated(s)

(* The strands of a session. *)
LEMMA KindOf ==
  ASSUME NEW a \in Strands
  PROVE  /\ Session(a) \in Sessions
         /\ IsDisc(a) => a = <<Session(a), "disc">>
         /\ ~IsDisc(a) /\ ~IsLogin(a) => a = <<Session(a), "recv">>
         /\ IsLogin(a) => ~IsDisc(a)
  <1>1. a = <<a[1], a[2]>> /\ a[2] \in {"recv", "disc"} \cup LoginIds
    BY DEF Strands
  <1> QED BY <1>1, StrandFacts, NamesAssumption, Zenon DEF IsDisc, IsLogin, Session

(* The strands that have a name. *)
LEMMA NamedStrands ==
  ASSUME NEW s \in Sessions
  PROVE  /\ Session(<<s, "recv">>) = s /\ Session(<<s, "disc">>) = s
         /\ <<s, "recv">> \in Strands /\ <<s, "disc">> \in Strands
         /\ IsDisc(<<s, "disc">>) /\ ~IsDisc(<<s, "recv">>)
         /\ ~IsLogin(<<s, "recv">>) /\ ~IsLogin(<<s, "disc">>)
  <1>1. /\ Session(<<s, "recv">>) = s /\ Session(<<s, "disc">>) = s
        /\ IsLogin(<<s, "recv">>) <=> "recv" \in LoginIds
        /\ IsLogin(<<s, "disc">>) <=> "disc" \in LoginIds
    BY DEF Session, IsLogin
  <1> QED BY <1>1, StrandFacts, NamesAssumption, Zenon

(* A strand moves and the others stay where they are. *)
LEMMA Moves ==
  ASSUME IndInv, NEW a \in Strands, NEW step, NEW y, Goto(a, step, y)
  PROVE  pc'[a] = step /\ \A b \in Strands \ {a} : pc'[b] = pc[b]
  BY Zenon DEF IndInv, TypeOK, Goto

-----------------------------------------------------------------------------
(* Jobs are told apart by what they do and for whom. *)
LEMMA JobFacts ==
  /\ \A op, s, o, u : Job(op, s) = Job(o, u) <=> op = o /\ s = u
  /\ \A op \in {"enter", "leave", "noti"} : \A s \in Sessions : Job(op, s) \in Jobs
  /\ \A s : Job("leave", s) \notin Coming(s) /\ Job("enter", s) # Job("leave", s)
  /\ \A s, u : /\ Job("noti", s) # Job("enter", u) /\ Job("noti", s) # Job("leave", u)
               /\ Job("enter", s) # Job("leave", u)
  <1>1. \A op, s, o, u : Job(op, s) = Job(o, u) <=> op = o /\ s = u
    BY DEF Job
  <1>2. \A op \in {"enter", "leave", "noti"} : \A s \in Sessions : Job(op, s) \in Jobs
    BY DEF Job, Jobs
  <1>3. \A s : Job("leave", s) \notin Coming(s) /\ Job("enter", s) # Job("leave", s)
    BY DEF Coming, Job
  <1>4. \A s, u : /\ Job("noti", s) # Job("enter", u) /\ Job("noti", s) # Job("leave", u)
                 /\ Job("enter", s) # Job("leave", u)
    BY DEF Job
  <1> QED BY <1>1, <1>2, <1>3, <1>4, Zenon

(* Posting a job behind the others. *)
LEMMA PostedJob ==
  ASSUME NEW q \in Seq(Jobs), NEW j \in Jobs, NEW m, NEW u \in Sessions
  PROVE  LET r == Append(q, j) IN
         /\ \A k : Contains(r, k) <=> Contains(q, k) \/ k = j
         /\ j # Job("enter", u) /\ EndsUpIn(r, m, u) => EndsUpIn(q, m, u)
         /\ j = Job("leave", u) => ~EndsUpIn(r, m, u)
         /\ j \notin Coming(u) /\ ComesOnce(q, u) => ComesOnce(r, u)
         /\ (\A k \in Coming(u) : ~Contains(q, k)) => ComesOnce(r, u)
         /\ j # Job("leave", u) /\ Remains(q, u) => Remains(r, u)
         /\ ~Contains(q, Job("enter", u)) => Remains(r, u)
  <1> DEFINE r == Append(q, j)
             n == Len(q) + 1
  <1>1. DOMAIN r = DOMAIN q \cup {n} /\ r[n] = j /\ ~(n < n)
    OBVIOUS
  <1>2. \A i \in DOMAIN q : r[i] = q[i] /\ i < n /\ ~(n < i)
    OBVIOUS
  <1> HIDE DEF r, n
  <1>3. \A k : Contains(r, k) <=> Contains(q, k) \/ k = j
    BY <1>1, <1>2, Zenon DEF Contains
  <1>4. j # Job("enter", u) /\ EndsUpIn(r, m, u) => EndsUpIn(q, m, u)
    BY <1>1, <1>2, Zenon DEF EndsUpIn, Contains
  <1>5. j = Job("leave", u) => ~EndsUpIn(r, m, u)
    BY <1>1, <1>2, JobFacts, Zenon DEF EndsUpIn, Contains
  <1>6. j \notin Coming(u) /\ ComesOnce(q, u) => ComesOnce(r, u)
    BY <1>1, <1>2, Zenon DEF ComesOnce
  <1>7. (\A k \in Coming(u) : ~Contains(q, k)) => ComesOnce(r, u)
    BY <1>1, <1>2, Zenon DEF ComesOnce, Contains
  <1>8. j # Job("leave", u) /\ Remains(q, u) => Remains(r, u)
    BY <1>1, <1>2, Zenon DEF Remains
  <1>9. ~Contains(q, Job("enter", u)) => Remains(r, u)
    BY <1>1, <1>2, Zenon DEF Remains, Contains
  <1> QED BY <1>3, <1>4, <1>5, <1>6, <1>7, <1>8, <1>9, Zenon DEF r

(* Running the first job: q becomes its tail and the members m become w. *)
LEMMA PoppedJob ==
  ASSUME NEW q \in Seq(Jobs), q # <<>>, NEW u \in Sessions
  PROVE  LET t == Tail(q) IN
         /\ \A k : Contains(t, k) => Contains(q, k)
         /\ Contains(q, Head(q))
         /\ ComesOnce(q, u) => ComesOnce(t, u)
         /\ Remains(q, u) => Remains(t, u)
         /\ ComesOnce(q, u) /\ Head(q) \in Coming(u) => \A k \in Coming(u) : ~Contains(t, k)
         /\ Head(q) = Job("enter", u) /\ Remains(q, u) => \A m : EndsUpIn(q, m, u)
         /\ \A m, w : /\ u \in w => (u \in m /\ Head(q) # Job("leave", u)) \/ Head(q) = Job("enter", u)
                      /\ EndsUpIn(t, w, u)
                      => EndsUpIn(q, m, u)
  <1> DEFINE t == Tail(q)
  <1>0. /\ t \in Seq(Jobs) /\ 1 \in DOMAIN q /\ q[1] = Head(q)
        /\ \A i \in DOMAIN t : i + 1 \in DOMAIN q /\ t[i] = q[i + 1] /\ 1 < i + 1
        /\ \A i, k \in DOMAIN t : i < k <=> i + 1 < k + 1
    OBVIOUS
  <1>a. \A k \in DOMAIN q : k = 1 \/ (k - 1 \in DOMAIN t /\ k = (k - 1) + 1)
    OBVIOUS
  <1>1. \A k \in DOMAIN q : k = 1 \/ \E i \in DOMAIN t : k = i + 1
    BY <1>a, Zenon
  <1> HIDE DEF t
  <1>2. /\ \A k : Contains(t, k) => Contains(q, k)
        /\ Contains(q, Head(q))
    BY <1>0, Zenon DEF Contains
  <1>3. ComesOnce(q, u) => ComesOnce(t, u)
    BY <1>0, ZenonT(60) DEF ComesOnce
  <1>4. Remains(q, u) => Remains(t, u)
    BY <1>0, Zenon DEF Remains
  <1>5. ComesOnce(q, u) /\ Head(q) \in Coming(u) => \A k \in Coming(u) : ~Contains(t, k)
    <2>1. SUFFICES ASSUME ComesOnce(q, u), Head(q) \in Coming(u), NEW i \in DOMAIN t
                   PROVE  t[i] \notin Coming(u)
      BY Zenon DEF Contains
    <2> QED BY <1>0, <2>1, Zenon DEF ComesOnce
  <1>6. Head(q) = Job("enter", u) /\ Remains(q, u) => \A m : EndsUpIn(q, m, u)
    BY <1>0, Zenon DEF Remains, EndsUpIn
  <1>7. ASSUME NEW m, NEW w, u \in w => (u \in m /\ Head(q) # Job("leave", u)) \/ Head(q) = Job("enter", u),
               EndsUpIn(t, w, u)
        PROVE  EndsUpIn(q, m, u)
    <2>1. CASE \E i \in DOMAIN t : /\ t[i] = Job("enter", u)
                                   /\ \A k \in DOMAIN t : i < k => t[k] # Job("leave", u)
      <3>1. PICK i \in DOMAIN t : /\ t[i] = Job("enter", u)
                                  /\ \A k \in DOMAIN t : i < k => t[k] # Job("leave", u)
        BY <2>1, Zenon
      <3>2. i + 1 \in DOMAIN q /\ q[i + 1] = Job("enter", u)
        BY <1>0, <3>1, Zenon
      <3>3. \A k \in DOMAIN q : i + 1 < k => q[k] # Job("leave", u)
        <4>1. SUFFICES ASSUME NEW k \in DOMAIN q, i + 1 < k PROVE q[k] # Job("leave", u)
          BY Zenon
        <4>2. k # 1
          BY <1>0, <4>1
        <4>3. PICK l \in DOMAIN t : k = l + 1
          BY <1>1, <4>2, Zenon
        <4> QED BY <1>0, <3>1, <4>1, <4>3, Zenon
      <3> QED BY <3>2, <3>3, Zenon DEF EndsUpIn
    <2>2. CASE u \in w /\ ~Contains(t, Job("leave", u))
      <3>1. CASE Head(q) = Job("enter", u)
        <4>1. \A k \in DOMAIN q : 1 < k => q[k] # Job("leave", u)
          <5>1. SUFFICES ASSUME NEW k \in DOMAIN q, 1 < k PROVE q[k] # Job("leave", u)
            BY Zenon
          <5>2. k # 1
            BY <5>1
          <5>3. PICK l \in DOMAIN t : k = l + 1
            BY <1>1, <5>2, Zenon
          <5> QED BY <1>0, <2>2, <5>3, Zenon DEF Contains
        <4> QED BY <1>0, <3>1, <4>1, Zenon DEF EndsUpIn
      <3>2. CASE u \in m /\ Head(q) # Job("leave", u)
        <4>1. ~Contains(q, Job("leave", u))
          BY <1>0, <1>1, <2>2, <3>2, Zenon DEF Contains
        <4> QED BY <3>2, <4>1, Zenon DEF EndsUpIn
      <3> QED BY <1>7, <2>2, <3>1, <3>2, Zenon
    <2> QED BY <1>7, <2>1, <2>2, Zenon DEF EndsUpIn
  <1> QED BY <1>2, <1>3, <1>4, <1>5, <1>6, <1>7, Zenon DEF t

-----------------------------------------------------------------------------
(* Nothing that Fine(u) speaks of begins, and while a thread of u is about to *)
(* leave a place, that place is still the one its pointer names.             *)
LEMMA Kept ==
  ASSUME NEW u \in Sessions, Fine(u),
         client'[u] = client[u], processed[u] => processed'[u],
         Busy(u)' = Busy(u), \A b \in Busy(u) : pc'[b] = pc[b],
         pc'[<<u, "disc">>] \in IF conn'[u] = "up" THEN {"idle"} ELSE Undo,
         conn'[u] = "up" => conn[u] = "up" /\ UNCHANGED <<lobbyOf[u], roomOf[u]>>,
         \A x \in Places : /\ Queued(x, "enter", u)' => Queued(x, "enter", u)
                           /\ Queued(x, "noti", u)' => Queued(x, "noti", u)
                           /\ ComesOnce(queue'[x], u)
                           /\ conn'[u] = "up" => Remains(queue'[x], u)
                           /\ Stays(x, u)' => Stays(x, u),
         \A x \in Places : Stays(x, u)' =>
           \A b \in Busy(u) :
             \/ pc[b] = "leaveLobby" /\ lobbyOf'[u] = x /\ pc'[<<u, "disc">>] # "resetLobby"
             \/ pc[b] = "leaveRoom" /\ roomOf'[u] = x /\ pc'[<<u, "disc">>] # "resetRoom"
  PROVE  Fine(u)'
  <1>0. OneStrand(u) /\ JobsWait(u) /\ Seated(u)
    BY Zenon DEF Fine
  <1>1. OneStrand(u)'
    BY <1>0, Zenon DEF OneStrand, ToLobby, ToRoom, Undo
  <1>2. JobsWait(u)'
    BY <1>0, Zenon DEF JobsWait
  <1>3. Seated(u)'
    <2>1. SUFFICES ASSUME NEW x \in Places, Stays(x, u)'
          PROVE  (/\ processed[u]
                  /\ conn[u] = "up" /\ Busy(u) = {} =>
                       /\ client[u] = "inLobby" => lobbyOf[u] = x
                       /\ client[u] = "inRoom" => roomOf[u] = x
                       /\ \A y \in Places : Queued(y, "noti", u) => roomOf[u] = x
                  /\ \A a \in Busy(u) :
                       \/ pc[a] = "leaveLobby" /\ lobbyOf[u] = x /\ pc[<<u, "disc">>] # "resetLobby"
                       \/ pc[a] = "leaveRoom" /\ roomOf[u] = x /\ pc[<<u, "disc">>] # "resetRoom"
                  /\ \A y \in Places : Stays(y, u) => x = y)'
      BY Zenon DEF Seated
    <2>2. Stays(x, u)
      BY <2>1, Zenon
    <2>3. processed'[u] /\ \A y \in Places : Stays(y, u)' => x = y
      BY <1>0, <2>2, Zenon DEF Seated
    <2>4. conn'[u] = "up" /\ Busy(u)' = {} =>
            /\ client'[u] = "inLobby" => lobbyOf'[u] = x
            /\ client'[u] = "inRoom" => roomOf'[u] = x
            /\ \A y \in Places : Queued(y, "noti", u)' => roomOf'[u] = x
      BY <1>0, <2>2, Zenon DEF Seated
    <2> QED BY <2>1, <2>3, <2>4, Zenon
  <1> QED BY <1>1, <1>2, <1>3, Zenon DEF Fine

(* A thread of u takes a step towards the next place.  u is in none. *)
LEMMA Works ==
  ASSUME IndInv, NEW u \in Sessions, Fine(u), NEW a \in Busy(u), NEW step, NEW y, Goto(a, step, y),
         IF IsLogin(a) \/ client[u] = "toLobby" THEN step \in ToLobby \cup {"add", "resetRoom"}
                                                ELSE step \in ToRoom,
         step = "add" => IsLogin(a), step = "resetRoom" => ~IsLogin(a),
         client'[u] = client[u], conn'[u] = conn[u], processed'[u] = processed[u],
         \A x \in Places : /\ ~Queued(x, "enter", u)' /\ ~Queued(x, "noti", u)'
                           /\ ComesOnce(queue'[x], u) /\ Remains(queue'[x], u)
                           /\ ~Stays(x, u)'
  PROVE  Fine(u)'
  <1>0. OneStrand(u) /\ a \in Strands /\ Session(a) = u /\ ~IsDisc(a) /\ <<u, "disc">> \in Strands
    BY NamedStrands, Zenon DEF Fine, Busy
  <1>1. pc'[a] = step /\ \A b \in Strands \ {a} : pc'[b] = pc[b]
    BY <1>0, Moves, Zenon
  <1>2. step \notin {"idle", "done"}
    BY DEF ToLobby, ToRoom
  <1>3. Busy(u) = {a}
    BY <1>0, Zenon DEF OneStrand
  <1>4. Busy(u)' = {a}
    <2>1. \A b \in Strands : b \in Busy(u)' <=> b = a
      BY <1>0, <1>1, <1>2, <1>3, Zenon DEF Busy
    <2>2. \A b \in Busy(u)' : b \in Strands
      BY Zenon DEF Busy
    <2> QED BY <1>0, <2>1, <2>2, Zenon
  <1>5. pc'[<<u, "disc">>] = pc[<<u, "disc">>]
    BY <1>0, <1>1, NamedStrands, Zenon
  <1>6. processed[u] /\ client[u] \in {"toLobby", "toRoom"} /\ (IsLogin(a) => client[u] = "toLobby")
    BY <1>0, <1>3, Zenon DEF OneStrand
  <1>7. OneStrand(u)'
    BY <1>0, <1>1, <1>4, <1>5, <1>6, ZenonT(60) DEF OneStrand, ToLobby, ToRoom, Undo
  <1>8. JobsWait(u)'
    BY Zenon DEF JobsWait
  <1>9. Seated(u)'
    BY Zenon DEF Seated
  <1> QED BY <1>7, <1>8, <1>9, Zenon DEF Fine

(* u has no strand at work. *)
LEMMA Idle ==
  ASSUME NEW u \in Sessions, Fine(u), client[u] \in {"inLobby", "inRoom"} \/ ~processed[u]
  PROVE  /\ Busy(u) = {} /\ \A x \in Places : ~Queued(x, "enter", u) /\ ~Queued(x, "noti", u)
         /\ client[u] \in {"inLobby", "inRoom"} => processed[u]
         /\ ~processed[u] => client[u] = "toLobby" /\ \A x \in Places : ~Stays(x, u)
  <1>0. OneStrand(u) /\ JobsWait(u) /\ Seated(u)
    BY Zenon DEF Fine
  <1>1. "inLobby" \notin {"toLobby", "toRoom"} /\ "inRoom" \notin {"toLobby", "toRoom"}
    OBVIOUS
  <1>2. client[u] \in {"inLobby", "inRoom"} => processed[u]
    BY <1>0, <1>1, Zenon DEF OneStrand
  <1>3. Busy(u) = {}
    BY <1>0, <1>1, Zenon DEF OneStrand
  <1>4. \A x \in Places : ~Queued(x, "enter", u) /\ ~Queued(x, "noti", u)
    BY <1>0, <1>1, Zenon DEF JobsWait
  <1>5. ~processed[u] => client[u] = "toLobby" /\ \A x \in Places : ~Stays(x, u)
    BY <1>0, Zenon DEF OneStrand, Seated
  <1> QED BY <1>2, <1>3, <1>4, <1>5, Zenon

(* A thread begins to work for u: a login, or a request.  Of a request the  *)
(* pointer tells which place is left.                                        *)
LEMMA Starts ==
  ASSUME IndInv, NEW u \in Sessions, Fine(u), client[u] \in {"inLobby", "inRoom"} \/ ~processed[u],
         NEW a \in Strands, Session(a) = u, ~IsDisc(a), NEW step, NEW y, Goto(a, step, y),
         conn[u] = "up", UNCHANGED <<conn[u], queue, members, lobbyOf[u], roomOf[u]>>, processed'[u],
         \/ ~processed[u] /\ IsLogin(a) /\ step = "setPlayer" /\ client'[u] = client[u]
         \/ ~IsLogin(a) /\ client[u] = "inLobby" /\ step = "leaveLobby" /\ client'[u] = "toRoom"
         \/ ~IsLogin(a) /\ client[u] = "inRoom" /\ step = "leaveRoom" /\ client'[u] = "toLobby"
  PROVE  Fine(u)'
  <1>0. OneStrand(u) /\ JobsWait(u) /\ Seated(u) /\ <<u, "disc">> \in Strands /\ <<u, "disc">> # a
    BY NamedStrands, Zenon DEF Fine
  <1>1. pc'[a] = step /\ \A b \in Strands \ {a} : pc'[b] = pc[b]
    BY Moves, Zenon
  <1>2. /\ Busy(u) = {} /\ \A x \in Places : ~Queued(x, "enter", u) /\ ~Queued(x, "noti", u)
        /\ ~processed[u] => client[u] = "toLobby" /\ \A x \in Places : ~Stays(x, u)
    BY Idle, Zenon
  <1>3. step \notin {"idle", "done"}
    OBVIOUS
  <1>4. Busy(u)' = {a}
    <2>1. \A b \in Strands : b \in Busy(u)' <=> b = a
      BY <1>1, <1>2, <1>3, Zenon DEF Busy
    <2>2. \A b \in Busy(u)' : b \in Strands
      BY Zenon DEF Busy
    <2> QED BY <2>1, <2>2, Zenon
  <1>5. pc'[<<u, "disc">>] = "idle"
    BY <1>0, <1>1, Zenon DEF OneStrand
  <1>6. OneStrand(u)'
    BY <1>1, <1>2, <1>4, <1>5, Zenon DEF OneStrand, ToLobby, ToRoom, Undo
  <1>7. \A x \in Places : /\ Queued(x, "enter", u)' <=> Queued(x, "enter", u)
                          /\ Queued(x, "noti", u)' <=> Queued(x, "noti", u)
                          /\ Stays(x, u)' <=> Stays(x, u)
    BY Zenon DEF Queued, Stays
  <1>8. JobsWait(u)'
    BY <1>0, <1>2, <1>7, Zenon DEF JobsWait
  <1>9. Seated(u)'
    <2>1. "idle" # "resetLobby" /\ "idle" # "resetRoom"
      OBVIOUS
    <2>2. ASSUME NEW x \in Places, Stays(x, u)
          PROVE  /\ \A z \in Places : Stays(z, u) => x = z
                 /\ \/ step = "leaveLobby" /\ lobbyOf[u] = x
                    \/ step = "leaveRoom" /\ roomOf[u] = x
      BY <1>0, <1>2, <2>2, Zenon DEF Seated
    <2> QED BY <1>1, <1>4, <1>5, <1>7, <2>1, <2>2, Zenon DEF Seated
  <1> QED BY <1>6, <1>8, <1>9, Zenon DEF Fine

-----------------------------------------------------------------------------
(* A job is posted that does not bring u. *)
LEMMA Posted ==
  ASSUME IndInv, NEW u \in Sessions, NEW x \in Places, NEW j \in Jobs, j \notin Coming(u),
         queue' = [queue EXCEPT ![x] = Append(@, j)], members' = members
  PROVE  /\ \A y \in Places :
              /\ Queued(y, "enter", u)' => Queued(y, "enter", u)
              /\ Queued(y, "noti", u)' => Queued(y, "noti", u)
              /\ ComesOnce(queue[y], u) => ComesOnce(queue'[y], u)
              /\ Remains(queue[y], u) /\ (j # Job("leave", u) \/ ~Queued(y, "enter", u)) => Remains(queue'[y], u)
              /\ Stays(y, u)' => Stays(y, u)
         /\ j = Job("leave", u) => ~Stays(x, u)'
  <1>1. queue'[x] = Append(queue[x], j) /\ queue[x] \in Seq(Jobs) /\ \A y \in Places \ {x} : queue'[y] = queue[y]
    BY Zenon DEF IndInv, TypeOK
  <1>2. j # Job("enter", u) /\ j # Job("noti", u)
    BY Zenon DEF Coming
  <1>3. /\ \A k : Contains(queue'[x], k) <=> Contains(queue[x], k) \/ k = j
        /\ ComesOnce(queue[x], u) => ComesOnce(queue'[x], u)
        /\ EndsUpIn(queue'[x], members[x], u) => EndsUpIn(queue[x], members[x], u)
        /\ j = Job("leave", u) => ~EndsUpIn(queue'[x], members[x], u)
        /\ j # Job("leave", u) /\ Remains(queue[x], u) => Remains(queue'[x], u)
        /\ ~Contains(queue[x], Job("enter", u)) => Remains(queue'[x], u)
    <2> DEFINE q == queue[x]
               r == Append(q, j)
    <2>1. /\ \A k : Contains(r, k) <=> Contains(q, k) \/ k = j
          /\ ComesOnce(q, u) => ComesOnce(r, u)
          /\ EndsUpIn(r, members[x], u) => EndsUpIn(q, members[x], u)
          /\ j = Job("leave", u) => ~EndsUpIn(r, members[x], u)
          /\ j # Job("leave", u) /\ Remains(q, u) => Remains(r, u)
          /\ ~Contains(q, Job("enter", u)) => Remains(r, u)
      <3>1. q \in Seq(Jobs)
        BY <1>1, Zenon
      <3> HIDE DEF q
      <3> QED BY <1>2, <3>1, PostedJob, ZenonT(60)
    <2> QED BY <1>1, <2>1, Zenon
  <1>4. ASSUME NEW y \in Places
        PROVE  /\ Queued(y, "enter", u)' => Queued(y, "enter", u)
               /\ Queued(y, "noti", u)' => Queued(y, "noti", u)
               /\ ComesOnce(queue[y], u) => ComesOnce(queue'[y], u)
               /\ Remains(queue[y], u) /\ (j # Job("leave", u) \/ ~Queued(y, "enter", u)) => Remains(queue'[y], u)
               /\ Stays(y, u)' => Stays(y, u)
    <2>1. CASE y = x
      BY <1>2, <1>3, <2>1, Zenon DEF Queued, Stays
    <2>2. CASE y # x
      BY <1>1, <2>2, Zenon DEF Queued, Stays
    <2> QED BY <2>1, <2>2, Zenon
  <1>5. j = Job("leave", u) => ~Stays(x, u)'
    BY <1>3, Zenon DEF Stays
  <1> QED BY <1>4, <1>5, Zenon

(* The first job of a place runs, and posts nothing for u. *)
LEMMA Ran ==
  ASSUME IndInv, NEW u \in Sessions, NEW x \in Places, queue[x] # <<>>,
         \A y \in Places \ {x} : queue'[y] = queue[y] /\ members'[y] = members[y],
         \/ queue'[x] = Tail(queue[x])
         \/ \E s \in Sessions \ {u} : queue'[x] = Append(Tail(queue[x]), Job("noti", s)),
         u \in members'[x] => \/ u \in members[x] /\ Head(queue[x]) # Job("leave", u)
                             \/ Head(queue[x]) = Job("enter", u)
  PROVE  \A y \in Places :
           /\ Queued(y, "enter", u)' => Queued(y, "enter", u)
           /\ Queued(y, "noti", u)' => Queued(y, "noti", u)
           /\ ComesOnce(queue[y], u) => ComesOnce(queue'[y], u)
           /\ Remains(queue[y], u) => Remains(queue'[y], u)
           /\ Stays(y, u)' => Stays(y, u)
  <1> DEFINE t == Tail(queue[x])
  <1>1. t \in Seq(Jobs)
    BY DEF IndInv, TypeOK
  <1>2. queue[x] \in Seq(Jobs)
    BY Zenon DEF IndInv, TypeOK
  <1>3. /\ \A k : Contains(t, k) => Contains(queue[x], k)
        /\ ComesOnce(queue[x], u) => ComesOnce(t, u)
        /\ Remains(queue[x], u) => Remains(t, u)
        /\ EndsUpIn(t, members'[x], u) => EndsUpIn(queue[x], members[x], u)
    BY <1>2, PoppedJob, Zenon
  <1> HIDE DEF t
  <1>4. ASSUME NEW s \in Sessions \ {u}, queue'[x] = Append(t, Job("noti", s))
        PROVE  /\ \A k \in {Job("enter", u), Job("noti", u)} : Contains(queue'[x], k) => Contains(t, k)
               /\ ComesOnce(t, u) => ComesOnce(queue'[x], u)
               /\ Remains(t, u) => Remains(queue'[x], u)
               /\ EndsUpIn(queue'[x], members'[x], u) => EndsUpIn(t, members'[x], u)
    <2>1. Job("noti", s) \in Jobs /\ Job("noti", s) # Job("enter", u) /\ Job("noti", s) # Job("noti", u)
          /\ Job("noti", s) # Job("leave", u) /\ Job("noti", s) \notin Coming(u)
      BY DEF Job, Jobs, Coming
    <2> DEFINE j == Job("noti", s)
               r == Append(t, j)
    <2> HIDE DEF j
    <2>2. j \in Jobs /\ j \notin {Job("enter", u), Job("noti", u), Job("leave", u)} /\ j \notin Coming(u)
      BY <2>1, Zenon DEF j
    <2>3. /\ \A k \in {Job("enter", u), Job("noti", u)} : Contains(r, k) => Contains(t, k)
          /\ ComesOnce(t, u) => ComesOnce(r, u)
          /\ Remains(t, u) => Remains(r, u)
          /\ EndsUpIn(r, members'[x], u) => EndsUpIn(t, members'[x], u)
      BY <1>1, <2>2, PostedJob, ZenonT(60)
    <2> QED BY <1>4, <2>3, Zenon DEF j
  <1>5. /\ \A k \in {Job("enter", u), Job("noti", u)} : Contains(queue'[x], k) => Contains(t, k)
        /\ ComesOnce(t, u) => ComesOnce(queue'[x], u)
        /\ Remains(t, u) => Remains(queue'[x], u)
        /\ EndsUpIn(queue'[x], members'[x], u) => EndsUpIn(t, members'[x], u)
    BY <1>4, Zenon DEF t
  <1>6. SUFFICES ASSUME NEW y \in Places
        PROVE  /\ Queued(y, "enter", u)' => Queued(y, "enter", u)
               /\ Queued(y, "noti", u)' => Queued(y, "noti", u)
               /\ ComesOnce(queue[y], u) => ComesOnce(queue'[y], u)
               /\ Remains(queue[y], u) => Remains(queue'[y], u)
               /\ Stays(y, u)' => Stays(y, u)
    BY Zenon
  <1>7. CASE y = x
    BY <1>3, <1>5, <1>7, Zenon DEF Queued, Stays
  <1>8. CASE y # x
    BY <1>8, Zenon DEF Queued, Stays
  <1> QED BY <1>7, <1>8, Zenon

(* A step that concerns u only by its jobs, or ends a login of u that has    *)
(* not begun.                                                                *)
LEMMA Apart ==
  ASSUME NEW u \in Sessions, Fine(u),
         UNCHANGED <<client[u], conn[u], lobbyOf[u], roomOf[u]>>, processed[u] => processed'[u],
         \A b \in Strands : Session(b) = u =>
            pc'[b] = pc[b] \/ (~IsDisc(b) /\ pc[b] = "idle" /\ pc'[b] = "done"),
         \A x \in Places : /\ Queued(x, "enter", u)' => Queued(x, "enter", u)
                           /\ Queued(x, "noti", u)' => Queued(x, "noti", u)
                           /\ ComesOnce(queue[x], u) => ComesOnce(queue'[x], u)
                           /\ Remains(queue[x], u) => Remains(queue'[x], u)
                           /\ Stays(x, u)' => Stays(x, u)
  PROVE  Fine(u)'
  <1>0. OneStrand(u) /\ JobsWait(u) /\ Seated(u)
    BY Zenon DEF Fine
  <1>1. Busy(u)' = Busy(u) /\ \A b \in Busy(u) : pc'[b] = pc[b]
    BY Zenon DEF Busy
  <1>2. pc'[<<u, "disc">>] = pc[<<u, "disc">>]
    BY NamedStrands, Zenon
  <1>3. pc'[<<u, "disc">>] \in IF conn'[u] = "up" THEN {"idle"} ELSE Undo
    BY <1>0, <1>2, Zenon DEF OneStrand
  <1>4. \A x \in Places : /\ ComesOnce(queue'[x], u)
                          /\ conn'[u] = "up" => Remains(queue'[x], u)
    BY <1>0, Zenon DEF JobsWait
  <1>5. \A x \in Places : Stays(x, u)' =>
           \A b \in Busy(u) :
             \/ pc[b] = "leaveLobby" /\ lobbyOf'[u] = x /\ pc'[<<u, "disc">>] # "resetLobby"
             \/ pc[b] = "leaveRoom" /\ roomOf'[u] = x /\ pc'[<<u, "disc">>] # "resetRoom"
    BY <1>0, <1>2, Zenon DEF Seated
  <1> QED BY <1>1, <1>3, <1>4, <1>5, Kept, Zenon

-----------------------------------------------------------------------------
(* LeaveLobby and LeaveRoom post a Leave job to the place p that the pointer  *)
(* names, if it names one.                                                   *)
LEMMA LeavePosted ==
  ASSUME IndInv, NEW u \in Sessions, NEW p \in Places \cup {None}, members' = members,
         IF p = None THEN UNCHANGED queue ELSE Post(p, "leave", u)
  PROVE  \A y \in Places :
           /\ Queued(y, "enter", u)' => Queued(y, "enter", u)
           /\ Queued(y, "noti", u)' => Queued(y, "noti", u)
           /\ ComesOnce(queue[y], u) => ComesOnce(queue'[y], u)
           /\ Remains(queue[y], u) /\ ~Queued(y, "enter", u) => Remains(queue'[y], u)
           /\ Stays(y, u)' => Stays(y, u) /\ y # p
  <1>1. CASE p = None
    BY <1>1, PlaceFacts, Zenon DEF Queued, Stays
  <1>2. CASE p # None
    <2>1. p \in Places /\ queue' = [queue EXCEPT ![p] = Append(@, Job("leave", u))]
      BY <1>2, Zenon DEF Post
    <2>2. Job("leave", u) \in Jobs /\ Job("leave", u) \notin Coming(u)
      BY JobFacts, Zenon
    <2> HIDE DEF Job
    <2> QED BY <2>1, <2>2, Posted, ZenonT(60)
  <1> QED BY <1>1, <1>2, Zenon

(* OnDisconnected of u. *)
LEMMA Undoes ==
  ASSUME IndInv, NEW u \in Sessions, Fine(u), StrandStep(<<u, "disc">>)
  PROVE  Fine(u)'
  <1> USE DEF sessionVars, playerVars, placeVars, clientVars
  <1> DEFINE d == <<u, "disc">>
  <1>0. d \in Strands /\ Session(d) = u /\ IsDisc(d) /\ OneStrand(u) /\ JobsWait(u) /\ Seated(u) /\ TypeOK
    BY NamedStrands, Zenon DEF Fine, IndInv
  <1>1. lobbyOf[u] \in Places \cup {None} /\ roomOf[u] \in Places \cup {None}
    BY <1>0, PlaceFacts, Zenon DEF TypeOK
  <1>2. ASSUME NEW step, NEW y, Goto(d, step, y), pc[d] # "idle"
        PROVE  /\ pc'[d] = step /\ conn[u] # "up"
               /\ Busy(u)' = Busy(u) /\ \A b \in Busy(u) : pc'[b] = pc[b]
    <2>1. pc'[d] = step /\ \A b \in Strands \ {d} : pc'[b] = pc[b]
      BY <1>0, <1>2, Moves, Zenon
    <2>2. conn[u] # "up"
      BY <1>0, <1>2, Zenon DEF OneStrand
    <2> QED BY <1>0, <2>1, <2>2, Zenon DEF Busy
  <1>3. ASSUME queue' = queue, members' = members
        PROVE  \A x \in Places : /\ Queued(x, "enter", u)' => Queued(x, "enter", u)
                                 /\ Queued(x, "noti", u)' => Queued(x, "noti", u)
                                 /\ ComesOnce(queue'[x], u)
                                 /\ Stays(x, u)' => Stays(x, u)
    BY <1>0, <1>3, Zenon DEF Queued, Stays, JobsWait
  <1>4. CASE LeaveLobby(d)
    <2>1. /\ Goto(d, "resetLobby", None) /\ pc[d] = "leaveLobby" /\ members' = members
          /\ IF lobbyOf[u] = None THEN UNCHANGED queue ELSE Post(lobbyOf[u], "leave", u)
          /\ UNCHANGED <<client, processed, conn, lobbyOf, roomOf>>
      BY <1>0, <1>4, Zenon DEF LeaveLobby
    <2>2. \A x \in Places : /\ Queued(x, "enter", u)' => Queued(x, "enter", u)
                            /\ Queued(x, "noti", u)' => Queued(x, "noti", u)
                            /\ ComesOnce(queue'[x], u)
                            /\ Stays(x, u)' => Stays(x, u) /\ x # lobbyOf[u]
      BY <1>0, <1>1, <2>1, LeavePosted, Zenon DEF JobsWait
    <2>3. /\ pc'[d] = "resetLobby" /\ conn[u] # "up"
          /\ Busy(u)' = Busy(u) /\ \A b \in Busy(u) : pc'[b] = pc[b]
      BY <1>2, <2>1, Zenon
    <2>4. \A x \in Places : Stays(x, u)' => \A b \in Busy(u) : pc[b] = "leaveRoom" /\ roomOf[u] = x
      BY <1>0, <2>2, Zenon DEF Seated
    <2> HIDE DEF d
    <2> QED BY <2>1, <2>2, <2>3, <2>4, Kept, Zenon DEF d, Undo
  <1>5. CASE ResetLobby(d)
    <2>1. /\ Goto(d, "leaveRoom", None) /\ pc[d] = "resetLobby"
          /\ UNCHANGED <<client, processed, conn, roomOf, queue, members>>
      BY <1>0, <1>5, Zenon DEF ResetLobby
    <2>2. /\ pc'[d] = "leaveRoom" /\ conn[u] # "up"
          /\ Busy(u)' = Busy(u) /\ \A b \in Busy(u) : pc'[b] = pc[b]
      BY <1>2, <2>1, Zenon
    <2>3. \A x \in Places : Stays(x, u)' => \A b \in Busy(u) : pc[b] = "leaveRoom" /\ roomOf[u] = x
      BY <1>0, <1>3, <2>1, Zenon DEF Seated
    <2> HIDE DEF d
    <2> QED BY <1>3, <2>1, <2>2, <2>3, Kept, Zenon DEF d, Undo
  <1>6. CASE LeaveRoom(d)
    <2>1. /\ Goto(d, "resetRoom", None) /\ pc[d] = "leaveRoom" /\ members' = members
          /\ IF roomOf[u] = None THEN UNCHANGED queue ELSE Post(roomOf[u], "leave", u)
          /\ UNCHANGED <<client, processed, conn, lobbyOf, roomOf>>
      BY <1>0, <1>6, Zenon DEF LeaveRoom
    <2>2. \A x \in Places : /\ Queued(x, "enter", u)' => Queued(x, "enter", u)
                            /\ Queued(x, "noti", u)' => Queued(x, "noti", u)
                            /\ ComesOnce(queue'[x], u)
                            /\ Stays(x, u)' => Stays(x, u) /\ x # roomOf[u]
      BY <1>0, <1>1, <2>1, LeavePosted, Zenon DEF JobsWait
    <2>3. /\ pc'[d] = "resetRoom" /\ conn[u] # "up"
          /\ Busy(u)' = Busy(u) /\ \A b \in Busy(u) : pc'[b] = pc[b]
      BY <1>2, <2>1, Zenon
    <2>4. \A x \in Places : Stays(x, u)' => \A b \in Busy(u) : pc[b] = "leaveLobby" /\ lobbyOf[u] = x
      BY <1>0, <2>2, Zenon DEF Seated
    <2> HIDE DEF d
    <2> QED BY <2>1, <2>2, <2>3, <2>4, Kept, Zenon DEF d, Undo
  <1>7. CASE ResetRoom(d)
    <2>1. /\ Goto(d, "remove", None) /\ pc[d] = "resetRoom"
          /\ UNCHANGED <<client, processed, conn, lobbyOf, queue, members>>
      BY <1>0, <1>7, Zenon DEF ResetRoom
    <2>2. /\ pc'[d] = "remove" /\ conn[u] # "up"
          /\ Busy(u)' = Busy(u) /\ \A b \in Busy(u) : pc'[b] = pc[b]
      BY <1>2, <2>1, Zenon
    <2>3. \A x \in Places : Stays(x, u)' => \A b \in Busy(u) : pc[b] = "leaveLobby" /\ lobbyOf[u] = x
      BY <1>0, <1>3, <2>1, Zenon DEF Seated
    <2> HIDE DEF d
    <2> QED BY <1>3, <2>1, <2>2, <2>3, Kept, Zenon DEF d, Undo
  <1>8. CASE Remove(d) \/ ClearPlayer(d)
    <2>1. PICK step \in {"clear", "done"} : Goto(d, step, None)
      BY <1>0, <1>8, Zenon DEF Remove, ClearPlayer, Finish
    <2>2. /\ pc[d] # "idle"
          /\ UNCHANGED <<client, processed, conn, lobbyOf, roomOf, queue, members>>
      BY <1>0, <1>8, Zenon DEF Remove, ClearPlayer
    <2>3. /\ pc'[d] = step /\ conn[u] # "up"
          /\ Busy(u)' = Busy(u) /\ \A b \in Busy(u) : pc'[b] = pc[b]
      BY <1>2, <2>1, <2>2, Zenon
    <2>4. \A x \in Places : Stays(x, u)' =>
            \A b \in Busy(u) : \/ pc[b] = "leaveLobby" /\ lobbyOf[u] = x
                               \/ pc[b] = "leaveRoom" /\ roomOf[u] = x
      BY <1>0, <1>3, <2>2, Zenon DEF Seated
    <2>5. step # "resetLobby" /\ step # "resetRoom" /\ step \in Undo
      BY DEF Undo
    <2> HIDE DEF d
    <2> QED BY <1>3, <2>2, <2>3, <2>4, <2>5, Kept, Zenon DEF d
  <1> QED
    <2>1. pc[d] \in Undo
      BY <1>0, Zenon DEF OneStrand, Undo
    <2>2. LeaveLobby(d) \/ ResetLobby(d) \/ LeaveRoom(d) \/ ResetRoom(d) \/ Remove(d) \/ ClearPlayer(d)
      <3> HIDE DEF d
      <3> QED BY <2>1, Zenon DEF d, Undo, StrandStep, PickLobby, TryLobby, ScanLobbies, EnterLobby, ScanRooms,
               MakeRoom, EnterRoom, SetPlayer, Add
    <2> QED BY <1>4, <1>5, <1>6, <1>7, <1>8, <2>2, Zenon

-----------------------------------------------------------------------------
(* While a thread works for u no job brings u, and when the thread is past    *)
(* its Leave u ends up nowhere.                                              *)
LEMMA AtWork ==
  ASSUME NEW u \in Sessions, Fine(u), NEW a \in Busy(u)
  PROVE  /\ a \in Strands /\ Session(a) = u /\ ~IsDisc(a) /\ Busy(u) = {a} /\ processed[u]
         /\ \A x \in Places : /\ ~Queued(x, "enter", u) /\ ~Queued(x, "noti", u)
                               /\ ComesOnce(queue[x], u) /\ Remains(queue[x], u)
         /\ \A x \in Places : Stays(x, u) =>
              \/ pc[a] = "leaveLobby" /\ lobbyOf[u] = x
              \/ pc[a] = "leaveRoom" /\ roomOf[u] = x
         /\ IF IsLogin(a)
            THEN client[u] = "toLobby" /\ pc[a] \in ToLobby \cup {"setPlayer", "add"}
            ELSE \/ client[u] = "toLobby" /\ pc[a] \in ToLobby \cup {"leaveRoom", "resetRoom"}
                 \/ client[u] = "toRoom" /\ pc[a] \in ToRoom \cup {"leaveLobby"}
  <1>0. OneStrand(u) /\ JobsWait(u) /\ Seated(u)
    BY Zenon DEF Fine
  <1>1. a \in Strands /\ Session(a) = u /\ ~IsDisc(a) /\ Busy(u) = {a} /\ processed[u]
    BY <1>0, Zenon DEF OneStrand, Busy
  <1>2. \A x \in Places : ~Queued(x, "enter", u) /\ ~Queued(x, "noti", u) /\ ComesOnce(queue[x], u)
    BY <1>0, Zenon DEF JobsWait
  <1>3. \A x \in Places : Remains(queue[x], u)
    BY <1>2, Zenon DEF Remains, Queued, Contains
  <1>4. \A x \in Places : Stays(x, u) =>
              \/ pc[a] = "leaveLobby" /\ lobbyOf[u] = x
              \/ pc[a] = "leaveRoom" /\ roomOf[u] = x
    BY <1>0, Zenon DEF Seated
  <1>5. IF IsLogin(a)
        THEN client[u] = "toLobby" /\ pc[a] \in ToLobby \cup {"setPlayer", "add"}
        ELSE \/ client[u] = "toLobby" /\ pc[a] \in ToLobby \cup {"leaveRoom", "resetRoom"}
             \/ client[u] = "toRoom" /\ pc[a] \in ToRoom \cup {"leaveLobby"}
    BY <1>0, Zenon DEF OneStrand
  <1> QED BY <1>1, <1>2, <1>3, <1>4, <1>5, Zenon

(* The thread leaves the place. *)
LEMMA WorkLeaves ==
  ASSUME IndInv, NEW u \in Sessions, Fine(u), NEW a \in Busy(u), LeaveLobby(a) \/ LeaveRoom(a)
  PROVE  Fine(u)'
  <1> USE DEF sessionVars, playerVars, placeVars, clientVars
  <1>0. /\ a \in Strands /\ Session(a) = u /\ ~IsDisc(a) /\ TypeOK
        /\ \A x \in Places : /\ ~Queued(x, "enter", u) /\ ~Queued(x, "noti", u)
                              /\ ComesOnce(queue[x], u) /\ Remains(queue[x], u)
        /\ \A x \in Places : Stays(x, u) =>
              \/ pc[a] = "leaveLobby" /\ lobbyOf[u] = x
              \/ pc[a] = "leaveRoom" /\ roomOf[u] = x
    BY AtWork, Zenon DEF IndInv
  <1>1. lobbyOf[u] \in Places \cup {None} /\ roomOf[u] \in Places \cup {None}
    BY <1>0, PlaceFacts, Zenon DEF TypeOK
  <1>2. PICK p \in Places \cup {None}, step \in {"resetLobby", "resetRoom"} :
          /\ Goto(a, step, None) /\ members' = members
          /\ IF p = None THEN UNCHANGED queue ELSE Post(p, "leave", u)
          /\ UNCHANGED <<client, processed, conn>>
          /\ \/ pc[a] = "leaveLobby" /\ step = "resetLobby" /\ p = lobbyOf[u]
             \/ pc[a] = "leaveRoom" /\ step = "resetRoom" /\ p = roomOf[u]
    <2>1. CASE LeaveLobby(a)
      BY <1>0, <1>1, <2>1, Zenon DEF LeaveLobby
    <2>2. CASE LeaveRoom(a)
      BY <1>0, <1>1, <2>2, Zenon DEF LeaveRoom
    <2> QED BY <2>1, <2>2, Zenon
  <1>3. \A x \in Places : /\ ~Queued(x, "enter", u)' /\ ~Queued(x, "noti", u)'
                          /\ ComesOnce(queue'[x], u) /\ Remains(queue'[x], u)
                          /\ Stays(x, u)' => Stays(x, u) /\ x # p
    BY <1>0, <1>2, LeavePosted, Zenon
  <1>4. \A x \in Places : ~Stays(x, u)'
    <2>1. "leaveLobby" # "leaveRoom"
      OBVIOUS
    <2> QED BY <1>0, <1>2, <1>3, <2>1, Zenon
  <1>5. /\ step = "resetLobby" => ~IsLogin(a) /\ client[u] # "toLobby"
        /\ step = "resetRoom" => ~IsLogin(a) /\ client[u] = "toLobby"
    <2>1. IF IsLogin(a)
          THEN client[u] = "toLobby" /\ pc[a] \in ToLobby \cup {"setPlayer", "add"}
          ELSE \/ client[u] = "toLobby" /\ pc[a] \in ToLobby \cup {"leaveRoom", "resetRoom"}
               \/ client[u] = "toRoom" /\ pc[a] \in ToRoom \cup {"leaveLobby"}
      BY AtWork, Zenon
    <2> QED BY <1>2, <2>1 DEF ToLobby, ToRoom
  <1>6. /\ IF IsLogin(a) \/ client[u] = "toLobby" THEN step \in ToLobby \cup {"add", "resetRoom"}
                                                  ELSE step \in ToRoom
        /\ step # "add" /\ (step = "resetRoom" => ~IsLogin(a))
    BY <1>5, Zenon DEF ToRoom
  <1> QED BY <1>2, <1>3, <1>4, <1>6, Works, Zenon

(* The thread looks for the next place. *)
LEMMA WorkSeeks ==
  ASSUME IndInv, NEW u \in Sessions, Fine(u), NEW a \in Busy(u), NEW step, NEW y, Goto(a, step, y),
         UNCHANGED <<queue, members, client, processed, conn>>,
         \/ pc[a] \in {"resetRoom", "add"} /\ step = "pickLobby"
         \/ pc[a] \in {"resetLobby", "scanRooms", "makeRoom"} /\ step \in {"scanRooms", "makeRoom", "enterRoom"}
         \/ pc[a] \in {"pickLobby", "tryLobby", "scanLobbies"} /\ step \in ToLobby
         \/ pc[a] = "setPlayer" /\ step = "add"
  PROVE  Fine(u)'
  <1>1. /\ \A x \in Places : /\ ~Queued(x, "enter", u) /\ ~Queued(x, "noti", u)
                              /\ ComesOnce(queue[x], u) /\ Remains(queue[x], u)
        /\ \A x \in Places : Stays(x, u) => pc[a] = "leaveLobby" \/ pc[a] = "leaveRoom"
        /\ IF IsLogin(a)
           THEN client[u] = "toLobby" /\ pc[a] \in ToLobby \cup {"setPlayer", "add"}
           ELSE \/ client[u] = "toLobby" /\ pc[a] \in ToLobby \cup {"leaveRoom", "resetRoom"}
                \/ client[u] = "toRoom" /\ pc[a] \in ToRoom \cup {"leaveLobby"}
    BY AtWork, Zenon
  <1>2. /\ pc[a] # "leaveLobby" /\ pc[a] # "leaveRoom"
        /\ IF IsLogin(a) \/ client[u] = "toLobby" THEN step \in ToLobby \cup {"add", "resetRoom"}
                                                  ELSE step \in ToRoom
        /\ step = "add" => IsLogin(a)
        /\ step # "resetRoom"
    BY <1>1 DEF ToLobby, ToRoom
  <1>3. \A x \in Places : /\ ~Queued(x, "enter", u)' /\ ~Queued(x, "noti", u)'
                          /\ ComesOnce(queue'[x], u) /\ Remains(queue'[x], u)
                          /\ ~Stays(x, u)'
    BY <1>1, <1>2, Zenon DEF Queued, Stays
  <1> QED BY <1>2, <1>3, Works, Zenon

(* The thread has found no place, or it has one and posts the Enter job. *)
LEMMA WorkEnds ==
  ASSUME IndInv, NEW u \in Sessions, Fine(u), NEW a \in Busy(u), NEW step \in {"idle", "done"}, NEW z,
         Goto(a, step, z), UNCHANGED <<members, processed, conn>>,
         pc[a] \notin {"leaveLobby", "leaveRoom"},
         \/ queue' = queue /\ client'[u] = "ignored"
         \/ (\E x \in Places : Post(x, "enter", u)) /\ client' = client
  PROVE  Fine(u)'
  <1>0. /\ a \in Strands /\ Session(a) = u /\ ~IsDisc(a) /\ Busy(u) = {a} /\ processed[u]
        /\ \A x \in Places : /\ ~Queued(x, "enter", u) /\ ~Queued(x, "noti", u)
                              /\ ComesOnce(queue[x], u) /\ Remains(queue[x], u)
        /\ \A x \in Places : ~Stays(x, u)
        /\ client[u] \in {"toLobby", "toRoom"}
    BY AtWork, Zenon
  <1>1. pc'[a] = step /\ \A b \in Strands \ {a} : pc'[b] = pc[b]
    BY <1>0, Moves, Zenon
  <1>2. Busy(u)' = {}
    <2>1. \A b \in Strands : b \notin Busy(u)'
      BY <1>0, <1>1, Zenon DEF Busy
    <2>2. \A b \in Busy(u)' : b \in Strands
      BY Zenon DEF Busy
    <2> QED BY <2>1, <2>2, Zenon
  <1>3. OneStrand(u)'
    <2>1. <<u, "disc">> \in Strands /\ <<u, "disc">> # a
      BY <1>0, NamedStrands, Zenon
    <2>2. pc[<<u, "disc">>] \in IF conn[u] = "up" THEN {"idle"} ELSE Undo
      BY Zenon DEF Fine, OneStrand
    <2> QED BY <1>0, <1>1, <1>2, <2>1, <2>2, Zenon DEF OneStrand, Undo
  <1>4. CASE queue' = queue /\ client'[u] = "ignored"
    <2>1. \A x \in Places : /\ ~Queued(x, "enter", u)' /\ ~Queued(x, "noti", u)'
                            /\ ComesOnce(queue'[x], u) /\ Remains(queue'[x], u) /\ ~Stays(x, u)'
      BY <1>0, <1>4, Zenon DEF Queued, Stays
    <2>2. JobsWait(u)' /\ Seated(u)'
      BY <2>1, Zenon DEF JobsWait, Seated
    <2> QED BY <1>3, <2>2, Zenon DEF Fine
  <1>5. ASSUME NEW x \in Places, Post(x, "enter", u), client' = client
        PROVE  Fine(u)'
    <2> DEFINE j == Job("enter", u)
               q == queue[x]
               r == Append(q, j)
    <2>1. queue'[x] = r /\ q \in Seq(Jobs) /\ \A y \in Places \ {x} : queue'[y] = queue[y]
      BY <1>5, Zenon DEF Post, IndInv, TypeOK
    <2>2. j \in Jobs /\ j # Job("noti", u) /\ j # Job("leave", u)
      BY DEF Job, Jobs
    <2>3. \A k \in Coming(u) : ~Contains(q, k)
      BY <1>0, Zenon DEF Coming, Queued
    <2>4. ~Contains(q, j)
      BY <1>0, Zenon DEF Queued
    <2>5. ComesOnce(r, u) /\ Remains(r, u) /\ \A k : Contains(r, k) <=> Contains(q, k) \/ k = j
      <3> HIDE DEF q
      <3>1. \A m : j \in Jobs /\ q \in Seq(Jobs)
        BY <2>1, <2>2, Zenon
      <3> QED BY <2>3, <2>4, <3>1, PostedJob, ZenonT(60)
    <2> HIDE DEF j, q, r
    <2>6. \A y \in Places : /\ ~Queued(y, "noti", u)' /\ (Queued(y, "enter", u)' => y = x)
                            /\ ComesOnce(queue'[y], u) /\ Remains(queue'[y], u)
                            /\ Stays(y, u)' => y = x
      <3>1. ASSUME NEW y \in Places, y # x
            PROVE  /\ ~Queued(y, "noti", u)' /\ ~Queued(y, "enter", u)' /\ ~Stays(y, u)'
                   /\ ComesOnce(queue'[y], u) /\ Remains(queue'[y], u)
        BY <1>0, <2>1, <3>1, Zenon DEF Queued, Stays
      <3>2. ~Queued(x, "noti", u)'
        BY <1>0, <2>1, <2>2, <2>5, Zenon DEF Queued, q
      <3> QED BY <2>1, <2>5, <3>1, <3>2, Zenon
    <2>7. JobsWait(u)'
      BY <1>0, <1>2, <1>5, <2>6, Zenon DEF JobsWait
    <2>8. "inLobby" \notin {"toLobby", "toRoom"} /\ "inRoom" \notin {"toLobby", "toRoom"}
      OBVIOUS
    <2>9. Seated(u)'
      BY <1>0, <1>2, <1>5, <2>6, <2>8, Zenon DEF Seated
    <2> QED BY <1>3, <2>7, <2>9, Zenon DEF Fine
  <1> QED BY <1>4, <1>5, Zenon

(* A thread that works for u takes a step. *)
LEMMA WorkStep ==
  ASSUME IndInv, NEW u \in Sessions, Fine(u), NEW a \in Strands, Session(a) = u, ~IsDisc(a), StrandStep(a)
  PROVE  Fine(u)'
  <1> USE DEF sessionVars, playerVars, placeVars, clientVars
  <1>1. pc[a] \notin {"idle", "done"}
    <2>1. \/ pc[a] = "leaveLobby" \/ pc[a] = "resetLobby" \/ pc[a] = "leaveRoom" \/ pc[a] = "resetRoom"
          \/ pc[a] = "pickLobby" \/ pc[a] = "tryLobby" \/ pc[a] = "scanLobbies" \/ pc[a] = "enterLobby"
          \/ pc[a] = "scanRooms" \/ pc[a] = "makeRoom" \/ pc[a] = "enterRoom" \/ pc[a] = "remove"
          \/ pc[a] = "clear" \/ pc[a] = "setPlayer" \/ pc[a] = "add"
      BY ZenonT(60) DEF StrandStep, LeaveLobby, ResetLobby, LeaveRoom, ResetRoom, PickLobby, TryLobby, ScanLobbies,
                        EnterLobby, ScanRooms, MakeRoom, EnterRoom, Remove, ClearPlayer, SetPlayer, Add
    <2> QED BY <2>1, SMT
  <1>2. a \in Busy(u) /\ TypeOK
    BY <1>1, Zenon DEF Busy, IndInv
  <1>3. pc[a] \notin {"remove", "clear"} /\ client[u] \in {"toLobby", "toRoom"}
    <2>1. IF IsLogin(a)
          THEN client[u] = "toLobby" /\ pc[a] \in ToLobby \cup {"setPlayer", "add"}
          ELSE \/ client[u] = "toLobby" /\ pc[a] \in ToLobby \cup {"leaveRoom", "resetRoom"}
               \/ client[u] = "toRoom" /\ pc[a] \in ToRoom \cup {"leaveLobby"}
      BY <1>2, AtWork, Zenon
    <2> QED BY <2>1 DEF ToLobby, ToRoom
  <1>4. CASE ResetLobby(a) \/ ResetRoom(a) \/ SetPlayer(a) \/ Add(a)
    <2>1. UNCHANGED <<queue, members, client, processed, conn>>
      BY <1>4, Zenon DEF ResetLobby, ResetRoom, SetPlayer, Add
    <2>2. \E step, y : /\ Goto(a, step, y)
                       /\ \/ pc[a] \in {"resetRoom", "add"} /\ step = "pickLobby"
                          \/ pc[a] = "resetLobby" /\ step = "scanRooms"
                          \/ pc[a] = "setPlayer" /\ step = "add"
      BY <1>4, Zenon DEF ResetLobby, ResetRoom, SetPlayer, Add
    <2> QED BY <1>2, <2>1, <2>2, WorkSeeks, Zenon
  <1>5. CASE PickLobby(a) \/ TryLobby(a) \/ ScanLobbies(a)
    <2>1. UNCHANGED <<queue, members, processed, conn>> /\ pc[a] \in {"pickLobby", "tryLobby", "scanLobbies"}
      BY <1>5, Zenon DEF PickLobby, TryLobby, ScanLobbies
    <2>2. \/ client' = client /\ \E step \in ToLobby : \E y : Goto(a, step, y)
          \/ Ignored(u) /\ \E step \in {"idle", "done"} : Goto(a, step, None)
      <3>1. CASE PickLobby(a)
        BY <3>1, Zenon DEF PickLobby, ToLobby
      <3>2. CASE TryLobby(a)
        BY <3>2, Zenon DEF TryLobby, ToLobby
      <3>3. CASE ScanLobbies(a)
        BY <3>3, Zenon DEF ScanLobbies, ToLobby, Finish
      <3> QED BY <1>5, <3>1, <3>2, <3>3, Zenon
    <2>3. ASSUME client' = client, NEW step \in ToLobby, NEW y, Goto(a, step, y) PROVE Fine(u)'
      BY <1>2, <2>1, <2>3, WorkSeeks, Zenon
    <2>4. ASSUME Ignored(u), NEW step \in {"idle", "done"}, Goto(a, step, None) PROVE Fine(u)'
      <3>1. client'[u] = "ignored"
        BY <1>2, <1>3, <2>4, Zenon DEF Ignored, TypeOK
      <3>2. pc[a] \notin {"leaveLobby", "leaveRoom"}
        BY <2>1
      <3> QED BY <1>2, <2>1, <2>4, <3>1, <3>2, WorkEnds, Zenon
    <2> QED BY <2>2, <2>3, <2>4, Zenon
  <1>6. CASE ScanRooms(a) \/ MakeRoom(a)
    <2>1. UNCHANGED <<queue, members, client, processed, conn>> /\ pc[a] \in {"scanRooms", "makeRoom"}
      BY <1>6, Zenon DEF ScanRooms, MakeRoom
    <2>2. \E step \in {"scanRooms", "makeRoom", "enterRoom"} : \E y : Goto(a, step, y)
      BY <1>6, Zenon DEF ScanRooms, MakeRoom
    <2> QED BY <1>2, <2>1, <2>2, WorkSeeks, Zenon
  <1>7. CASE EnterLobby(a) \/ EnterRoom(a)
    <2>1. /\ UNCHANGED <<members, processed, conn, client>> /\ Post(at[a], "enter", u)
          /\ pc[a] \in {"enterLobby", "enterRoom"}
      BY <1>7, Zenon DEF EnterLobby, EnterRoom
    <2>2. at[a] \in Places
      BY <2>1, PlaceFacts, Zenon DEF IndInv, AtAgrees
    <2>3. \E step \in {"idle", "done"} : Goto(a, step, None)
      BY <1>7, Zenon DEF EnterLobby, EnterRoom, Finish
    <2>4. pc[a] \notin {"leaveLobby", "leaveRoom"}
      BY <2>1
    <2> QED BY <1>2, <2>1, <2>2, <2>3, <2>4, WorkEnds, Zenon
  <1>8. CASE LeaveLobby(a) \/ LeaveRoom(a)
    BY <1>2, <1>8, WorkLeaves, Zenon
  <1>9. ~Remove(a) /\ ~ClearPlayer(a)
    BY <1>3, Zenon DEF Remove, ClearPlayer
  <1> QED BY <1>4, <1>5, <1>6, <1>7, <1>8, <1>9, Zenon DEF StrandStep

(* A thread that works for another session takes a step. *)
LEMMA OtherStep ==
  ASSUME IndInv, NEW u \in Sessions, Fine(u), NEW a \in Strands, Session(a) # u, StrandStep(a)
  PROVE  Fine(u)'
  <1> USE DEF sessionVars, playerVars, placeVars, clientVars
  <1> DEFINE s == Session(a)
  <1>0. TypeOK /\ s \in Sessions
    BY KindOf, Zenon DEF IndInv
  <1>1. \E step, y : Goto(a, step, y)
    <2>1. CASE LeaveLobby(a) \/ ResetLobby(a) \/ LeaveRoom(a) \/ ResetRoom(a) \/ EnterLobby(a) \/ EnterRoom(a)
      BY <2>1, Zenon DEF LeaveLobby, ResetLobby, LeaveRoom, ResetRoom, EnterLobby, EnterRoom, Finish
    <2>2. CASE PickLobby(a) \/ TryLobby(a) \/ ScanLobbies(a) \/ ScanRooms(a) \/ MakeRoom(a)
      BY <2>2, Zenon DEF PickLobby, TryLobby, ScanLobbies, ScanRooms, MakeRoom, Finish
    <2>3. CASE Remove(a) \/ ClearPlayer(a) \/ SetPlayer(a) \/ Add(a)
      BY <2>3, Zenon DEF Remove, ClearPlayer, SetPlayer, Add, Finish
    <2> QED BY <2>1, <2>2, <2>3, Zenon DEF StrandStep
  <1>2. \A b \in Strands : Session(b) = u => pc'[b] = pc[b]
    BY <1>1, Moves, Zenon
  <1>3. UNCHANGED <<conn, processed, members>>
    BY Zenon DEF StrandStep, LeaveLobby, ResetLobby, LeaveRoom, ResetRoom, PickLobby, TryLobby, ScanLobbies,
       EnterLobby, ScanRooms, MakeRoom, EnterRoom, Remove, ClearPlayer, SetPlayer, Add
  <1>4. client'[u] = client[u]
    <2>1. CASE ScanLobbies(a)
      BY <1>0, <2>1, Zenon DEF ScanLobbies, Ignored, TypeOK
    <2>2. CASE ~ScanLobbies(a)
      BY <2>2, Zenon DEF StrandStep, LeaveLobby, ResetLobby, LeaveRoom, ResetRoom, PickLobby, TryLobby,
         EnterLobby, ScanRooms, MakeRoom, EnterRoom, Remove, ClearPlayer, SetPlayer, Add
    <2> QED BY <2>1, <2>2, Zenon
  <1>5. lobbyOf'[u] = lobbyOf[u] /\ roomOf'[u] = roomOf[u]
    <2>1. CASE ResetLobby(a) \/ ResetRoom(a)
      BY <1>0, <2>1, Zenon DEF ResetLobby, ResetRoom, TypeOK
    <2>2. CASE ~ResetLobby(a) /\ ~ResetRoom(a)
      BY <2>2, Zenon DEF StrandStep, LeaveLobby, LeaveRoom, PickLobby, TryLobby, ScanLobbies,
         EnterLobby, ScanRooms, MakeRoom, EnterRoom, Remove, ClearPlayer, SetPlayer, Add
    <2> QED BY <2>1, <2>2, Zenon
  <1>6. \/ queue' = queue
        \/ \E x \in Places, op \in {"enter", "leave"} : Post(x, op, s)
    <2>1. CASE LeaveLobby(a) \/ LeaveRoom(a)
      <3>1. lobbyOf[s] \in Places \cup {None} /\ roomOf[s] \in Places \cup {None}
        BY <1>0, PlaceFacts, Zenon DEF TypeOK
      <3> QED BY <2>1, <3>1, Zenon DEF LeaveLobby, LeaveRoom
    <2>2. CASE EnterLobby(a) \/ EnterRoom(a)
      <3>1. at[a] \in Places
        BY <2>2, PlaceFacts, Zenon DEF EnterLobby, EnterRoom, IndInv, AtAgrees
      <3> QED BY <2>2, <3>1, Zenon DEF EnterLobby, EnterRoom
    <2>3. CASE ~LeaveLobby(a) /\ ~LeaveRoom(a) /\ ~EnterLobby(a) /\ ~EnterRoom(a)
      BY <2>3, Zenon DEF StrandStep, ResetLobby, ResetRoom, PickLobby, TryLobby, ScanLobbies,
         ScanRooms, MakeRoom, Remove, ClearPlayer, SetPlayer, Add
    <2> QED BY <2>1, <2>2, <2>3, Zenon
  <1>7. \A y \in Places :
           /\ Queued(y, "enter", u)' => Queued(y, "enter", u)
           /\ Queued(y, "noti", u)' => Queued(y, "noti", u)
           /\ ComesOnce(queue[y], u) => ComesOnce(queue'[y], u)
           /\ Remains(queue[y], u) => Remains(queue'[y], u)
           /\ Stays(y, u)' => Stays(y, u)
    <2>1. CASE queue' = queue
      BY <1>3, <2>1, Zenon DEF Queued, Stays
    <2>2. ASSUME NEW x \in Places, NEW op \in {"enter", "leave"}, Post(x, op, s)
          PROVE  \A y \in Places :
                   /\ Queued(y, "enter", u)' => Queued(y, "enter", u)
                   /\ Queued(y, "noti", u)' => Queued(y, "noti", u)
                   /\ ComesOnce(queue[y], u) => ComesOnce(queue'[y], u)
                   /\ Remains(queue[y], u) => Remains(queue'[y], u)
                   /\ Stays(y, u)' => Stays(y, u)
      <3> DEFINE j == Job(op, s)
      <3>1. j \in Jobs /\ j \notin Coming(u) /\ j # Job("leave", u)
        BY <1>0 DEF Job, Jobs, Coming
      <3>2. queue' = [queue EXCEPT ![x] = Append(@, j)]
        BY <2>2, Zenon DEF Post
      <3> HIDE DEF j
      <3> QED BY <1>3, <3>1, <3>2, Posted, ZenonT(60)
    <2> QED BY <1>6, <2>1, <2>2, Zenon
  <1> QED BY <1>2, <1>3, <1>4, <1>5, <1>7, Apart, Zenon

-----------------------------------------------------------------------------
(* u is disconnected, or destroyed: its threads and jobs go on. *)
LEMMA Ends ==
  ASSUME NEW u \in Sessions, Fine(u), conn'[u] # "up",
         UNCHANGED <<client[u], lobbyOf[u], roomOf[u], queue, members>>, processed[u] => processed'[u],
         \A b \in Strands : Session(b) = u /\ ~IsDisc(b) => pc'[b] = pc[b] \/ (pc[b] = "idle" /\ pc'[b] = "done"),
         pc'[<<u, "disc">>] \in Undo \ {"resetLobby", "resetRoom"}
           \/ (conn[u] # "up" /\ pc'[<<u, "disc">>] = pc[<<u, "disc">>])
  PROVE  Fine(u)'
  <1>0. OneStrand(u) /\ JobsWait(u) /\ Seated(u)
    BY Zenon DEF Fine
  <1>1. Busy(u)' = Busy(u) /\ \A b \in Busy(u) : pc'[b] = pc[b]
    BY Zenon DEF Busy
  <1>2. \A x \in Places : /\ Queued(x, "enter", u)' => Queued(x, "enter", u)
                          /\ Queued(x, "noti", u)' => Queued(x, "noti", u)
                          /\ ComesOnce(queue'[x], u)
                          /\ Stays(x, u)' => Stays(x, u)
    BY <1>0, Zenon DEF Queued, Stays, JobsWait
  <1>3. pc'[<<u, "disc">>] \in Undo
    BY <1>0, Zenon DEF OneStrand
  <1>4. \A x \in Places : Stays(x, u)' =>
           \A b \in Busy(u) :
             \/ pc[b] = "leaveLobby" /\ lobbyOf'[u] = x /\ pc'[<<u, "disc">>] # "resetLobby"
             \/ pc[b] = "leaveRoom" /\ roomOf'[u] = x /\ pc'[<<u, "disc">>] # "resetRoom"
    BY <1>0, <1>2, Zenon DEF Seated
  <1> QED BY <1>1, <1>2, <1>3, <1>4, Kept, Zenon

(* A request, a disconnect or the end of a session. *)
LEMMA SessionFine ==
  ASSUME IndInv, NEW u \in Sessions, Fine(u), client[u] # "any", NEW s \in Sessions, SessionStep(s)
  PROVE  Fine(u)'
  <1> USE DEF sessionVars, playerVars, placeVars, clientVars
  <1>0. /\ TypeOK /\ <<s, "recv">> \in Strands /\ <<s, "disc">> \in Strands
        /\ Session(<<s, "recv">>) = s /\ Session(<<s, "disc">>) = s
        /\ IsDisc(<<s, "disc">>) /\ ~IsDisc(<<s, "recv">>) /\ ~IsLogin(<<s, "recv">>)
    BY NamedStrands, Zenon DEF IndInv
  <1>1. UNCHANGED <<processed, lobbyOf, roomOf, queue, members>>
    BY Zenon DEF SessionStep, ReqRoomEnter, ReqRoomExit, Ask, Disconnect, Destroy
  <1>2. \A y \in Places :
           /\ Queued(y, "enter", u)' => Queued(y, "enter", u)
           /\ Queued(y, "noti", u)' => Queued(y, "noti", u)
           /\ ComesOnce(queue[y], u) => ComesOnce(queue'[y], u)
           /\ Remains(queue[y], u) => Remains(queue'[y], u)
           /\ Stays(y, u)' => Stays(y, u)
    BY <1>1, Zenon DEF Queued, Stays
  <1>3. CASE s # u
    <2>1. client'[u] = client[u] /\ conn'[u] = conn[u]
      BY <1>0, <1>3, Zenon DEF SessionStep, ReqRoomEnter, ReqRoomExit, Ask, Disconnect, Disconnecting, Destroy, TypeOK
    <2>2. \A b \in Strands : Session(b) = u => pc'[b] = pc[b]
      <3>1. CASE Destroy(s)
        BY <3>1, Zenon DEF Destroy
      <3>2. CASE Disconnect(s)
        BY <1>0, <1>3, <3>2, Moves, Zenon DEF Disconnect
      <3>3. CASE ReqRoomEnter(s) \/ ReqRoomExit(s)
        BY <1>0, <1>3, <3>3, Moves, Zenon DEF ReqRoomEnter, ReqRoomExit, Ask
      <3> QED BY <3>1, <3>2, <3>3, Zenon DEF SessionStep
    <2> QED BY <1>1, <1>2, <2>1, <2>2, Apart, Zenon
  <1>4. CASE s = u /\ (ReqRoomEnter(s) \/ ReqRoomExit(s))
    <2>1. PICK from, to, step : /\ Ask(u, from, to, step)
                                /\ \/ from = "inLobby" /\ to = "toRoom" /\ step = "leaveLobby"
                                   \/ from = "inRoom" /\ to = "toLobby" /\ step = "leaveRoom"
      BY <1>4, Zenon DEF ReqRoomEnter, ReqRoomExit
    <2>2. /\ conn[u] = "up" /\ client[u] = from /\ client' = [client EXCEPT ![u] = to] /\ conn' = conn
          /\ Goto(<<u, "recv">>, step, None)
      BY <2>1, Zenon DEF Ask
    <2>3. client'[u] = to
      BY <1>0, <2>2, Zenon DEF TypeOK
    <2>4. processed[u]
      BY <2>1, <2>2, Idle, Zenon
    <2>5. <<u, "recv">> \in Strands /\ Session(<<u, "recv">>) = u /\ ~IsDisc(<<u, "recv">>) /\ ~IsLogin(<<u, "recv">>)
      BY <1>0, <1>4, Zenon
    <2> QED BY <1>1, <2>1, <2>2, <2>3, <2>4, <2>5, Starts, Zenon
  <1>5. CASE s = u /\ Disconnect(s)
    <2>1. PICK step \in {"leaveLobby", "clear"} : Goto(<<u, "disc">>, step, None)
      BY <1>5, Zenon DEF Disconnect, DiscStep
    <2>2. conn'[u] = "down" /\ client' = client
      BY <1>0, <1>5, Zenon DEF Disconnect, Disconnecting, TypeOK
    <2>3. pc'[<<u, "disc">>] = step /\ \A b \in Strands \ {<<u, "disc">>} : pc'[b] = pc[b]
      BY <1>0, <1>5, <2>1, Moves, Zenon
    <2>4. step \in Undo \ {"resetLobby", "resetRoom"} /\ "down" # "up"
      BY DEF Undo
    <2> QED BY <1>0, <1>1, <1>5, <2>2, <2>3, <2>4, Ends, Zenon
  <1>6. CASE s = u /\ Destroy(s)
    <2>1. conn'[u] = "gone" /\ conn[u] = "down" /\ client' = client /\ pc' = pc
      BY <1>0, <1>6, Zenon DEF Destroy, TypeOK
    <2>2. "gone" # "up" /\ "down" # "up"
      OBVIOUS
    <2> QED BY <1>1, <2>1, <2>2, Ends, Zenon
  <1> QED BY <1>3, <1>4, <1>5, <1>6, Zenon DEF SessionStep

(* The answer to a login. *)
LEMMA LoginFine ==
  ASSUME IndInv, NEW u \in Sessions, Fine(u), NEW a \in Strands, OnLoginResult(a)
  PROVE  Fine(u)'
  <1> USE DEF sessionVars, playerVars, placeVars, clientVars
  <1> DEFINE s == Session(a)
             d == <<s, "disc">>
  <1>0. /\ TypeOK /\ s \in Sessions /\ IsLogin(a) /\ ~IsDisc(a) /\ pc[a] = "idle"
        /\ d \in Strands /\ IsDisc(d) /\ Session(d) = s
    BY KindOf, NamedStrands, Zenon DEF OnLoginResult, IndInv
  <1>1. UNCHANGED <<client, lobbyOf, roomOf, queue, members>>
    BY Zenon DEF OnLoginResult
  <1>2. \A y \in Places :
           /\ Queued(y, "enter", u)' => Queued(y, "enter", u)
           /\ Queued(y, "noti", u)' => Queued(y, "noti", u)
           /\ ComesOnce(queue[y], u) => ComesOnce(queue'[y], u)
           /\ Remains(queue[y], u) => Remains(queue'[y], u)
           /\ Stays(y, u)' => Stays(y, u)
    BY <1>1, Zenon DEF Queued, Stays
  <1>3. CASE LoginRefused(a)
    <2>1. PICK step \in {"leaveLobby", "clear"} : pc' = [pc EXCEPT ![a] = "done", ![d] = step]
      BY <1>3, Zenon DEF LoginRefused, DiscStep
    <2>2. conn' = [conn EXCEPT ![s] = "down"] /\ processed' = [processed EXCEPT ![s] = TRUE]
      BY <1>3, Zenon DEF LoginRefused, Disconnecting
    <2> HIDE DEF s, d
    <2>3. pc'[a] = "done" /\ pc'[d] = step /\ \A b \in Strands \ {a, d} : pc'[b] = pc[b]
      BY <1>0, <2>1, Zenon DEF TypeOK
    <2>4. conn'[s] = "down" /\ \A v \in Sessions \ {s} : conn'[v] = conn[v]
      BY <1>0, <2>2, Zenon DEF TypeOK
    <2>5. processed[u] => processed'[u]
      BY <1>0, <2>2, Zenon DEF TypeOK
    <2>6. step \in Undo \ {"resetLobby", "resetRoom"} /\ "down" # "up"
      BY DEF Undo
    <2>7. CASE s = u
      <3>1. d = <<u, "disc">>
        BY <2>7, Zenon DEF d
      <3>2. \A b \in Strands : Session(b) = u /\ ~IsDisc(b) => pc'[b] = pc[b] \/ (pc[b] = "idle" /\ pc'[b] = "done")
        BY <1>0, <2>3, Zenon
      <3> QED BY <1>1, <2>3, <2>4, <2>5, <2>6, <2>7, <3>1, <3>2, Ends, Zenon
    <2>8. CASE s # u
      <3>1. \A b \in Strands : Session(b) = u => pc'[b] = pc[b]
        BY <1>0, <2>3, <2>8, Zenon DEF s
      <3> QED BY <1>1, <1>2, <2>4, <2>5, <2>8, <3>1, Apart, Zenon
    <2> QED BY <2>7, <2>8, Zenon
  <1>4. CASE LoginAccepted(a)
    <2>1. /\ ~processed[s] /\ processed' = [processed EXCEPT ![s] = TRUE] /\ conn[s] = "up" /\ conn' = conn
          /\ Goto(a, "setPlayer", None)
      BY <1>4, Zenon DEF LoginAccepted
    <2>2. processed'[s] /\ \A v \in Sessions \ {s} : processed'[v] = processed[v]
      BY <1>0, <2>1, Zenon DEF TypeOK
    <2>3. CASE s = u
      BY <1>0, <1>1, <2>1, <2>2, <2>3, Starts, Zenon
    <2>4. CASE s # u
      <3>1. \A b \in Strands : Session(b) = u => pc'[b] = pc[b]
        BY <2>1, <2>4, Moves, Zenon
      <3> QED BY <1>1, <1>2, <2>1, <2>2, <2>4, <3>1, Apart, Zenon
    <2> QED BY <2>3, <2>4, Zenon
  <1>5. CASE LoginDropped(a)
    <2>1. processed' = [processed EXCEPT ![s] = TRUE] /\ conn' = conn /\ Goto(a, "done", None)
      BY <1>0, <1>5, Zenon DEF LoginDropped, Finish
    <2>2. processed[u] => processed'[u]
      BY <1>0, <2>1, Zenon DEF TypeOK
    <2>3. \A b \in Strands : pc'[b] = pc[b] \/ (~IsDisc(b) /\ pc[b] = "idle" /\ pc'[b] = "done")
      BY <1>0, <2>1, Moves, Zenon
    <2> QED BY <1>1, <1>2, <2>1, <2>2, <2>3, Apart, Zenon
  <1> QED BY <1>3, <1>4, <1>5, Zenon DEF OnLoginResult

-----------------------------------------------------------------------------
(* While a job that lets u in is the first, no other is there. *)
LEMMA First ==
  ASSUME IndInv, NEW u \in Sessions, Fine(u), NEW x \in Places,
         NEW op \in {"enter", "noti"}, HeadIs(x, op, u)
  PROVE  /\ queue[x] \in Seq(Jobs) /\ queue[x] # <<>> /\ Head(queue[x]) = Job(op, u)
         /\ Queued(x, op, u) /\ processed[u] /\ Busy(u) = {} /\ client[u] \in {"toLobby", "toRoom"}
         /\ \A y \in Places \ {x} : ~Queued(y, "enter", u) /\ ~Queued(y, "noti", u)
         /\ \A k \in Coming(u) : ~Contains(Tail(queue[x]), k)
         /\ op = "enter" /\ conn[u] = "up" => \A y \in Places : Stays(y, u) => x = y
  <1>1. queue[x] \in Seq(Jobs) /\ queue[x] # <<>> /\ Head(queue[x]) = Job(op, u)
    BY Zenon DEF HeadIs, IndInv, TypeOK
  <1>2. OneStrand(u) /\ JobsWait(u) /\ Seated(u)
    BY Zenon DEF Fine
  <1>3. Queued(x, op, u) /\ (Queued(x, "enter", u) \/ Queued(x, "noti", u))
    BY <1>1, PoppedJob, Zenon DEF Queued
  <1>4. /\ processed[u] /\ Busy(u) = {} /\ client[u] \in {"toLobby", "toRoom"}
        /\ \A y \in Places \ {x} : ~Queued(y, "enter", u) /\ ~Queued(y, "noti", u)
        /\ ComesOnce(queue[x], u) /\ (conn[u] = "up" => Remains(queue[x], u))
    BY <1>2, <1>3, Zenon DEF JobsWait
  <1>5. Job(op, u) \in Coming(u)
    BY Zenon DEF Coming
  <1>6. \A k \in Coming(u) : ~Contains(Tail(queue[x]), k)
    BY <1>1, <1>4, <1>5, PoppedJob, ZenonT(60)
  <1>7. ASSUME op = "enter", conn[u] = "up", NEW y \in Places, Stays(y, u) PROVE x = y
    <2>1. Stays(x, u)
      BY <1>1, <1>4, <1>7, PoppedJob, Zenon DEF Stays
    <2> QED BY <1>2, <1>7, <2>1, Zenon DEF Seated
  <1> QED BY <1>1, <1>3, <1>4, <1>6, <1>7, Zenon

(* No thread works for u and no Enter job of it is left. *)
LEMMA Settles ==
  ASSUME NEW u \in Sessions, Fine(u), NEW x \in Places, Busy(u) = {}, processed[u],
         UNCHANGED <<pc, conn, processed>>,
         \A y \in Places : /\ ~Queued(y, "enter", u)'
                           /\ Queued(y, "noti", u)' => y = x /\ client'[u] \in {"toLobby", "toRoom"}
                           /\ ComesOnce(queue'[y], u)
                           /\ Stays(y, u)' => Stays(y, u),
         conn[u] = "up" => \A y \in Places : Stays(y, u)' =>
             /\ client'[u] = "inLobby" => lobbyOf'[u] = y
             /\ client'[u] = "inRoom" => roomOf'[u] = y
             /\ \A z \in Places : Queued(z, "noti", u)' => roomOf'[u] = y
  PROVE  Fine(u)'
  <1>1. OneStrand(u) /\ JobsWait(u) /\ Seated(u)
    BY Zenon DEF Fine
  <1>2. Busy(u)' = {}
    BY Zenon DEF Busy
  <1>3. OneStrand(u)'
    BY <1>1, <1>2, Zenon DEF OneStrand
  <1>4. \A y \in Places : Remains(queue'[y], u)
    BY Zenon DEF Queued, Remains, Contains
  <1>5. JobsWait(u)'
    BY <1>2, <1>4, Zenon DEF JobsWait
  <1>6. Seated(u)'
    BY <1>1, <1>2, Zenon DEF Seated
  <1> QED BY <1>3, <1>5, <1>6, Zenon DEF Fine

(* u is told something, or nothing. *)
LEMMA Answers ==
  ASSUME IndInv, NEW u \in Sessions, client[u] \in {"toLobby", "toRoom"}
  PROVE  /\ Ignored(u) => client'[u] = "ignored"
         /\ Told(u, "toLobby", "inLobby") => client'[u] \in {"inLobby", "toRoom"}
         /\ Told(u, "toRoom", "inRoom") => client'[u] \in {"inRoom", "toLobby"}
  BY Zenon DEF IndInv, TypeOK, Ignored, Told

(* Lobby::Enter lets u in. *)
LEMMA LobbyTakes ==
  ASSUME IndInv, NEW u \in Sessions, Fine(u), NEW x \in Places, LobbyEnter(x, u)
  PROVE  Fine(u)'
  <1> USE DEF sessionVars, playerVars, placeVars, clientVars
  <1>0. TypeOK /\ HeadIs(x, "enter", u)
    BY Zenon DEF LobbyEnter, IndInv
  <1>1. /\ queue[x] # <<>> /\ Head(queue[x]) = Job("enter", u)
        /\ processed[u] /\ Busy(u) = {} /\ client[u] \in {"toLobby", "toRoom"}
        /\ \A y \in Places \ {x} : ~Queued(y, "enter", u) /\ ~Queued(y, "noti", u)
        /\ \A k \in Coming(u) : ~Contains(Tail(queue[x]), k)
        /\ conn[u] = "up" => \A y \in Places : Stays(y, u) => x = y
    BY <1>0, First, Zenon
  <1>2. queue'[x] = Tail(queue[x]) /\ \A y \in Places \ {x} : queue'[y] = queue[y] /\ members'[y] = members[y]
    BY <1>0, Zenon DEF LobbyEnter, Admit, TypeOK
  <1>3. \A y \in Places : /\ ComesOnce(queue[y], u) => ComesOnce(queue'[y], u)
                          /\ Stays(y, u)' => Stays(y, u)
    BY <1>1, <1>2, Ran, ZenonT(60)
  <1>4. \A y \in Places : ~Queued(y, "enter", u)' /\ ~Queued(y, "noti", u)'
    BY <1>1, <1>2, Zenon DEF Queued, Coming
  <1>5. \A y \in Places : ComesOnce(queue[y], u)
    BY Zenon DEF Fine, JobsWait
  <1>6. client'[u] = "inLobby" => lobbyOf'[u] = x
    <2>1. client'[u] = "inLobby" => Admitted(x, u)
      BY <1>1, Answers, Zenon DEF LobbyEnter
    <2> QED BY <1>0, <2>1, Zenon DEF LobbyEnter, Admitted, TypeOK
  <1>7. client'[u] # "inRoom"
    BY <1>1, Answers, Zenon DEF LobbyEnter
  <1>8. UNCHANGED <<pc, conn, processed>>
    BY Zenon DEF LobbyEnter
  <1> QED BY <1>1, <1>3, <1>4, <1>5, <1>6, <1>7, <1>8, Settles, ZenonT(60)

(* Room::Enter lets u in; its broadcast waits behind the other jobs. *)
LEMMA RoomTakes ==
  ASSUME IndInv, NEW u \in Sessions, Fine(u), NEW x \in Places, RoomEnter(x, u)
  PROVE  Fine(u)'
  <1> USE DEF sessionVars, playerVars, placeVars, clientVars
  <1>0. TypeOK /\ HeadIs(x, "enter", u)
    BY Zenon DEF RoomEnter, IndInv
  <1>1. /\ queue[x] \in Seq(Jobs) /\ queue[x] # <<>> /\ Head(queue[x]) = Job("enter", u)
        /\ processed[u] /\ Busy(u) = {} /\ client[u] \in {"toLobby", "toRoom"}
        /\ \A y \in Places \ {x} : ~Queued(y, "enter", u) /\ ~Queued(y, "noti", u)
        /\ \A k \in Coming(u) : ~Contains(Tail(queue[x]), k)
        /\ conn[u] = "up" => \A y \in Places : Stays(y, u) => x = y
    BY <1>0, First, Zenon
  <1>2. \A y \in Places \ {x} : queue'[y] = queue[y] /\ members'[y] = members[y]
    BY <1>0, Zenon DEF RoomEnter, Admit, TypeOK
  <1>3. UNCHANGED <<pc, conn, processed>>
    BY Zenon DEF RoomEnter
  <1>4. \A y \in Places : ComesOnce(queue[y], u)
    BY Zenon DEF Fine, JobsWait
  <1>5. CASE ~Admitted(x, u)
    <2>1. queue'[x] = Tail(queue[x]) /\ client'[u] = "ignored"
      BY <1>0, <1>1, <1>5, Answers, Zenon DEF RoomEnter, TypeOK
    <2>2. \A y \in Places : /\ ComesOnce(queue[y], u) => ComesOnce(queue'[y], u)
                            /\ Stays(y, u)' => Stays(y, u)
      BY <1>1, <1>2, <2>1, Ran, ZenonT(60)
    <2>3. \A y \in Places : ~Queued(y, "enter", u)' /\ ~Queued(y, "noti", u)'
      BY <1>1, <1>2, <2>1, Zenon DEF Queued, Coming
    <2> QED BY <1>1, <1>3, <1>4, <2>1, <2>2, <2>3, Settles, ZenonT(60)
  <1>6. CASE Admitted(x, u)
    <2> DEFINE q == queue[x]
               t == Tail(q)
               j == Job("noti", u)
               m == members[x]
               w == members'[x]
    <2>1. queue'[x] = Append(t, j) /\ client'[u] = client[u] /\ roomOf'[u] = x
      BY <1>0, <1>6, Zenon DEF RoomEnter, Admitted, TypeOK
    <2>2. t \in Seq(Jobs) /\ j \in Jobs /\ q \in Seq(Jobs) /\ q # <<>> /\ Head(q) = Job("enter", u)
      BY <1>1, JobFacts
    <2>3. j # Job("enter", u) /\ \A k \in Coming(u) : ~Contains(t, k)
      BY <1>1, JobFacts, Zenon
    <2> HIDE DEF j
    <2>a. EndsUpIn(t, w, u) => EndsUpIn(q, m, u)
      <3> HIDE DEF q, m, w
      <3> QED BY <2>2, PoppedJob, Zenon DEF t
    <2>b. /\ EndsUpIn(Append(t, j), w, u) => EndsUpIn(t, w, u)
          /\ ComesOnce(Append(t, j), u)
          /\ \A k : Contains(Append(t, j), k) <=> Contains(t, k) \/ k = j
      <3> HIDE DEF t, w
      <3> QED BY <2>2, <2>3, PostedJob, Zenon
    <2>4. Stays(x, u)' => Stays(x, u)
      BY <2>1, <2>a, <2>b, Zenon DEF Stays
    <2>5. ComesOnce(queue'[x], u) /\ ~Queued(x, "enter", u)'
      BY <2>1, <2>3, <2>b, Zenon DEF Queued, Coming
    <2>6. \A y \in Places : /\ ~Queued(y, "enter", u)'
                            /\ Queued(y, "noti", u)' => y = x
                            /\ ComesOnce(queue'[y], u)
                            /\ Stays(y, u)' => Stays(y, u)
      BY <1>1, <1>2, <1>4, <2>4, <2>5, Zenon DEF Queued, Stays
    <2> QED BY <1>1, <1>3, <2>1, <2>6, Settles, ZenonT(60)
  <1> QED BY <1>5, <1>6, Zenon

(* The broadcast tells u that it is in the room. *)
LEMMA RoomTells ==
  ASSUME IndInv, NEW u \in Sessions, Fine(u), NEW x \in Places, RoomNoti(x, u)
  PROVE  Fine(u)'
  <1> USE DEF sessionVars, playerVars, placeVars, clientVars
  <1>0. TypeOK /\ HeadIs(x, "noti", u)
    BY Zenon DEF RoomNoti, IndInv
  <1>1. /\ queue[x] # <<>> /\ Head(queue[x]) = Job("noti", u) /\ Queued(x, "noti", u)
        /\ processed[u] /\ Busy(u) = {} /\ client[u] \in {"toLobby", "toRoom"}
        /\ \A y \in Places \ {x} : ~Queued(y, "enter", u) /\ ~Queued(y, "noti", u)
        /\ \A k \in Coming(u) : ~Contains(Tail(queue[x]), k)
    BY <1>0, First, Zenon
  <1>2. /\ queue'[x] = Tail(queue[x]) /\ members' = members
        /\ \A y \in Places \ {x} : queue'[y] = queue[y] /\ members'[y] = members[y]
    BY <1>0, Zenon DEF RoomNoti, TypeOK
  <1>3. Head(queue[x]) # Job("leave", u)
    BY <1>1, JobFacts, Zenon
  <1>4. \A y \in Places : /\ ComesOnce(queue[y], u) => ComesOnce(queue'[y], u)
                          /\ Stays(y, u)' => Stays(y, u)
    BY <1>1, <1>2, <1>3, Ran, ZenonT(60)
  <1>5. \A y \in Places : ~Queued(y, "enter", u)' /\ ~Queued(y, "noti", u)'
    BY <1>1, <1>2, Zenon DEF Queued, Coming
  <1>6. \A y \in Places : /\ ComesOnce(queue[y], u)
                          /\ conn[u] = "up" /\ Stays(y, u) => roomOf[u] = y
    BY <1>1, Zenon DEF Fine, JobsWait, Seated
  <1>7. client'[u] # "inLobby"
    BY <1>1, Answers, Zenon DEF RoomNoti
  <1>8. UNCHANGED <<pc, conn, processed, roomOf>>
    BY Zenon DEF RoomNoti
  <1> QED BY <1>1, <1>4, <1>5, <1>6, <1>7, <1>8, Settles, ZenonT(60)

(* A job of another session, or one that lets u out. *)
LEMMA OtherJob ==
  ASSUME IndInv, NEW u \in Sessions, Fine(u), NEW x \in Places, NEW s \in Sessions,
         Leave(x, s) \/ (s # u /\ (LobbyEnter(x, s) \/ RoomEnter(x, s) \/ RoomNoti(x, s)))
  PROVE  Fine(u)'
  <1> USE DEF sessionVars, playerVars, placeVars, clientVars
  <1>0. TypeOK /\ queue[x] # <<>>
    BY Zenon DEF IndInv, Leave, LobbyEnter, RoomEnter, RoomNoti, HeadIs
  <1>1. UNCHANGED <<pc, conn, processed>>
    BY Zenon DEF Leave, LobbyEnter, RoomEnter, RoomNoti
  <1>2. \A y \in Places \ {x} : queue'[y] = queue[y] /\ members'[y] = members[y]
    BY <1>0, Zenon DEF Leave, LobbyEnter, RoomEnter, RoomNoti, Admit, TypeOK
  <1>3. UNCHANGED <<client[u], lobbyOf[u], roomOf[u]>>
    <2>1. CASE Leave(x, s)
      BY <2>1, Zenon DEF Leave
    <2>2. CASE s # u /\ LobbyEnter(x, s)
      BY <1>0, <2>2, Zenon DEF LobbyEnter, Told, Ignored, TypeOK
    <2>3. CASE s # u /\ RoomEnter(x, s)
      BY <1>0, <2>3, Zenon DEF RoomEnter, Told, Ignored, TypeOK
    <2>4. CASE s # u /\ RoomNoti(x, s)
      BY <1>0, <2>4, Zenon DEF RoomNoti, Told, Ignored, TypeOK
    <2> QED BY <2>1, <2>2, <2>3, <2>4, Zenon
  <1>4. \/ queue'[x] = Tail(queue[x])
        \/ \E v \in Sessions \ {u} : queue'[x] = Append(Tail(queue[x]), Job("noti", v))
    BY <1>0, Zenon DEF Leave, LobbyEnter, RoomEnter, RoomNoti, TypeOK
  <1>5. u \in members'[x] => u \in members[x] /\ Head(queue[x]) # Job("leave", u)
    <2>1. CASE Leave(x, s)
      <3>1. members'[x] = members[x] \ SameId(s) /\ Head(queue[x]) = Job("leave", s)
        BY <1>0, <2>1, Zenon DEF Leave, HeadIs, TypeOK
      <3>2. u \in SameId(u)
        BY Zenon DEF SameId
      <3>3. Job("leave", s) = Job("leave", u) => s = u
        BY DEF Job
      <3> QED BY <3>1, <3>2, <3>3, Zenon
    <2>2. CASE s # u /\ (LobbyEnter(x, s) \/ RoomEnter(x, s) \/ RoomNoti(x, s))
      <3>1. members'[x] \in {members[x], members[x] \cup {s}}
        BY <1>0, <2>2, Zenon DEF LobbyEnter, RoomEnter, RoomNoti, Admit, TypeOK
      <3>2. Head(queue[x]) # Job("leave", u)
        BY <2>2, JobFacts, Zenon DEF LobbyEnter, RoomEnter, RoomNoti, HeadIs
      <3> QED BY <2>2, <3>1, <3>2, Zenon
    <2> QED BY <2>1, <2>2, Zenon
  <1>6. \A y \in Places :
           /\ Queued(y, "enter", u)' => Queued(y, "enter", u)
           /\ Queued(y, "noti", u)' => Queued(y, "noti", u)
           /\ ComesOnce(queue[y], u) => ComesOnce(queue'[y], u)
           /\ Remains(queue[y], u) => Remains(queue'[y], u)
           /\ Stays(y, u)' => Stays(y, u)
    BY <1>0, <1>2, <1>4, <1>5, Ran, ZenonT(60)
  <1> QED BY <1>1, <1>3, <1>6, Apart, Zenon

-----------------------------------------------------------------------------
(* A client that does not wait stays one that does not. *)
LEMMA WaitsOn ==
  ASSUME IndInv, NEW u \in Sessions, [Next]_vars
  PROVE  client[u] = "any" => client'[u] = "any"
  <1> USE DEF sessionVars, playerVars, placeVars, clientVars
  <1>0. client \in [Sessions -> ClientStates] /\ TypeOK
    BY Zenon DEF IndInv, TypeOK
  <1>1. SUFFICES ASSUME client[u] = "any" PROVE client'[u] = "any"
    BY Zenon
  <1>2. "any" \notin {"toLobby", "toRoom"} /\ "any" # "toLobby" /\ "any" # "toRoom"
    OBVIOUS
  <1>3. ASSUME NEW s, Ignored(s) \/ Told(s, "toLobby", "inLobby") \/ Told(s, "toRoom", "inRoom")
        PROVE  client'[u] = "any"
    BY <1>0, <1>1, <1>2, <1>3, Zenon DEF Ignored, Told
  <1>4. ASSUME NEW s \in Sessions, NEW from \in {"inLobby", "inRoom"}, NEW to, NEW step, Ask(s, from, to, step)
        PROVE  client'[u] = "any"
    <2>1. CASE s = u
      <3>1. client[s] # from
        BY <1>1, <2>1
      <3> QED BY <1>1, <1>4, <2>1, <3>1, Zenon DEF Ask
    <2>2. CASE s # u
      BY <1>0, <1>1, <1>4, <2>2, Zenon DEF Ask
    <2> QED BY <2>1, <2>2, Zenon
  <1>5. ASSUME NEW s \in Sessions, SessionStep(s)
        PROVE  client'[u] = "any"
    BY <1>1, <1>4, <1>5, Zenon DEF SessionStep, ReqRoomEnter, ReqRoomExit, Disconnect, Destroy
  <1>6. ASSUME NEW x \in Places, JobStep(x)
        PROVE  client'[u] = "any"
    BY <1>1, <1>3, <1>6, Zenon DEF JobStep, LobbyEnter, RoomEnter, RoomNoti, Leave
  <1>7. ASSUME NEW a \in Strands, OnLoginResult(a)
        PROVE  client'[u] = "any"
    BY <1>1, <1>7, Zenon DEF OnLoginResult
  <1>8. ASSUME NEW a \in Strands, StrandStep(a)
        PROVE  client'[u] = "any"
    <2>1. (\E s : Ignored(s)) \/ client' = client
      BY <1>8, ZenonT(60) DEF StrandStep, LeaveLobby, ResetLobby, LeaveRoom, ResetRoom, PickLobby, TryLobby, ScanLobbies,
                         EnterLobby, ScanRooms, MakeRoom, EnterRoom, Remove, ClearPlayer, SetPlayer, Add
    <2> QED BY <1>1, <1>3, <2>1, Zenon
  <1>9. CASE UNCHANGED vars
    BY <1>1, <1>9, Zenon DEF vars
  <1> QED BY <1>5, <1>6, <1>7, <1>8, <1>9, Zenon DEF Next

(* Every step keeps SeatInv. *)
LEMMA SeatNext ==
  ASSUME IndInv, SeatInv, [Next]_vars
  PROVE  SeatInv'
  <1>1. SUFFICES ASSUME NEW u \in Sessions, client[u] # "any", Fine(u)
                 PROVE  Fine(u)'
    BY WaitsOn, Zenon DEF SeatInv, Fine
  <1>2. ASSUME NEW a \in Strands, StrandStep(a) PROVE Fine(u)'
    <2>1. CASE Session(a) # u
      BY <1>1, <1>2, <2>1, OtherStep, Zenon
    <2>2. CASE Session(a) = u /\ ~IsDisc(a)
      BY <1>1, <1>2, <2>2, WorkStep, Zenon
    <2>3. CASE Session(a) = u /\ IsDisc(a)
      <3>1. StrandStep(<<u, "disc">>)
        BY <1>2, <2>3, KindOf, Zenon
      <3> QED BY <1>1, <3>1, Undoes, Zenon
    <2> QED BY <2>1, <2>2, <2>3, Zenon
  <1>3. ASSUME NEW a \in Strands, OnLoginResult(a) PROVE Fine(u)'
    BY <1>1, <1>3, LoginFine, Zenon
  <1>4. ASSUME NEW s \in Sessions, SessionStep(s) PROVE Fine(u)'
    BY <1>1, <1>4, SessionFine, Zenon
  <1>5. ASSUME NEW x \in Places, JobStep(x) PROVE Fine(u)'
    <2>1. PICK s \in Sessions : LobbyEnter(x, s) \/ RoomEnter(x, s) \/ RoomNoti(x, s) \/ Leave(x, s)
      BY <1>5, Zenon DEF JobStep
    <2>2. CASE s # u \/ Leave(x, s)
      BY <1>1, <2>1, <2>2, OtherJob, Zenon
    <2>3. CASE s = u /\ LobbyEnter(x, s)
      BY <1>1, <2>3, LobbyTakes, Zenon
    <2>4. CASE s = u /\ RoomEnter(x, s)
      BY <1>1, <2>4, RoomTakes, Zenon
    <2>5. CASE s = u /\ RoomNoti(x, s)
      BY <1>1, <2>5, RoomTells, Zenon
    <2> QED BY <2>1, <2>2, <2>3, <2>4, <2>5, Zenon
  <1>6. CASE UNCHANGED vars
    <2>1. UNCHANGED <<client, conn, processed, lobbyOf, roomOf, queue, members, pc>>
      BY <1>6, Zenon DEF vars, sessionVars, playerVars, placeVars, clientVars
    <2>2. \A y \in Places :
             /\ Queued(y, "enter", u)' => Queued(y, "enter", u)
             /\ Queued(y, "noti", u)' => Queued(y, "noti", u)
             /\ ComesOnce(queue[y], u) => ComesOnce(queue'[y], u)
             /\ Remains(queue[y], u) => Remains(queue'[y], u)
             /\ Stays(y, u)' => Stays(y, u)
      BY <2>1, Zenon DEF Queued, Stays
    <2> QED BY <1>1, <2>1, <2>2, Apart, Zenon
  <1> QED BY <1>2, <1>3, <1>4, <1>5, <1>6, Zenon DEF Next

(* At the start no thread works, no job waits and no place has members. *)
LEMMA SeatInit ==
  ASSUME Init
  PROVE  SeatInv
  <1>1. SUFFICES ASSUME NEW u \in Sessions, client[u] # "any"
                 PROVE  OneStrand(u) /\ JobsWait(u) /\ Seated(u)
    BY Zenon DEF SeatInv
  <1>2. /\ client[u] = "toLobby" /\ conn[u] = "up" /\ pc[<<u, "disc">>] = "idle"
        /\ \A a \in Strands : pc[a] = "idle"
        /\ \A x \in Places : queue[x] = <<>> /\ members[x] = {}
    BY <1>1, NamedStrands, Zenon DEF Init
  <1>3. Busy(u) = {}
    BY <1>2, Zenon DEF Busy
  <1>4. OneStrand(u)
    BY <1>2, <1>3, Zenon DEF OneStrand
  <1>5. DOMAIN <<>> = {}
    OBVIOUS
  <1>6. \A x \in Places : /\ ~Queued(x, "enter", u) /\ ~Queued(x, "noti", u) /\ ~Stays(x, u)
                          /\ ComesOnce(queue[x], u) /\ Remains(queue[x], u)
    BY <1>2, <1>5, Zenon DEF Queued, Contains, Stays, EndsUpIn, ComesOnce, Remains
  <1> QED BY <1>4, <1>6, Zenon DEF JobsWait, Seated

(* For every number of sessions, lobbies and rooms, every assignment of       *)
(* accounts to sessions and every choice of the sessions that wait: one       *)
(* thread at a time works for a session whose client waits for its answers,   *)
(* its Enter jobs and broadcasts come one at a time, and it ends up in one    *)
(* place at most, which its pointer names when it leaves.                     *)
THEOREM SeatInvariance == Spec => []SeatInv
  <1>1. Init => SeatInv
    BY SeatInit, Zenon
  <1>2. IndInv /\ SeatInv /\ [Next]_vars => SeatInv'
    BY SeatNext, Zenon
  <1> QED BY <1>1, <1>2, Invariance, PTL DEF Spec

(* OneSeat for every value of the constants: a player whose client waits for  *)
(* its answers is never in two lobbies or rooms, a lobby and a room, whose    *)
(* jobs do not already let it out; it leaves one before it asks for the next  *)
(* (ReqRoomEnter and ReqRoomExit of LobbyPacketHandler and RoomPacketHandler, *)
(* Lobby::Enter, Lobby::Exit, Room::Enter and Room::Leave).                   *)
THEOREM PlayersSitOnce == Spec => []OneSeat
  <1>1. SeatInv => OneSeat
    <2> QED BY Zenon DEF SeatInv, Seated, Stays, EndsUpIn, OneSeat, Leaving
  <1> QED BY <1>1, SeatInvariance, PTL

=============================================================================
