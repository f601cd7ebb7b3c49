-------------------------- MODULE SessionIOProofs --------------------------
(***************************************************************************)
(* Proofs about SessionIO for any sets of threads and messages.            *)
(*                                                                         *)
(* None of the invariants is inductive by itself.  That no completion      *)
(* finds its event without an owner needs to know who may have the turn to *)
(* send (Sending), that the receive is posted by one strand only           *)
(* (Receiving) and that Disconnect is entered once (Disconnecting), which  *)
(* in turn needs that nobody reaches the session before it is in the       *)
(* service (Unopened, Starting).  IndInv is their conjunction.  Each lemma *)
(* below takes one action; what it says of the sequences of messages       *)
(* (InOrder) is kept apart from what it says of the control state          *)
(* (Coherent).                                                             *)
(***************************************************************************)
EXTENDS SessionIO, SequenceTheorems, TLAPS

USE NamesAssumption DEF Strands, Others, Events, stateVars, sendVars, eventVars, At, Goto,
  CallDisconnect, Reachable

(* Appending to the right part of a concatenation. *)
LEMMA AppendToConcat ==
  ASSUME NEW a \in Seq(Msgs), NEW b \in Seq(Msgs), NEW m \in Msgs
  PROVE  Append(a \o b, m) = a \o Append(b, m)
  <1>1. <<m>> \in Seq(Msgs) /\ a \o b \in Seq(Msgs)
    BY ConcatProperties
  <1>2. Append(a \o b, m) = (a \o b) \o <<m>> /\ Append(b, m) = b \o <<m>>
    BY <1>1, AppendIsConcat, Zenon
  <1> QED BY <1>1, <1>2, ConcatAssociative

(* Another thread sends. *)
LEMMA SendInv ==
  ASSUME NEW t \in Apps, NEW m \in Msgs, IndInv, Send(t, m)
  PROVE  IndInv'
  <1>1. TypeOK'
    <2>1. pushed' \in Seq(Msgs) /\ queue' \in Seq(Msgs)
      BY AppendProperties, Zenon DEF IndInv, TypeOK, Send
    <2>2. \/ pc' = [pc EXCEPT ![t] = "register"] /\ lock' = t
          \/ pc' = pc /\ lock' = lock
      <3>1. CASE registered
        BY <3>1, Zenon DEF IndInv, TypeOK, Send
      <3>2. CASE ~registered
        BY <3>2, Zenon DEF IndInv, TypeOK, Send
      <3> QED BY <3>1, <3>2, Zenon
    <2>3. pc' \in [Strands -> {"none", "add", "notify", "register", "post", "failed", "received",
                            "sent", "quit"}] /\ lock' \in Strands \cup {None}
      BY <2>2, Zenon DEF IndInv, TypeOK
    <2> QED BY <2>1, <2>3, Zenon DEF IndInv, TypeOK, Send
  <1>2. InOrder'
    <2>1. Posting' <=> Posting
      BY DEF IndInv, TypeOK, Posting, Send
    <2>2. ASSUME NEW s \in Seq(Msgs) PROVE Append((tried \o s) \o queue, m) = (tried \o s) \o Append(queue, m)
      <3>1. PICK h \in Seq(Msgs) : h = tried \o s
        BY ConcatProperties, Zenon DEF IndInv, TypeOK
      <3>2. queue \in Seq(Msgs) /\ m \in Msgs
        BY Zenon DEF IndInv, TypeOK
      <3>3. Append(h \o queue, m) = h \o Append(queue, m)
        BY ONLY <3>1, <3>2, AppendToConcat, Zenon
      <3> QED BY <3>1, <3>3, Zenon
    <2>3. <<>> \in Seq(Msgs)
      BY DEF IndInv, TypeOK
    <2> QED BY <2>1, <2>2, <2>3, Zenon DEF IndInv, TypeOK, InOrder, Send
  <1>3. Sending'
    <2>1. CASE registered
      BY <2>1 DEF IndInv, TypeOK, Sending, Turn, Send
    <2>2. CASE ~registered
      BY <2>2 DEF IndInv, TypeOK, Sending, Turn, Send
    <2> QED BY <2>1, <2>2, Zenon
  <1>4. Coherent'
    <2>1. CASE registered
      BY <2>1, Zenon DEF IndInv, TypeOK, Send, Coherent, NoCrash, Listening, HooksInOrder, Unopened,
       Starting, Receiving, Disconnecting, Referenced
    <2>2. CASE ~registered
      <3>1. pc' = [pc EXCEPT ![t] = "register"] /\ pc[t] = "none" /\ dpc[t] = "none"
        BY <2>2, Zenon DEF IndInv, TypeOK, Send
      <3>2. pc'[t] = "register" /\ \A u \in Strands \ {t} : pc'[u] = pc[u]
        BY <3>1, Zenon DEF IndInv, TypeOK
      <3>3. pc'["recv"] = pc["recv"] /\ t # "recv"
        BY <3>2, Zenon DEF IndInv, TypeOK
      <3>4. NoCrash' /\ Listening' /\ HooksInOrder'
        BY <3>3, Zenon DEF IndInv, TypeOK, Send, Coherent, NoCrash, Listening, HooksInOrder
      <3>5. Unopened' /\ Starting'
        BY <3>1, <3>2, <3>3, Zenon DEF IndInv, TypeOK, Send, Coherent, Unopened, Starting
      <3>6. Receiving'
        BY <3>3, Zenon DEF IndInv, TypeOK, Send, Coherent, Receiving
      <3>7. Disconnecting'
        BY <3>1, <3>2, Zenon DEF IndInv, TypeOK, Send, Coherent, Disconnecting
      <3>8. Referenced' => alive'
        BY <3>1, <3>2, Zenon DEF IndInv, TypeOK, Send, Coherent, Referenced
      <3> QED BY <3>4, <3>5, <3>6, <3>7, <3>8, Zenon DEF Coherent
    <2> QED BY <2>1, <2>2, Zenon
  <1> QED BY <1>1, <1>2, <1>3, <1>4, Zenon DEF IndInv

(* The one with the turn takes the queue. *)
LEMMA RegisterSendInv ==
  ASSUME NEW t \in Strands, IndInv, RegisterSend(t)
  PROVE  IndInv'
  <1>1. TypeOK'
    <2>1. owner' = [owner EXCEPT !["send"] = TRUE] \/ owner' = owner
      BY Zenon DEF IndInv, TypeOK, RegisterSend
    <2>2. pc' = [pc EXCEPT ![t] = "post"] \/ pc' = [pc EXCEPT ![t] = "none"]
      BY Zenon DEF IndInv, TypeOK, RegisterSend
    <2>3. owner' \in [Events -> BOOLEAN]
      BY <2>1, ZenonT(60) DEF IndInv, TypeOK
    <2>4. pc' \in [Strands -> {"none", "add", "notify", "register", "post", "failed", "received",
                            "sent", "quit"}]
      BY <2>2, Zenon DEF IndInv, TypeOK
    <2>5. senders \o queue \in Seq(Msgs) /\ <<>> \in Seq(Msgs)
      BY ConcatProperties DEF IndInv, TypeOK
    <2> QED BY <2>3, <2>4, <2>5, ZenonT(60) DEF IndInv, TypeOK, RegisterSend
  <1>2. InOrder'
    <2>1. ~Posting /\ senders = <<>>
      BY Zenon DEF IndInv, TypeOK, RegisterSend, Posting, Sending
    <2>2. CASE connected
      <3>1. Posting'
        BY <2>2 DEF IndInv, TypeOK, RegisterSend, Posting
      <3>2. senders' = queue /\ queue' = <<>> /\ UNCHANGED <<pushed, tried>>
        BY <2>1, <2>2, ConcatEmptySeq, Zenon DEF IndInv, TypeOK, RegisterSend
      <3>3. pushed = tried \o queue
        BY <2>1, ConcatEmptySeq, Zenon DEF IndInv, TypeOK, RegisterSend, InOrder
      <3>4. tried \o queue \in Seq(Msgs)
        BY ConcatProperties, Zenon DEF IndInv, TypeOK
      <3>5. (tried \o queue) \o <<>> = tried \o queue
        BY <3>4, ConcatEmptySeq, Zenon DEF IndInv, TypeOK, RegisterSend
      <3> QED BY <3>1, <3>2, <3>3, <3>5, Zenon DEF IndInv, TypeOK, RegisterSend, InOrder
    <2>3. CASE ~connected
      <3>1. ~Posting'
        BY <2>1, <2>3 DEF IndInv, TypeOK, RegisterSend, Posting
      <3> QED BY <2>1, <2>3, <3>1, Zenon DEF IndInv, TypeOK, RegisterSend, InOrder
    <2> QED BY <2>2, <2>3, Zenon DEF IndInv, TypeOK, RegisterSend
  <1>3. Sending'
    <2>1. CASE connected
      BY <2>1 DEF IndInv, TypeOK, Sending, Turn, RegisterSend
    <2>2. CASE ~connected
      BY <2>2, ZenonT(60) DEF IndInv, TypeOK, Sending, Turn, RegisterSend
    <2> QED BY <2>1, <2>2, Zenon
  <1>4. Coherent'
    BY DEF IndInv, TypeOK, RegisterSend, Coherent, NoCrash, Listening, HooksInOrder, Unopened,
       Starting, Receiving, Disconnecting, Referenced
  <1> QED BY <1>1, <1>2, <1>3, <1>4, Zenon DEF IndInv

(* WSASend is outstanding. *)
LEMMA SendPostedInv ==
  ASSUME NEW t \in Strands, IndInv, SendPosted(t)
  PROVE  IndInv'
  <1>1. TypeOK'
    BY ConcatProperties DEF IndInv, TypeOK, Sending, SendPosted
  <1>2. InOrder'
    <2>1. Posting /\ ~Posting' /\ queue = <<>>
      BY Zenon DEF IndInv, TypeOK, SendPosted, Posting, Sending
    <2>2. pushed' = pushed /\ queue' = queue /\ tried' = tried \o senders
      BY Zenon DEF IndInv, TypeOK, SendPosted
    <2>3. tried \o senders \in Seq(Msgs)
      BY ConcatProperties, Zenon DEF IndInv, TypeOK
    <2>4. (tried \o senders) \o <<>> = tried \o senders
      BY <2>3, ConcatEmptySeq, Zenon DEF IndInv, TypeOK, SendPosted
    <2> QED BY <2>1, <2>2, <2>4, Zenon DEF IndInv, TypeOK, SendPosted, InOrder
  <1>3. Sending'
    BY DEF IndInv, TypeOK, Sending, Turn, SendPosted
  <1>4. Coherent'
    BY Zenon DEF IndInv, TypeOK, SendPosted, Coherent, NoCrash, Listening, HooksInOrder, Unopened,
       Starting, Receiving, Disconnecting, Referenced
  <1> QED BY <1>1, <1>2, <1>3, <1>4, Zenon DEF IndInv

(* WSASend fails with a reset, which disconnects. *)
LEMMA SendResetInv ==
  ASSUME NEW t \in Strands, IndInv, SendReset(t)
  PROVE  IndInv'
  <1>1. TypeOK'
    <2>1. dpc' \in [Strands -> {"none", "notify", "release", "register"}]
      BY Zenon DEF IndInv, TypeOK, SendReset
    <2> QED BY <2>1, ZenonT(60) DEF IndInv, TypeOK, SendReset
  <1>2. InOrder'
    <2>1. Posting /\ Posting'
      BY Zenon DEF IndInv, TypeOK, SendReset, Posting
    <2> QED BY <2>1, Zenon DEF IndInv, SendReset, InOrder
  <1>3. Sending'
    BY Zenon DEF IndInv, TypeOK, Sending, Turn, SendReset
  <1>4. Coherent'
    BY DEF IndInv, TypeOK, SendReset, Sending, Coherent, NoCrash, Listening, HooksInOrder, Unopened,
       Starting, Receiving, Disconnecting, Referenced
  <1> QED BY <1>1, <1>2, <1>3, <1>4, Zenon DEF IndInv

(* WSASend fails with another error. *)
LEMMA SendErrorInv ==
  ASSUME NEW t \in Strands, IndInv, SendError(t)
  PROVE  IndInv'
  <1>1. TypeOK'
    BY ZenonT(60) DEF IndInv, TypeOK, SendError
  <1>2. InOrder'
    <2>1. Posting /\ Posting'
      BY Zenon DEF IndInv, TypeOK, SendError, Posting
    <2> QED BY <2>1, Zenon DEF IndInv, SendError, InOrder
  <1>3. Sending'
    BY Zenon DEF IndInv, TypeOK, Sending, Turn, SendError
  <1>4. Coherent'
    BY Zenon DEF IndInv, TypeOK, SendError, Coherent, NoCrash, Listening, HooksInOrder, Unopened,
       Starting, Receiving, Disconnecting, Referenced
  <1> QED BY <1>1, <1>2, <1>3, <1>4, Zenon DEF IndInv

(* RegisterSend drops the batch and gives the turn up after a failure. *)
LEMMA SendFailedInv ==
  ASSUME NEW t \in Strands, IndInv, SendFailed(t)
  PROVE  IndInv'
  <1>1. TypeOK'
    <2>1. <<>> \in Seq(Msgs)
      OBVIOUS
    <2>2. tried' \in Seq(Msgs)
      BY ConcatProperties, Zenon DEF IndInv, TypeOK, SendFailed, Dropped
    <2>3. {senders[i] : i \in DOMAIN senders} \subseteq Msgs
      BY DEF IndInv, TypeOK
    <2>4. refused' \subseteq Msgs
      BY <2>3, Zenon DEF IndInv, TypeOK, SendFailed, Dropped
    <2> QED BY <2>1, <2>2, <2>4, Zenon DEF IndInv, TypeOK, SendFailed, Dropped
  <1>2. InOrder'
    <2>1. Posting /\ ~Posting' /\ queue = <<>>
      BY Zenon DEF IndInv, TypeOK, SendFailed, Posting, Sending
    <2>2. pushed' = pushed /\ queue' = queue /\ tried' = tried \o senders
      BY Zenon DEF SendFailed, Dropped
    <2>3. tried \o senders \in Seq(Msgs)
      BY ConcatProperties, Zenon DEF IndInv, TypeOK
    <2>4. (tried \o senders) \o <<>> = tried \o senders
      BY <2>3, ConcatEmptySeq, Zenon
    <2> QED BY <2>1, <2>2, <2>4, Zenon DEF IndInv, InOrder
  <1>3. Sending'
    BY DEF IndInv, TypeOK, Sending, Turn, SendFailed, Dropped
  <1>4. Coherent'
    BY DEF IndInv, TypeOK, SendFailed, Coherent, NoCrash, Listening, HooksInOrder, Unopened,
       Starting, Receiving, Disconnecting, Referenced
  <1> QED BY <1>1, <1>2, <1>3, <1>4, Zenon DEF IndInv

(* A send completes. *)
LEMMA ProcessSendInv ==
  ASSUME IndInv, ProcessSend
  PROVE  IndInv'
  <1>1. TypeOK'
    BY DEF IndInv, TypeOK, ProcessSend
  <1>2. InOrder'
    <2>1. ~Posting /\ ~Posting'
      BY DEF IndInv, TypeOK, ProcessSend, Posting, Sending
    <2> QED BY <2>1, Zenon DEF IndInv, TypeOK, ProcessSend, InOrder
  <1>3. Sending'
    BY DEF IndInv, TypeOK, Sending, Turn, ProcessSend
  <1>4. Coherent'
    BY DEF IndInv, TypeOK, ProcessSend, Sending, Coherent, NoCrash, Listening, HooksInOrder, Unopened,
       Starting, Receiving, Disconnecting, Referenced
  <1> QED BY <1>1, <1>2, <1>3, <1>4, Zenon DEF IndInv

(* ProcessSend disconnects. *)
LEMMA SentNothingInv ==
  ASSUME IndInv, SentNothing
  PROVE  IndInv'
  <1>1. TypeOK'
    <2>1. dpc' \in [Strands -> {"none", "notify", "release", "register"}]
      BY Zenon DEF IndInv, TypeOK, SentNothing
    <2> QED BY <2>1, ZenonT(60) DEF IndInv, TypeOK, SentNothing
  <1>2. InOrder'
    BY Zenon DEF IndInv, TypeOK, SentNothing, InOrder, Posting
  <1>3. Sending'
    BY Zenon DEF IndInv, TypeOK, Sending, Turn, SentNothing
  <1>4. Coherent'
    BY DEF IndInv, TypeOK, SentNothing, Sending, Coherent, NoCrash, Listening, HooksInOrder, Unopened,
       Starting, Receiving, Disconnecting, Referenced
  <1> QED BY <1>1, <1>2, <1>3, <1>4, Zenon DEF IndInv

(* ProcessSend hands the turn on, or gives it up with an empty queue. *)
LEMMA SentDataInv ==
  ASSUME IndInv, SentData
  PROVE  IndInv'
  <1>1. TypeOK'
    <2>1. pc' = [pc EXCEPT !["send"] = "none"] \/ pc' = [pc EXCEPT !["send"] = "register"]
      BY Zenon DEF IndInv, TypeOK, SentData
    <2>2. pc' \in [Strands -> {"none", "add", "notify", "register", "post", "failed", "received",
                            "sent", "quit"}]
      BY <2>1, Zenon DEF IndInv, TypeOK
    <2> QED BY <2>2, ZenonT(60) DEF IndInv, TypeOK, SentData
  <1>2. InOrder'
    <2>1. Posting' <=> Posting
      BY DEF IndInv, TypeOK, Posting, SentData
    <2> QED BY <2>1, Zenon DEF IndInv, TypeOK, InOrder, SentData
  <1>3. Sending'
    <2>1. CASE queue = <<>>
      BY <2>1 DEF IndInv, TypeOK, Sending, Turn, SentData
    <2>2. CASE queue # <<>>
      BY <2>2 DEF IndInv, TypeOK, Sending, Turn, SentData
    <2> QED BY <2>1, <2>2, Zenon
  <1>4. Coherent'
    <2>1. CASE queue = <<>>
      BY <2>1 DEF IndInv, TypeOK, SentData, Coherent, NoCrash, Listening, HooksInOrder, Unopened,
       Starting, Receiving, Disconnecting, Referenced
    <2>2. CASE queue # <<>>
      BY <2>2 DEF IndInv, TypeOK, SentData, Coherent, NoCrash, Listening, HooksInOrder, Unopened,
       Starting, Receiving, Disconnecting, Referenced
    <2> QED BY <2>1, <2>2, Zenon
  <1> QED BY <1>1, <1>2, <1>3, <1>4, Zenon DEF IndInv

(* Another thread disconnects. *)
LEMMA KickInv ==
  ASSUME NEW t \in Apps, IndInv, Kick(t)
  PROVE  IndInv'
  <1>1. TypeOK'
    BY ZenonT(60) DEF IndInv, TypeOK, Kick
  <1>2. InOrder'
    BY Zenon DEF IndInv, TypeOK, Kick, InOrder, Posting
  <1>3. Sending'
    BY Zenon DEF IndInv, TypeOK, Sending, Turn, Kick
  <1>4. Coherent'
    BY Zenon DEF IndInv, TypeOK, Kick, Coherent, NoCrash, Listening, HooksInOrder, Unopened,
       Starting, Receiving, Disconnecting, Referenced
  <1> QED BY <1>1, <1>2, <1>3, <1>4, Zenon DEF IndInv

(* OnDisconnected is called. *)
LEMMA OnDisconnectedInv ==
  ASSUME NEW t \in Strands, IndInv, OnDisconnected(t)
  PROVE  IndInv'
  <1>1. TypeOK'
    BY Zenon DEF IndInv, TypeOK, OnDisconnected
  <1>2. InOrder'
    BY Zenon DEF IndInv, OnDisconnected, InOrder, Posting
  <1>3. Sending'
    BY Zenon DEF IndInv, TypeOK, Sending, Turn, OnDisconnected
  <1>4. Coherent'
    BY Zenon DEF IndInv, TypeOK, OnDisconnected, Coherent, NoCrash, Listening, HooksInOrder, Unopened,
       Starting, Receiving, Disconnecting, Referenced
  <1> QED BY <1>1, <1>2, <1>3, <1>4, Zenon DEF IndInv

(* The service lets go of the session. *)
LEMMA ReleaseSessionInv ==
  ASSUME NEW t \in Strands, IndInv, ReleaseSession(t)
  PROVE  IndInv'
  <1>1. TypeOK'
    BY ZenonT(60) DEF IndInv, TypeOK, ReleaseSession
  <1>2. InOrder'
    BY Zenon DEF IndInv, ReleaseSession, InOrder, Posting
  <1>3. Sending'
    BY Zenon DEF IndInv, TypeOK, Sending, Turn, ReleaseSession
  <1>4. Coherent'
    BY DEF IndInv, TypeOK, ReleaseSession, Coherent, NoCrash, Listening, HooksInOrder, Unopened,
       Starting, Receiving, Disconnecting, Referenced
  <1> QED BY <1>1, <1>2, <1>3, <1>4, Zenon DEF IndInv

(* DisconnectEx is outstanding or refused. *)
LEMMA RegisterDisconnectInv ==
  ASSUME NEW t \in Strands, IndInv, RegisterDisconnect(t)
  PROVE  IndInv'
  <1>1. TypeOK'
    <2>1. io["disc"] = 0
      BY Zenon DEF IndInv, TypeOK, Coherent, Disconnecting, RegisterDisconnect
    <2>2. \/ owner' = [owner EXCEPT !["disc"] = TRUE] /\ io' = [io EXCEPT !["disc"] = @ + 1]
          \/ owner' = [owner EXCEPT !["disc"] = FALSE] /\ io' = io
      BY Zenon DEF IndInv, TypeOK, RegisterDisconnect
    <2>3. io' \in [Events -> 0 .. 1]
      BY <2>1, <2>2 DEF IndInv, TypeOK
    <2>4. owner' \in [Events -> BOOLEAN]
      BY <2>2, ZenonT(60) DEF IndInv, TypeOK
    <2> QED BY <2>3, <2>4 DEF IndInv, TypeOK, RegisterDisconnect
  <1>2. InOrder'
    BY Zenon DEF IndInv, TypeOK, RegisterDisconnect, InOrder, Posting
  <1>3. Sending'
    <2>1. UNCHANGED <<pc, sendVars, connected, isServer, opened>>
      BY Zenon DEF RegisterDisconnect
    <2>2. io'["send"] = io["send"] /\ owner'["send"] = owner["send"]
      BY Zenon DEF IndInv, TypeOK, RegisterDisconnect
    <2> QED BY <2>1, <2>2, Zenon DEF IndInv, Sending, Turn
  <1>4. Coherent'
    <2>1. UNCHANGED <<pc, stateVars, registered, deaf, isServer>> /\ dpc[t] = "register" /\ ~crashed
      BY Zenon DEF RegisterDisconnect
    <2>2. \A u \in Strands : dpc'[u] = "none"
      BY <2>1, Zenon DEF IndInv, TypeOK, Coherent, Disconnecting, RegisterDisconnect
    <2>3. ~connected
      BY <2>1, Zenon DEF IndInv, Coherent, Disconnecting
    <2>4. io["open"] = 0
      BY <2>1 DEF IndInv, TypeOK, Coherent, Unopened
    <2>5. /\ io'["open"] = io["open"] /\ io'["recv"] = io["recv"] /\ io'["send"] = io["send"]
          /\ owner'["open"] = owner["open"] /\ owner'["recv"] = owner["recv"]
          /\ owner'["send"] = owner["send"]
      BY Zenon DEF IndInv, TypeOK, RegisterDisconnect
    <2>6. NoCrash' /\ Listening' /\ HooksInOrder' /\ Starting' /\ Receiving'
      BY <2>1, <2>5, Zenon DEF IndInv, Coherent, NoCrash, Listening, HooksInOrder, Starting, Receiving
    <2>7. Unopened'
      BY <2>4, <2>5 DEF Unopened
    <2>8. Disconnecting'
      <3>1. io'["disc"] > 0 => owner'["disc"]
        BY DEF IndInv, TypeOK, Coherent, Disconnecting, RegisterDisconnect
      <3> QED BY <2>1, <2>2, <2>3, <3>1, Zenon DEF Disconnecting
    <2>9. Referenced' => alive'
      <3>1. pc[t] # "none"
        BY <2>1, Zenon DEF IndInv, Coherent, Disconnecting
      <3> QED BY <2>1, <3>1, Zenon DEF IndInv, Coherent, Referenced
    <2> QED BY <2>6, <2>7, <2>8, <2>9, Zenon DEF Coherent
  <1> QED BY <1>1, <1>2, <1>3, <1>4, Zenon DEF IndInv

(* A handler returns. *)
LEMMA QuitInv ==
  ASSUME NEW t \in Strands, IndInv, Quit(t)
  PROVE  IndInv'
  <1>1. TypeOK'
    BY DEF IndInv, TypeOK, Quit
  <1>2. InOrder'
    BY Zenon DEF IndInv, TypeOK, Quit, InOrder, Posting
  <1>3. Sending'
    BY DEF IndInv, TypeOK, Sending, Turn, Quit
  <1>4. Coherent'
    BY DEF IndInv, TypeOK, Quit, Coherent, NoCrash, Listening, HooksInOrder, Unopened,
       Starting, Receiving, Disconnecting, Referenced
  <1> QED BY <1>1, <1>2, <1>3, <1>4, Zenon DEF IndInv

(* The accept or connect completes. *)
LEMMA ProcessConnectInv ==
  ASSUME IndInv, ProcessConnect
  PROVE  IndInv'
  <1>1. TypeOK'
    BY DEF IndInv, TypeOK, ProcessConnect
  <1>2. InOrder'
    BY DEF IndInv, ProcessConnect, InOrder, Posting
  <1>3. Sending'
    BY Zenon DEF IndInv, TypeOK, Sending, Turn, Coherent, Unopened, ProcessConnect
  <1>4. Coherent'
    BY Zenon DEF IndInv, TypeOK, ProcessConnect, Coherent, NoCrash, Listening, HooksInOrder, Unopened,
       Starting, Receiving, Disconnecting, Referenced
  <1> QED BY <1>1, <1>2, <1>3, <1>4, Zenon DEF IndInv

(* The accepted socket is of no use. *)
LEMMA AcceptFailedInv ==
  ASSUME IndInv, AcceptFailed
  PROVE  IndInv'
  <1>1. TypeOK'
    BY DEF IndInv, TypeOK, AcceptFailed
  <1>2. InOrder'
    BY Zenon DEF IndInv, AcceptFailed, InOrder, Posting
  <1>3. Sending'
    BY Zenon DEF IndInv, TypeOK, Sending, Turn, AcceptFailed
  <1>4. Coherent'
    BY Zenon DEF IndInv, TypeOK, AcceptFailed, Coherent, NoCrash, Listening, HooksInOrder, Unopened,
       Starting, Receiving, Disconnecting, Referenced
  <1> QED BY <1>1, <1>2, <1>3, <1>4, Zenon DEF IndInv

(* The connection is refused. *)
LEMMA ConnectRefusedInv ==
  ASSUME IndInv, ConnectRefused
  PROVE  IndInv'
  <1>1. TypeOK'
    BY DEF IndInv, TypeOK, ConnectRefused
  <1>2. InOrder'
    BY Zenon DEF IndInv, ConnectRefused, InOrder, Posting
  <1>3. Sending'
    BY Zenon DEF IndInv, TypeOK, Sending, Turn, ConnectRefused
  <1>4. Coherent'
    BY Zenon DEF IndInv, TypeOK, ConnectRefused, Coherent, NoCrash, Listening, HooksInOrder, Unopened,
       Starting, Receiving, Disconnecting, Referenced
  <1> QED BY <1>1, <1>2, <1>3, <1>4, Zenon DEF IndInv

(* The service takes the session. *)
LEMMA AddSessionInv ==
  ASSUME IndInv, AddSession
  PROVE  IndInv'
  <1>1. TypeOK'
    BY DEF IndInv, TypeOK, AddSession
  <1>2. InOrder'
    BY DEF IndInv, AddSession, InOrder, Posting
  <1>3. Sending'
    BY Zenon DEF IndInv, TypeOK, Sending, Turn, AddSession
  <1>4. Coherent'
    BY Zenon DEF IndInv, TypeOK, AddSession, Coherent, NoCrash, Listening, HooksInOrder, Unopened,
       Starting, Receiving, Disconnecting, Referenced
  <1> QED BY <1>1, <1>2, <1>3, <1>4, Zenon DEF IndInv

(* OnConnected is called. *)
LEMMA OnConnectedInv ==
  ASSUME IndInv, OnConnected
  PROVE  IndInv'
  <1>1. TypeOK'
    BY DEF IndInv, TypeOK, OnConnected
  <1>2. InOrder'
    BY DEF IndInv, OnConnected, InOrder, Posting
  <1>3. Sending'
    BY Zenon DEF IndInv, TypeOK, Sending, Turn, OnConnected
  <1>4. Coherent'
    BY Zenon DEF IndInv, TypeOK, OnConnected, Coherent, NoCrash, Listening, HooksInOrder, Unopened,
       Starting, Receiving, Disconnecting, Referenced
  <1> QED BY <1>1, <1>2, <1>3, <1>4, Zenon DEF IndInv

(* RegisterRecv, up to WSARecv. *)
LEMMA RegisterRecvInv ==
  ASSUME IndInv, RegisterRecv
  PROVE  IndInv'
  <1>1. TypeOK'
    <2>1. owner' = [owner EXCEPT !["recv"] = TRUE] \/ owner' = owner
      BY Zenon DEF IndInv, TypeOK, RegisterRecv
    <2>2. pc' = [pc EXCEPT !["recv"] = "post"] \/ pc' = [pc EXCEPT !["recv"] = "quit"]
      BY Zenon DEF IndInv, TypeOK, RegisterRecv
    <2>3. owner' \in [Events -> BOOLEAN]
      BY <2>1, ZenonT(60) DEF IndInv, TypeOK
    <2>4. pc' \in [Strands -> {"none", "add", "notify", "register", "post", "failed", "received",
                            "sent", "quit"}]
      BY <2>2, Zenon DEF IndInv, TypeOK
    <2> QED BY <2>3, <2>4 DEF IndInv, TypeOK, RegisterRecv
  <1>2. InOrder'
    BY ZenonT(60) DEF IndInv, TypeOK, RegisterRecv, InOrder, Posting
  <1>3. Sending'
    BY DEF IndInv, TypeOK, Sending, Turn, RegisterRecv
  <1>4. Coherent'
    BY DEF IndInv, TypeOK, RegisterRecv, Coherent, NoCrash, Listening, HooksInOrder, Unopened,
       Starting, Receiving, Disconnecting, Referenced
  <1> QED BY <1>1, <1>2, <1>3, <1>4, Zenon DEF IndInv

(* WSARecv is outstanding. *)
LEMMA RecvPostedInv ==
  ASSUME IndInv, RecvPosted
  PROVE  IndInv'
  <1>1. TypeOK'
    BY DEF IndInv, TypeOK, Coherent, Receiving, RecvPosted
  <1>2. InOrder'
    BY DEF IndInv, RecvPosted, InOrder, Posting
  <1>3. Sending'
    BY DEF IndInv, TypeOK, Sending, Turn, RecvPosted
  <1>4. Coherent'
    BY DEF IndInv, TypeOK, RecvPosted, Coherent, NoCrash, Listening, HooksInOrder, Unopened,
       Starting, Receiving, Disconnecting, Referenced
  <1> QED BY <1>1, <1>2, <1>3, <1>4, Zenon DEF IndInv

(* WSARecv fails with a reset, which disconnects. *)
LEMMA RecvResetInv ==
  ASSUME IndInv, RecvReset
  PROVE  IndInv'
  <1>1. TypeOK'
    <2>1. dpc' \in [Strands -> {"none", "notify", "release", "register"}]
      BY Zenon DEF IndInv, TypeOK, RecvReset
    <2> QED BY <2>1, ZenonT(60) DEF IndInv, TypeOK, RecvReset
  <1>2. InOrder'
    BY Zenon DEF IndInv, TypeOK, RecvReset, InOrder, Posting
  <1>3. Sending'
    BY Zenon DEF IndInv, TypeOK, Sending, Turn, RecvReset
  <1>4. Coherent'
    BY Zenon DEF IndInv, TypeOK, RecvReset, Coherent, NoCrash, Listening, HooksInOrder, Unopened,
       Starting, Receiving, Disconnecting, Referenced
  <1> QED BY <1>1, <1>2, <1>3, <1>4, Zenon DEF IndInv

(* WSARecv fails with another error. *)
LEMMA RecvErrorInv ==
  ASSUME IndInv, RecvError
  PROVE  IndInv'
  <1>1. TypeOK'
    BY DEF IndInv, TypeOK, RecvError
  <1>2. InOrder'
    BY DEF IndInv, RecvError, InOrder, Posting
  <1>3. Sending'
    BY Zenon DEF IndInv, TypeOK, Sending, Turn, RecvError
  <1>4. Coherent'
    BY Zenon DEF IndInv, TypeOK, RecvError, Coherent, NoCrash, Listening, HooksInOrder, Unopened,
       Starting, Receiving, Disconnecting, Referenced
  <1> QED BY <1>1, <1>2, <1>3, <1>4, Zenon DEF IndInv

(* RegisterRecv returns after a failure. *)
LEMMA RecvFailedInv ==
  ASSUME IndInv, RecvFailed
  PROVE  IndInv'
  <1>1. TypeOK'
    BY DEF IndInv, TypeOK, RecvFailed
  <1>2. InOrder'
    BY DEF IndInv, RecvFailed, InOrder, Posting
  <1>3. Sending'
    BY DEF IndInv, TypeOK, Sending, Turn, RecvFailed
  <1>4. Coherent'
    BY DEF IndInv, TypeOK, RecvFailed, Coherent, NoCrash, Listening, HooksInOrder, Unopened,
       Starting, Receiving, Disconnecting, Referenced
  <1> QED BY <1>1, <1>2, <1>3, <1>4, Zenon DEF IndInv

(* ProcessRecv disconnects. *)
LEMMA ReceivedNothingInv ==
  ASSUME IndInv, ReceivedNothing
  PROVE  IndInv'
  <1>1. TypeOK'
    <2>1. dpc' \in [Strands -> {"none", "notify", "release", "register"}]
      BY Zenon DEF IndInv, TypeOK, ReceivedNothing
    <2> QED BY <2>1, ZenonT(60) DEF IndInv, TypeOK, ReceivedNothing
  <1>2. InOrder'
    BY Zenon DEF IndInv, TypeOK, ReceivedNothing, InOrder, Posting
  <1>3. Sending'
    BY Zenon DEF IndInv, TypeOK, Sending, Turn, ReceivedNothing
  <1>4. Coherent'
    BY Zenon DEF IndInv, TypeOK, ReceivedNothing, Coherent, NoCrash, Listening, HooksInOrder, Unopened,
       Starting, Receiving, Disconnecting, Referenced
  <1> QED BY <1>1, <1>2, <1>3, <1>4, Zenon DEF IndInv

(* ProcessRecv goes on to the next receive. *)
LEMMA ReceivedDataInv ==
  ASSUME IndInv, ReceivedData
  PROVE  IndInv'
  <1>1. TypeOK'
    BY DEF IndInv, TypeOK, ReceivedData
  <1>2. InOrder'
    BY DEF IndInv, ReceivedData, InOrder, Posting
  <1>3. Sending'
    BY DEF IndInv, TypeOK, Sending, Turn, ReceivedData
  <1>4. Coherent'
    BY DEF IndInv, TypeOK, ReceivedData, Coherent, NoCrash, Listening, HooksInOrder, Unopened,
       Starting, Receiving, Disconnecting, Referenced
  <1> QED BY <1>1, <1>2, <1>3, <1>4, Zenon DEF IndInv

(* A receive completes. *)
LEMMA ProcessRecvInv ==
  ASSUME IndInv, ProcessRecv
  PROVE  IndInv'
  <1>1. TypeOK'
    BY DEF IndInv, TypeOK, ProcessRecv
  <1>2. InOrder'
    BY DEF IndInv, ProcessRecv, InOrder, Posting
  <1>3. Sending'
    BY Zenon DEF IndInv, TypeOK, Sending, Turn, ProcessRecv
  <1>4. Coherent'
    BY DEF IndInv, TypeOK, ProcessRecv, Coherent, NoCrash, Listening, HooksInOrder, Unopened,
       Starting, Receiving, Disconnecting, Referenced
  <1> QED BY <1>1, <1>2, <1>3, <1>4, Zenon DEF IndInv

(* DisconnectEx completes. *)
LEMMA ProcessDisconnectInv ==
  ASSUME IndInv, ProcessDisconnect
  PROVE  IndInv'
  <1>1. TypeOK'
    BY DEF IndInv, TypeOK, ProcessDisconnect
  <1>2. InOrder'
    BY Zenon DEF IndInv, ProcessDisconnect, InOrder, Posting
  <1>3. Sending'
    BY Zenon DEF IndInv, TypeOK, Sending, Turn, ProcessDisconnect
  <1>4. Coherent'
    BY DEF IndInv, TypeOK, ProcessDisconnect, Coherent, NoCrash, Listening, HooksInOrder, Unopened,
       Starting, Receiving, Disconnecting, Referenced
  <1> QED BY <1>1, <1>2, <1>3, <1>4, Zenon DEF IndInv

(* The last reference goes. *)
LEMMA DestroyInv ==
  ASSUME IndInv, Destroy
  PROVE  IndInv'
  <1>1. TypeOK'
    BY ZenonT(60) DEF IndInv, TypeOK, Destroy
  <1>2. InOrder'
    BY Zenon DEF IndInv, Destroy, InOrder, Posting
  <1>3. Sending'
    BY Zenon DEF IndInv, TypeOK, Sending, Turn, Destroy
  <1>4. Coherent'
    BY DEF IndInv, TypeOK, Destroy, Coherent, NoCrash, Listening, HooksInOrder, Unopened,
       Starting, Receiving, Disconnecting, Referenced
  <1> QED BY <1>1, <1>2, <1>3, <1>4, Zenon DEF IndInv

(* Before the accept or connect completes. *)
LEMMA InitInv == Init => IndInv
  <1> SUFFICES ASSUME Init PROVE IndInv
    BY Zenon
  <1>1. TypeOK
    <2>1. owner \in [Events -> BOOLEAN] /\ io \in [Events -> 0 .. 1]
      BY DEF Init
    <2>2. <<>> \in Seq(Msgs)
      OBVIOUS
    <2> QED BY <2>1, <2>2, Zenon DEF Init, TypeOK
  <1>2. InOrder
    BY ConcatEmptySeq DEF Init, InOrder, Posting
  <1>3. /\ owner["open"] /\ io["open"] = 1 /\ io["recv"] = 0 /\ io["send"] = 0 /\ io["disc"] = 0
        /\ \A t \in Strands : pc[t] = "none" /\ dpc[t] = "none"
    BY Zenon DEF Init
  <1>4. NoCrash /\ Listening /\ HooksInOrder /\ Unopened /\ Starting /\ Receiving
    BY <1>3 DEF Init, NoCrash, Listening, HooksInOrder, Unopened, Starting, Receiving
  <1>5. Sending /\ Disconnecting
    BY <1>3 DEF Init, Sending, Turn, Disconnecting
  <1>6. Referenced => alive
    BY Zenon DEF Init
  <1> QED BY <1>1, <1>2, <1>4, <1>5, <1>6, Zenon DEF IndInv, Coherent

(* Every step keeps the invariant. *)
LEMMA NextInv == IndInv /\ [Next]_vars => IndInv'
  <1> SUFFICES ASSUME IndInv, [Next]_vars PROVE IndInv'
    BY Zenon
  <1>1. CASE UNCHANGED vars
    <2>1. TypeOK' /\ InOrder'
      BY <1>1 DEF IndInv, TypeOK, vars, InOrder, Posting
    <2>2. NoCrash' /\ Listening' /\ HooksInOrder' /\ Unopened' /\ Starting' /\ Receiving'
      BY <1>1 DEF IndInv, Coherent, vars, NoCrash, Listening, HooksInOrder, Unopened, Starting, Receiving
    <2>3. Sending' /\ Disconnecting'
      BY <1>1 DEF IndInv, Coherent, vars, Sending, Turn, Disconnecting
    <2>4. (Referenced => alive)'
      BY <1>1, Zenon DEF IndInv, Coherent, vars, Referenced
    <2> QED BY <2>1, <2>2, <2>3, <2>4, Zenon DEF IndInv, Coherent
  <1>2. CASE Opening
    BY <1>2, ProcessConnectInv, AcceptFailedInv, ConnectRefusedInv, Zenon DEF Opening
  <1>3. CASE RecvStep
    BY <1>3, AddSessionInv, OnConnectedInv, RegisterRecvInv, RecvPostedInv, RecvResetInv,
       RecvErrorInv, RecvFailedInv, ReceivedNothingInv, ReceivedDataInv DEF RecvStep
  <1>4. CASE SentStep \/ ProcessRecv \/ ProcessSend \/ ProcessDisconnect \/ Destroy
    BY <1>4, SentNothingInv, SentDataInv, ProcessRecvInv, ProcessSendInv, ProcessDisconnectInv,
       DestroyInv DEF SentStep
  <1>5. ASSUME NEW t \in Strands, SendStep(t) PROVE IndInv'
    BY <1>5, RegisterSendInv, SendPostedInv, SendResetInv, SendErrorInv, SendFailedInv, Zenon DEF SendStep
  <1>6. ASSUME NEW t \in Strands, DisconnectStep(t) PROVE IndInv'
    BY <1>6, OnDisconnectedInv, ReleaseSessionInv, RegisterDisconnectInv, QuitInv, Zenon DEF DisconnectStep
  <1>7. ASSUME NEW t \in Apps, Kick(t) PROVE IndInv'
    BY <1>7, KickInv, Zenon
  <1>8. ASSUME NEW t \in Apps, NEW m \in Msgs, Send(t, m) PROVE IndInv'
    BY <1>8, SendInv, Zenon
  <1> QED BY <1>1, <1>2, <1>3, <1>4, <1>5, <1>6, <1>7, <1>8, Zenon DEF Next

-----------------------------------------------------------------------------
(* The invariant holds in every reachable state, for any number of threads *)
(* and messages.                                                           *)
THEOREM Invariance == Spec => []IndInv
  BY InitInv, NextInv, PTL DEF Spec

(* Session::Disconnect always finds the session in Service::m_sessions, so *)
(* the assertion of ReleaseSession never fails, and IocpCore::Dispatch     *)
(* never finds an event without an owner.                                  *)
THEOREM NeverCrashes == Spec => []NoCrash
  <1>1. IndInv => NoCrash
    BY Zenon DEF IndInv, Coherent
  <1> QED BY <1>1, Invariance, PTL

(* While an operation is outstanding the session, its OVERLAPPED and the   *)
(* buffers given to WSASend stay allocated.                                *)
THEOREM OperationsKeepAlive == Spec => []KeptAlive
  <1>1. IndInv => KeptAlive
    BY DEF IndInv, TypeOK, Coherent, KeptAlive, Unopened, Receiving, Sending, Disconnecting, Referenced
  <1> QED BY <1>1, Invariance, PTL

(* WSASend is given the messages in the order of Send, each once, over all *)
(* the hand-overs of the turn between senders and completions.             *)
THEOREM SendsInOrder == Spec => []InOrder
  <1>1. IndInv => InOrder
    BY Zenon DEF IndInv
  <1> QED BY <1>1, Invariance, PTL

(* A connected session has a receive outstanding or a thread that will     *)
(* post one, unless RegisterRecv met an error that HandleError only logs.  *)
THEOREM KeepsListening == Spec => []Listening
  <1>1. IndInv => Listening
    BY Zenon DEF IndInv, Coherent
  <1> QED BY <1>1, Invariance, PTL

(* A queued message of a connected session always has somebody who will    *)
(* send it: m_sendRegistered is never left set by a thread that has gone.  *)
(* And the hooks come in order.                                            *)
THEOREM PiecesAgree == Spec => []Consistent
  <1>1. IndInv => SendAwake
    BY Zenon DEF IndInv, TypeOK, SendAwake, Sending, Turn
  <1>2. IndInv => Consistent
    BY <1>1, Zenon DEF IndInv, Coherent, Consistent
  <1> QED BY <1>2, Invariance, PTL
=============================================================================
