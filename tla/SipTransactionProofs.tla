------------------------ MODULE SipTransactionProofs ------------------------
(* Theorems about SipTransaction, for any counts, codes and bounds.        *)
EXTENDS SipTransaction, TLAPS

Final(m) == m.code >= 200

(***************************************************************************)
(* What the two transactions hold.                                         *)
(***************************************************************************)

\* The server keeps the answer it gave last, and nothing but an answer.
ServerHolds ==
  /\ server.last # None => server.last.kind = "answer"
  /\ server.last = None => server.state \in {"Invalid", "Initial"} /\ server.transmit = FALSE
  /\ server.state \notin {"Invalid", "Initial"} => server.last.code = server.response
  /\ server.state = "Initial" => user = "none" /\ server.transmit = FALSE

\* What the client's user was told and is still to be told, by the state.
Unanswered ==
  /\ told = <<>> /\ ended = 0
  /\ ~ Final(client.pending)
  /\ client.last = None \/ (client.last.kind = "answer" /\ ~ Final(client.last))

ClientHolds ==
  /\ client.state \in {"Initial", "Trying", "Process"} => Unanswered
  /\ client.state = "Finish" =>
       /\ invite /\ ended = 0 /\ client.response >= 200 /\ client.last.kind = "ack"
       /\ \/ told = <<>> /\ client.pending.code = client.response
          \/ told = <<client.response>> /\ client.pending = None
  /\ client.state = "Cleared" =>
       \/ Unanswered /\ client.response = 500
       \/ /\ ~ invite /\ ended = 0 /\ client.response >= 200
          /\ client.last.kind = "answer" /\ client.last.code = client.response
          /\ \/ told = <<>> /\ client.pending.code = client.response
             \/ told = <<client.response>> /\ client.pending = None
             \/ /\ told = <<client.response, client.response>>
                /\ client.pending = None /\ client.transmit = FALSE
  /\ client.state = "Invalid" =>
       /\ client.pending = None /\ client.transmit = FALSE /\ ended = client.response
       /\ \/ told = <<>> /\ ended \in {408, 500}
          \/ told = <<ended>>
          \/ told = <<ended, ended>> /\ ~ invite
  /\ client.state # "Retrans"

(***************************************************************************)
(* What is on the network.                                                 *)
(***************************************************************************)

\* An ACK means that the client has a final answer, which was sent.
WasSent(c) == \E m \in net : m.kind = "answer" /\ m.code = c

AcksAreSent ==
  /\ client.state = "Finish" => WasSent(client.response)
  /\ \A k \in net : k.kind = "ack" =>
       /\ client.state \in {"Finish", "Invalid"} /\ client.response >= 200
       /\ WasSent(client.response)

\* The first server transaction answers with its timeout, with what its user
\* says, or refuses and forgets the request.
OneAnswerOrTimeout ==
  /\ births = 0 => server.state = "Invalid" /\ \A m \in net : m.kind # "answer"
  /\ server.state # "Invalid" /\ Final(server.last) => server.last.code = 408 \/ user = "answered"
  /\ births = 1 =>
       \A m \in net : m.kind = "answer" /\ Final(m) =>
         \/ m.code = 408
         \/ server.state = "Invalid" /\ ~ acked
         \/ user = "answered" /\ m.code = server.response
  /\ user = "answered" => server.state \notin {"Initial", "Trying", "Process"}
  /\ user \in {"asked", "checked"} => server.state \notin {"Initial", "Trying"}

\* Only a transaction that is over has its ACK, and it sends no more.
AckedIsOver ==
  /\ acked => /\ server.state \in {"Cleared", "Invalid"}
              /\ \E k \in net : k.kind = "ack"
  /\ late # 0 => late = 1 /\ acked /\ (server.transmit = FALSE \/ ~ Final(server.last))

(***************************************************************************)
(* The invariant, by what it is about.                                     *)
(***************************************************************************)
ClientSide ==
  /\ invite \in BOOLEAN /\ client \in Transaction
  /\ told \in Seq(200 .. 699) /\ ended \in 0 .. 699
  /\ client.state \in {"Trying", "Process", "Finish"} => client.timeouts > 0
  /\ ClientHolds

ServerSide ==
  /\ server \in Transaction
  /\ server.pending = None \/ server.pending.kind = "ack"
  /\ births \in 0 .. MaxBirths
  /\ user \in {"none", "asked", "checked", "answered"}
  /\ progress \in 0 .. MaxProgress
  /\ acked \in BOOLEAN /\ late \in Nat
  /\ server.state \in {"Process", "Retrans", "Finish"} => server.timeouts > 0
  /\ ServerHolds /\ OneAnswerOrTimeout /\ AckedIsOver

SInv == ClientSide /\ ServerSide /\ net \subseteq Message /\ AcksAreSent

ClientVars == <<invite, client, told, ended>>
ServerVars == <<invite, server, births, user, progress, acked, late>>

-----------------------------------------------------------------------------
\* In the first state there is a client that has not started and no server.
LEMMA InitHolds == Init => SInv
<1> SUFFICES ASSUME Init PROVE SInv
  OBVIOUS
<1>1. NewTransaction \in Transaction /\ NoTransaction \in Transaction
  <2>1. NewTransaction \in Transaction /\ "Invalid" \in StateNames
    BY DEF NewTransaction, Transaction, StateNames
  <2>2. QED
    BY <2>1 DEF NoTransaction, Transaction
<1>2. ClientSide
  BY <1>1 DEF Init, ClientSide, ClientHolds, Unanswered, Final, NewTransaction, None
<1>3. ServerSide
  <2>1. /\ server \in Transaction /\ server.state = "Invalid" /\ server.pending = None
        /\ server.last = None /\ server.transmit = FALSE
    BY <1>1 DEF Init, NoTransaction, NewTransaction
  <2>2. births = 0 /\ net = {} /\ user = "none" /\ progress = 0 /\ acked = FALSE /\ late = 0
    BY DEF Init
  <2>3. ServerHolds /\ OneAnswerOrTimeout /\ AckedIsOver
    BY <2>1, <2>2 DEF ServerHolds, OneAnswerOrTimeout, AckedIsOver, Final, None
  <2>4. births \in 0 .. MaxBirths /\ progress \in 0 .. MaxProgress /\ late \in Nat
    BY <2>2, BoundsAssumption
  <2>5. server.state \notin {"Process", "Retrans", "Finish"}
    BY <2>1
  <2>6. QED
    BY <2>1, <2>2, <2>3, <2>4, <2>5 DEF ServerSide
<1>4. QED
  BY <1>2, <1>3 DEF Init, SInv, AcksAreSent, NewTransaction

\* A step of the client that sends no answer leaves the server's side alone.
LEMMA ClientMoves ==
  ASSUME SInv, UNCHANGED ServerVars, ClientSide', AcksAreSent',
         net \subseteq net', net' \subseteq Message,
         \A m \in net' : m \in net \/ m.kind # "answer"
  PROVE  SInv'
<1>1. OneAnswerOrTimeout'
  BY DEF SInv, ServerSide, OneAnswerOrTimeout, ServerVars, Final
<1>2. AckedIsOver' /\ ServerHolds'
  BY DEF SInv, ServerSide, AckedIsOver, ServerHolds, ServerVars, Final
<1>3. ServerSide'
  BY <1>1, <1>2 DEF SInv, ServerSide, ServerVars
<1>4. QED
  BY <1>3 DEF SInv

\* A step of the server that sends answers only leaves the client's alone.
LEMMA ServerMoves ==
  ASSUME SInv, UNCHANGED ClientVars, ServerSide',
         net \subseteq net', net' \subseteq Message,
         \A m \in net' : m \in net \/ m.kind = "answer"
  PROVE  SInv'
<1>1. ClientSide'
  BY DEF SInv, ClientSide, ClientHolds, Unanswered, ClientVars, Final
<1>2. AcksAreSent'
  BY DEF SInv, AcksAreSent, WasSent, ClientVars
<1>3. QED
  BY <1>1, <1>2 DEF SInv

(***************************************************************************)
(* Steps of the client.                                                    *)
(***************************************************************************)

\* The empty message is none.
LEMMA NoneIs == None.code = 0 /\ None.kind = "none" /\ None \notin Message
BY DEF None, Message

\* The request is a message.
LEMMA RequestIs ==
  Request \in Message /\ Request.kind = "request" /\ Request.code = 0
BY DEF Request, Message

\* A request and an ACK are messages, and no answers.
LEMMA RequestsAndAcks ==
  /\ Request \in Message /\ Request.kind = "request" /\ Request.code = 0
  /\ \A c \in 0 .. 699, g \in Nat :
       Ack(c, g) \in Message /\ Ack(c, g).kind = "ack" /\ Ack(c, g).code = 0
  /\ None.code = 0 /\ None.kind = "none" /\ None \notin Message
  BY DEF Request, Ack, None, Message

(***************************************************************************)
(* A transaction in which one field is set keeps the others.               *)
(***************************************************************************)

\* The field state is set.
LEMMA Set_state ==
  ASSUME NEW t \in Transaction, NEW v \in StateNames
  PROVE  LET u == [t EXCEPT !.state = v]
         IN  /\ u \in Transaction /\ u.state = v
             /\ u.last = t.last /\ u.transmit = t.transmit /\ u.pending = t.pending /\ u.timeouts = t.timeouts
             /\ u.response = t.response /\ u.tag = t.tag /\ u.mute = t.mute
  BY DEF Transaction

\* The field last is set.
LEMMA Set_last ==
  ASSUME NEW t \in Transaction, NEW v \in Message \cup {None}
  PROVE  LET u == [t EXCEPT !.last = v]
         IN  /\ u \in Transaction /\ u.last = v
             /\ u.state = t.state /\ u.transmit = t.transmit /\ u.pending = t.pending /\ u.timeouts = t.timeouts
             /\ u.response = t.response /\ u.tag = t.tag /\ u.mute = t.mute
  BY DEF Transaction

\* The field transmit is set.
LEMMA Set_transmit ==
  ASSUME NEW t \in Transaction, NEW v \in BOOLEAN
  PROVE  LET u == [t EXCEPT !.transmit = v]
         IN  /\ u \in Transaction /\ u.transmit = v
             /\ u.state = t.state /\ u.last = t.last /\ u.pending = t.pending /\ u.timeouts = t.timeouts
             /\ u.response = t.response /\ u.tag = t.tag /\ u.mute = t.mute
  BY DEF Transaction

\* The field pending is set.
LEMMA Set_pending ==
  ASSUME NEW t \in Transaction, NEW v \in Message \cup {None}
  PROVE  LET u == [t EXCEPT !.pending = v]
         IN  /\ u \in Transaction /\ u.pending = v
             /\ u.state = t.state /\ u.last = t.last /\ u.transmit = t.transmit /\ u.timeouts = t.timeouts
             /\ u.response = t.response /\ u.tag = t.tag /\ u.mute = t.mute
  BY DEF Transaction

\* The field timeouts is set.
LEMMA Set_timeouts ==
  ASSUME NEW t \in Transaction, NEW v \in Nat
  PROVE  LET u == [t EXCEPT !.timeouts = v]
         IN  /\ u \in Transaction /\ u.timeouts = v
             /\ u.state = t.state /\ u.last = t.last /\ u.transmit = t.transmit /\ u.pending = t.pending
             /\ u.response = t.response /\ u.tag = t.tag /\ u.mute = t.mute
  BY DEF Transaction

\* The field response is set.
LEMMA Set_response ==
  ASSUME NEW t \in Transaction, NEW v \in 0 .. 699
  PROVE  LET u == [t EXCEPT !.response = v]
         IN  /\ u \in Transaction /\ u.response = v
             /\ u.state = t.state /\ u.last = t.last /\ u.transmit = t.transmit /\ u.pending = t.pending
             /\ u.timeouts = t.timeouts /\ u.tag = t.tag /\ u.mute = t.mute
  BY DEF Transaction

\* The field tag is set.
LEMMA Set_tag ==
  ASSUME NEW t \in Transaction, NEW v \in Nat
  PROVE  LET u == [t EXCEPT !.tag = v]
         IN  /\ u \in Transaction /\ u.tag = v
             /\ u.state = t.state /\ u.last = t.last /\ u.transmit = t.transmit /\ u.pending = t.pending
             /\ u.timeouts = t.timeouts /\ u.response = t.response /\ u.mute = t.mute
  BY DEF Transaction

\* The field mute is set.
LEMMA Set_mute ==
  ASSUME NEW t \in Transaction, NEW v \in BOOLEAN
  PROVE  LET u == [t EXCEPT !.mute = v]
         IN  /\ u \in Transaction /\ u.mute = v
             /\ u.state = t.state /\ u.last = t.last /\ u.transmit = t.transmit /\ u.pending = t.pending
             /\ u.timeouts = t.timeouts /\ u.response = t.response /\ u.tag = t.tag
  BY DEF Transaction

\* A transaction that is to send keeps what it holds.
LEMMA TransmitIs ==
  \A t \in Transaction :
    LET u == [t EXCEPT !.transmit = TRUE]
    IN  /\ u \in Transaction
        /\ u.state = t.state /\ u.last = t.last /\ u.pending = t.pending
        /\ u.timeouts = t.timeouts /\ u.response = t.response
  BY Set_transmit

\* The same code told once more.
LEMMA CodeTwice ==
  ASSUME NEW c
  PROVE  Append(<<c>>, c) = <<c, c>>
<1>1. ASSUME NEW s \in Seq({c}), Len(s) = 2, s[1] = c, s[2] = c PROVE s = <<c, c>>
  BY <1>1
<1>2. c \in {c}
  OBVIOUS
<1>3. Append(<<c>>, c) \in Seq({c}) /\ Len(Append(<<c>>, c)) = 2
  BY <1>2
<1>4. Append(<<c>>, c)[1] = c /\ Append(<<c>>, c)[2] = c
  BY <1>2
<1>5. QED
  BY <1>1, <1>3, <1>4

\* When sending failed, a transaction that tries is over or goes on silently.
LEMMA FailureEndsOrSilences ==
  ASSUME NEW t \in Transaction
  PROVE  LET u == TransmitFailed(t)
         IN  /\ u \in Transaction /\ u.last = t.last /\ u.pending = t.pending
             /\ u.transmit = t.transmit /\ u.timeouts = t.timeouts
             /\ \/ u.state = t.state /\ u.response = t.response
                \/ t.state = "Trying" /\ u.state = "Cleared" /\ u.response = 500
<1>1. "Cleared" \in StateNames /\ 500 \in 0 .. 699
  BY DEF StateNames
<1>2. CASE t.state # "Trying"
  BY <1>2 DEF TransmitFailed
<1>3. CASE t.state = "Trying" /\ t.timeouts >= ReqCount
  <2> DEFINE v == [t EXCEPT !.response = 500]
             u == [v EXCEPT !.state = "Cleared"]
  <2>1. TransmitFailed(t) = u
    BY <1>3 DEF TransmitFailed
  <2>2. v \in Transaction /\ v.response = 500 /\ v.last = t.last /\ v.pending = t.pending
        /\ v.transmit = t.transmit /\ v.timeouts = t.timeouts
    BY <1>1 DEF Transaction
  <2> HIDE DEF v
  <2>3. u \in Transaction /\ u.response = 500 /\ u.last = v.last /\ u.pending = v.pending
        /\ u.transmit = v.transmit /\ u.timeouts = v.timeouts /\ u.state = "Cleared"
    BY <1>1, <2>2, Set_state
  <2>4. QED
    BY <1>3, <2>1, <2>2, <2>3
<1>4. CASE t.state = "Trying" /\ ~ (t.timeouts >= ReqCount)
  <2>1. TransmitFailed(t) = [t EXCEPT !.mute = TRUE]
    BY <1>4 DEF TransmitFailed
  <2> DEFINE u == [t EXCEPT !.mute = TRUE]
  <2>2. u \in Transaction /\ u.last = t.last /\ u.pending = t.pending
        /\ u.transmit = t.transmit /\ u.timeouts = t.timeouts
        /\ u.state = t.state /\ u.response = t.response
    BY Set_mute
  <2> HIDE DEF u
  <2>3. QED
    BY <2>1, <2>2 DEF u
<1>5. QED
  BY <1>2, <1>3, <1>4

\* The user is told of what was pending.
LEMMA ClientPendingKeeps == SInv /\ ClientPending => SInv'
<1> SUFFICES ASSUME SInv, ClientPending PROVE SInv'
  OBVIOUS
<1>0. ClientSide /\ ClientHolds
  BY DEF SInv, ClientSide
<1>00. client \in Transaction
  BY <1>0 DEF ClientSide
<1>t. told \in Seq(200 .. 699)
  BY <1>0 DEF ClientSide
<1>1. /\ client' \in Transaction /\ client'.pending = None
      /\ client'.state = client.state /\ client'.response = client.response
      /\ client'.last = client.last /\ client'.transmit = client.transmit
      /\ client'.timeouts = client.timeouts
  <2>1. client' = [client EXCEPT !.pending = None]
    BY DEF ClientPending
  <2>2. QED
    BY <1>00, <2>1, Set_pending
<1>2. client.pending \in Message /\ client.pending.code \in 0 .. 699 /\ client.pending # None
  BY <1>00 DEF ClientPending, Transaction, Message
<1>3. told' = IF client.pending.code >= 200 THEN Append(told, client.pending.code) ELSE told
  BY DEF ClientPending, Heard
<1>4. told' \in Seq(200 .. 699)
  <2>1. client.pending.code >= 200 => client.pending.code \in 200 .. 699
    BY <1>2
  <2>2. CASE client.pending.code >= 200
    <3>1. client.pending.code \in 200 .. 699
      BY <2>1, <2>2
    <3>2. Append(told, client.pending.code) \in Seq(200 .. 699)
      BY <1>t, <3>1
    <3>3. QED
      BY <1>3, <2>2, <3>2, Zenon
  <2>3. CASE ~ (client.pending.code >= 200)
    BY <1>t, <1>3, <2>3, Zenon
  <2>4. QED
    BY <2>2, <2>3
<1>5. ended' = ended /\ invite' = invite /\ net' = net
  BY DEF ClientPending
<1>6. None.code = 0
  BY RequestsAndAcks
<1>7. ClientHolds'
  <2>1. CASE client.state \in {"Initial", "Trying", "Process"}
    BY <1>0, <1>1, <1>3, <1>5, <1>6, <2>1 DEF ClientHolds, Unanswered, Final
  <2>2. CASE client.state = "Finish"
    <3>1. told = <<>> /\ client.pending.code = client.response /\ client.response >= 200
      BY <1>0, <1>2, <2>2 DEF ClientHolds
    <3>2. told' = <<client.response>>
      BY <1>3, <3>1
    <3>3. QED
      BY <1>0, <1>1, <1>5, <2>2, <3>2 DEF ClientHolds
  <2>3. CASE client.state = "Cleared"
    <3>1. CASE Unanswered /\ client.response = 500
      BY <1>1, <1>3, <1>5, <1>6, <2>3, <3>1 DEF ClientHolds, Unanswered, Final
    <3>2. CASE ~ (Unanswered /\ client.response = 500)
      <4>1. told = <<>> /\ client.pending.code = client.response /\ client.response >= 200
        BY <1>0, <1>2, <2>3, <3>2 DEF ClientHolds
      <4>2. told' = <<client.response>>
        BY <1>3, <4>1
      <4>3. QED
        BY <1>0, <1>1, <1>5, <2>3, <3>2, <4>2 DEF ClientHolds
    <3>3. QED
      BY <3>1, <3>2
  <2>4. client.state # "Invalid" /\ client.state # "Retrans"
    BY <1>0, <1>2 DEF ClientHolds
  <2>5. QED
    BY <1>0, <1>00, <2>1, <2>2, <2>3, <2>4 DEF Transaction, StateNames
<1>8. ClientSide'
  BY <1>0, <1>1, <1>4, <1>5, <1>7 DEF ClientSide
<1>9. AcksAreSent'
  BY <1>1, <1>5 DEF SInv, AcksAreSent, WasSent
<1>10. QED
  BY <1>5, <1>8, <1>9, ClientMoves DEF ClientPending, ServerVars, SInv

\* What waits to be sent is a request, an ACK, or an answer told once more.
LEMMA ClientTransmitKeeps == SInv /\ ClientTransmit => SInv'
<1> SUFFICES ASSUME SInv, ClientTransmit PROVE SInv'
  OBVIOUS
<1> DEFINE t == [client EXCEPT !.transmit = FALSE]
           m == IF client.last = None THEN Request ELSE client.last
<1>0. ClientSide /\ ClientHolds
  BY DEF SInv, ClientSide
<1>00. client \in Transaction
  BY <1>0 DEF ClientSide
<1>t. told \in Seq(200 .. 699)
  BY <1>0 DEF ClientSide
<1>1. /\ t \in Transaction /\ t.pending = client.pending /\ t.transmit = FALSE
      /\ t.state = client.state /\ t.response = client.response
      /\ t.last = client.last /\ t.timeouts = client.timeouts
  BY <1>00, Set_transmit
<1>2. m \in Message /\ m.code \in 0 .. 699
  <2>1. client.last \in Message \cup {None} /\ Request \in Message
    BY <1>00, RequestIs DEF Transaction
  <2>2. m \in Message
    BY <2>1
  <2>3. QED
    BY <2>2 DEF Message
<1>3. client.pending = None /\ client.transmit # FALSE /\ None.code = 0
  BY RequestsAndAcks DEF ClientTransmit
<1>4. client.state # "Invalid" /\ client.state # "Retrans"
  BY <1>0, <1>3 DEF ClientHolds
<1>5. invite' = invite /\ ended' = ended /\ ServerVars' = ServerVars
  BY DEF ClientTransmit, ServerVars
<1>6. CASE m.kind = "answer"
  <2>1. client' = t /\ net' = net /\ told' = IF m.code >= 200 THEN Append(told, m.code) ELSE told
    BY <1>6 DEF ClientTransmit, Heard
  <2>2. m = client.last
    BY <1>6, RequestsAndAcks
  <2> HIDE DEF t, m
  <2>3. told' \in Seq(200 .. 699)
    <3>1. m.code >= 200 => m.code \in 200 .. 699
      BY <1>2
    <3>2. CASE m.code >= 200
      <4>1. Append(told, m.code) \in Seq(200 .. 699)
        BY <1>t, <3>1, <3>2
      <4>2. QED
        BY <2>1, <3>2, <4>1, Zenon
    <3>3. CASE ~ (m.code >= 200)
      BY <1>t, <2>1, <3>3
    <3>4. QED
      BY <3>2, <3>3
  <2>4. ClientHolds'
    <3>1. CASE \/ client.state \in {"Initial", "Trying", "Process"}
               \/ client.state = "Cleared" /\ Unanswered /\ client.response = 500
      <4>1. Unanswered
        BY <1>0, <3>1 DEF ClientHolds
      <4>2. client.last # None
        BY <1>6, <2>2, RequestsAndAcks
      <4>3. told' = told
        BY <2>1, <2>2, <4>1, <4>2 DEF Unanswered, Final
      <4>4. Unanswered'
        BY <1>1, <1>5, <2>1, <4>1, <4>3 DEF Unanswered, Final
      <4>5. QED
        BY <1>1, <2>1, <3>1, <4>4 DEF ClientHolds
    <3>2. client.state # "Finish"
      BY <1>0, <1>6, <2>2 DEF ClientHolds
    <3>3. CASE client.state = "Cleared" /\ ~ (Unanswered /\ client.response = 500)
      <4>1. /\ ~ invite /\ ended = 0 /\ client.response >= 200 /\ m.code = client.response
            /\ told = <<client.response>>
        <5>1. /\ ~ invite /\ ended = 0 /\ client.response >= 200 /\ client.last.code = client.response
              /\ \/ told = <<>> /\ client.pending.code = client.response
                 \/ told = <<client.response>>
                 \/ client.transmit = FALSE
          BY <1>0, <3>3 DEF ClientHolds
        <5>2. client.pending.code # client.response
          BY <1>3, <5>1
        <5>3. QED
          BY <1>3, <2>2, <5>1, <5>2
      <4>2. told' = <<client.response, client.response>>
        BY <2>1, <4>1, CodeTwice
      <4>3. QED
        <5>1. /\ client'.state = "Cleared" /\ client'.response = client.response
              /\ client'.last = m /\ client'.pending = None /\ client'.transmit = FALSE
          BY <1>1, <1>3, <2>1, <2>2, <3>3
        <5>2. QED
          BY <1>5, <1>6, <4>1, <4>2, <5>1 DEF ClientHolds
    <3>4. QED
      BY <1>0, <1>00, <1>4, <3>1, <3>2, <3>3 DEF Transaction, StateNames
  <2>5. ClientSide'
    BY <1>0, <1>1, <1>5, <2>1, <2>3, <2>4 DEF ClientSide
  <2>6. AcksAreSent'
    BY <1>1, <2>1 DEF SInv, AcksAreSent, WasSent
  <2>7. QED
    BY <1>5, <2>1, <2>5, <2>6, ClientMoves DEF SInv
<1>7. CASE m.kind # "answer"
  <2>1. ClientSends(m, t) /\ told' = told
    BY <1>7 DEF ClientTransmit
  <2> HIDE DEF t, m
  <2>2. net' = net \/ net' = net \cup {m}
    BY <2>1 DEF ClientSends
  <2>3. /\ client' \in Transaction /\ client'.last = client.last /\ client'.pending = None
        /\ client'.transmit = FALSE /\ client'.timeouts = client.timeouts
        /\ \/ client'.state = client.state /\ client'.response = client.response
           \/ client.state = "Trying" /\ client'.state = "Cleared" /\ client'.response = 500
    <3>1. client' = t \/ client' = TransmitFailed(t)
      BY <2>1 DEF ClientSends
    <3>2. QED
      BY <1>1, <1>3, <3>1, FailureEndsOrSilences
  <2>4. m.kind = "ack" => client.state = "Finish"
    <3>1. client.state \in {"Initial", "Trying", "Process", "Finish", "Cleared"}
      BY <1>00, <1>4 DEF Transaction, StateNames
    <3>2. CASE client.state \in {"Initial", "Trying", "Process", "Cleared"}
      <4>1. client.last = None \/ client.last.kind = "answer"
        BY <1>0, <3>2 DEF ClientHolds, Unanswered
      <4>2. QED
        BY <4>1, RequestIs DEF m
    <3>3. QED
      BY <3>1, <3>2
  <2>5. client.state = "Cleared" => Unanswered /\ client.response = 500
    <3>1. client.last.kind # "answer"
      BY <1>7, NoneIs DEF m
    <3>2. QED
      BY <1>0, <3>1 DEF ClientHolds
  <2>6. ClientHolds'
    <3>1. CASE client.state \in {"Initial", "Trying", "Process", "Cleared"}
      <4>1. Unanswered
        BY <1>0, <2>5, <3>1 DEF ClientHolds
      <4>2. Unanswered'
        BY <1>3, <1>5, <2>1, <2>3, <4>1 DEF Unanswered, Final
      <4>3. QED
        BY <2>3, <2>5, <3>1, <4>2 DEF ClientHolds
    <3>2. CASE client.state = "Finish"
      BY <1>0, <1>3, <1>5, <2>1, <2>3, <3>2 DEF ClientHolds
    <3>3. QED
      BY <1>0, <1>00, <1>4, <3>1, <3>2 DEF Transaction, StateNames
  <2>7. ClientSide'
    BY <1>0, <1>5, <2>1, <2>3, <2>6 DEF ClientSide
  <2>8. AcksAreSent'
    <3>1. client.state = "Trying" => \A k \in net : k.kind # "ack"
      BY DEF SInv, AcksAreSent
    <3>2. client.state = "Finish" => client.response >= 200
      BY <1>0 DEF ClientHolds
    <3>3. QED
      BY <2>2, <2>3, <2>4, <3>1, <3>2 DEF SInv, AcksAreSent, WasSent
  <2>9. QED
    BY <1>2, <1>5, <1>7, <2>2, <2>7, <2>8, ClientMoves DEF SInv
<1>8. QED
  BY <1>6, <1>7

\* The first request is sent, or the transaction is over.
LEMMA ClientStartKeeps == SInv /\ ClientStart => SInv'
<1> SUFFICES ASSUME SInv, ClientStart PROVE SInv'
  OBVIOUS
<1> DEFINE s == [client EXCEPT !.state = "Trying"]
           t == [s EXCEPT !.timeouts = ReqCount]
<1>1. client \in Transaction /\ client.state = "Initial" /\ Unanswered
  BY DEF SInv, ClientSide, ClientHolds, ClientStart
<1>2. "Trying" \in StateNames /\ ReqCount \in Nat /\ ReqCount > 0
  BY CountAssumption DEF StateNames
<1>3. /\ s \in Transaction /\ s.pending = client.pending /\ s.last = client.last
      /\ s.state = "Trying"
  BY <1>1, <1>2, Set_state
<1> HIDE DEF s
<1>4. /\ t \in Transaction /\ t.pending = client.pending /\ t.last = client.last
      /\ t.state = "Trying" /\ t.timeouts = ReqCount
  BY <1>2, <1>3, Set_timeouts
<1>5. ClientSends(Request, t)
  BY <1>1 DEF ClientStart, ChangeState, SetTimeout, t, s
<1> HIDE DEF t
<1>6. net' = net \/ net' = net \cup {Request}
  BY <1>5 DEF ClientSends
<1>7. /\ client' \in Transaction /\ client'.last = client.last /\ client'.pending = client.pending
      /\ client'.timeouts = ReqCount
      /\ \/ client'.state = "Trying"
         \/ client'.state = "Cleared" /\ client'.response = 500
  <2>1. client' = t \/ client' = TransmitFailed(t)
    BY <1>5 DEF ClientSends
  <2>2. QED
    BY <1>4, <2>1, FailureEndsOrSilences
<1>8. /\ invite' = invite /\ ended' = ended /\ told' = told /\ ServerVars' = ServerVars
  BY DEF ClientStart, ServerVars
<1>9. Unanswered'
  BY <1>1, <1>7, <1>8 DEF Unanswered, Final
<1>10. ClientHolds'
  BY <1>7, <1>9 DEF ClientHolds
<1>11. ClientSide'
  BY <1>2, <1>7, <1>8, <1>10 DEF SInv, ClientSide
<1>12. AcksAreSent'
  <2>1. \A k \in net : k.kind # "ack"
    BY <1>1 DEF SInv, AcksAreSent
  <2>2. \A k \in net' : k.kind # "ack"
    BY <1>6, <2>1, RequestsAndAcks
  <2>3. QED
    BY <1>7, <2>2 DEF AcksAreSent
<1>13. QED
  BY <1>6, <1>8, <1>11, <1>12, ClientMoves, RequestsAndAcks DEF SInv

\* A transaction that is over keeps what it holds.
LEMMA OverIs ==
  ASSUME NEW t \in Transaction
  PROVE  LET u == Over(t)
         IN  /\ u \in Transaction /\ u.state = "Invalid" /\ u.pending = t.pending
             /\ u.transmit = t.transmit /\ u.last = t.last /\ u.response = t.response
<1> DEFINE v == [t EXCEPT !.timeouts = 0]
           u == [v EXCEPT !.state = "Invalid"]
<1>1. /\ v \in Transaction /\ v.pending = t.pending
      /\ v.transmit = t.transmit /\ v.last = t.last /\ v.response = t.response
  BY DEF Transaction
<1> HIDE DEF v
<1>2. "Invalid" \in StateNames
  BY DEF StateNames
<1>3. /\ u \in Transaction /\ u.state = "Invalid" /\ u.pending = v.pending
      /\ u.transmit = v.transmit /\ u.last = v.last /\ u.response = v.response
  BY <1>1, <1>2, Set_state
<1>4. Over(t) = u
  BY DEF Over, SetTimeout, u, v
<1> HIDE DEF u
<1>5. QED
  BY <1>1, <1>3, <1>4

\* The client ends with a code: the one its user was told, if any.
LEMMA ClientEndsKeeps ==
  ASSUME SInv, NEW code \in 0 .. 699, ClientEnds(code), Quiet(client),
         UNCHANGED <<net, told>>, UNCHANGED ServerVars,
         \/ client.state \in {"Trying", "Process"} /\ code = 408
         \/ client.state \in {"Finish", "Cleared"} /\ code = client.response
  PROVE  SInv'
<1> DEFINE o == Over(client)
<1>1. client \in Transaction /\ ClientHolds /\ invite \in BOOLEAN
  BY DEF SInv, ClientSide
<1>2. /\ o \in Transaction /\ o.state = "Invalid" /\ o.pending = client.pending
      /\ o.transmit = client.transmit
  BY <1>1, OverIs
<1>3. client' = [o EXCEPT !.response = code] /\ ended' = code
  BY DEF ClientEnds
<1> HIDE DEF o
<1>4. /\ client' \in Transaction /\ client'.state = "Invalid" /\ client'.response = code
      /\ client'.pending = client.pending /\ client'.transmit = client.transmit
  BY <1>2, <1>3 DEF Transaction
<1>5. client.pending = None /\ client.transmit = FALSE
  BY <1>1 DEF Quiet, Transaction
<1>6. invite' = invite /\ told' = told /\ net' = net
  BY DEF ServerVars
<1>7. None.code = 0
  BY RequestsAndAcks
<1>8. \/ told = <<>> /\ code \in {408, 500}
      \/ told = <<code>>
      \/ told = <<code, code>> /\ ~ invite
  <2>1. CASE client.state \in {"Trying", "Process"}
    BY <1>1, <2>1 DEF ClientHolds, Unanswered
  <2>2. CASE client.state = "Finish"
    BY <1>1, <1>5, <1>7, <2>2 DEF ClientHolds
  <2>3. CASE client.state = "Cleared" /\ Unanswered /\ client.response = 500
    BY <2>3 DEF Unanswered
  <2>4. CASE client.state = "Cleared" /\ ~ (Unanswered /\ client.response = 500)
    BY <1>1, <1>5, <1>7, <2>4 DEF ClientHolds
  <2>5. QED
    BY <2>1, <2>2, <2>3, <2>4
<1>9. ClientHolds'
  BY <1>3, <1>4, <1>5, <1>6, <1>8 DEF ClientHolds
<1>10. ClientSide'
  BY <1>3, <1>4, <1>6, <1>9 DEF SInv, ClientSide
<1>11. AcksAreSent'
  <2>1. client.state = "Finish" => code = client.response
    OBVIOUS
  <2>2. client.state # "Finish" => \A k \in net : k.kind # "ack"
    BY DEF SInv, AcksAreSent
  <2>3. QED
    BY <1>4, <1>6, <2>1, <2>2 DEF SInv, AcksAreSent, WasSent
<1>12. QED
  BY <1>6, <1>10, <1>11, ClientMoves DEF SInv

\* The timer sends the request again or ends the transaction, as Cleared does.
LEMMA ClientTimerKeeps == SInv /\ (ClientTimer \/ ClientCleared) => SInv'
<1> SUFFICES ASSUME SInv, ClientTimer \/ ClientCleared PROVE SInv'
  OBVIOUS
<1>1. client \in Transaction /\ ClientHolds
  BY DEF SInv, ClientSide
<1>2. client.response \in 0 .. 699 /\ client.timeouts \in Nat
  BY <1>1 DEF Transaction
<1>3. UNCHANGED <<net, told>> /\ UNCHANGED ServerVars /\ Quiet(client)
  BY DEF ClientTimer, ClientCleared, ServerVars
<1>4. CASE \/ client.state \in {"Trying", "Process"} /\ ClientEnds(408)
           \/ client.state \in {"Finish", "Cleared"} /\ ClientEnds(client.response)
  <2>1. CASE client.state \in {"Trying", "Process"} /\ ClientEnds(408)
    <3>1. 408 \in 0 .. 699
      OBVIOUS
    <3>2. QED
      BY <1>3, <2>1, <3>1, ClientEndsKeeps
  <2>2. CASE client.state \in {"Finish", "Cleared"} /\ ClientEnds(client.response)
    BY <1>2, <1>3, <2>2, ClientEndsKeeps
  <2>3. QED
    BY <1>4, <2>1, <2>2
<1>5. CASE /\ client.state = "Trying" /\ client.timeouts > 1
           /\ client' = SetTimeout(SetTransmit(client), client.timeouts - 1)
           /\ UNCHANGED ended
  <2> DEFINE s == [client EXCEPT !.transmit = TRUE]
             n == client.timeouts - 1
  <2>1. n \in Nat /\ n > 0
    BY <1>2, <1>5
  <2>2. /\ s \in Transaction /\ s.state = client.state /\ s.last = client.last
        /\ s.pending = client.pending /\ s.response = client.response
    BY <1>1, Set_transmit
  <2>3. client' = [s EXCEPT !.timeouts = n]
    BY <1>5 DEF SetTimeout, SetTransmit
  <2> HIDE DEF s, n
  <2>4. /\ client' \in Transaction /\ client'.state = "Trying" /\ client'.last = client.last
        /\ client'.pending = client.pending /\ client'.timeouts > 0
        /\ client'.response = client.response
    BY <1>5, <2>1, <2>2, <2>3 DEF Transaction
  <2>5. invite' = invite /\ told' = told /\ net' = net /\ ended' = ended
    BY <1>3, <1>5 DEF ServerVars
  <2>6. Unanswered
    BY <1>1, <1>5 DEF ClientHolds
  <2>7. Unanswered'
    BY <2>4, <2>5, <2>6 DEF Unanswered, Final
  <2>8. ClientHolds'
    BY <2>4, <2>7 DEF ClientHolds
  <2>9. ClientSide'
    BY <2>4, <2>5, <2>8 DEF SInv, ClientSide
  <2>10. AcksAreSent'
    BY <1>5, <2>4, <2>5 DEF SInv, AcksAreSent
  <2>11. QED
    BY <1>3, <2>5, <2>9, <2>10, ClientMoves DEF SInv
<1>6. QED
  BY <1>4, <1>5 DEF ClientTimer, ClientCleared

(***************************************************************************)
(* What an answer does to a client transaction.                            *)
(***************************************************************************)

\* The tag of an answer is taken over and nothing else.
LEMMA TaggedIs ==
  ASSUME NEW t \in Transaction, NEW m \in Message
  PROVE  LET u == Tagged(t, m)
         IN  /\ u \in Transaction /\ u.state = t.state /\ u.pending = t.pending
             /\ u.transmit = t.transmit /\ u.last = t.last /\ u.response = t.response
             /\ u.timeouts = t.timeouts
<1>1. m.tag \in Nat
  BY DEF Message
<1>2. CASE m.tag = 0
  BY <1>2 DEF Tagged
<1>3. CASE m.tag # 0
  <2>1. Tagged(t, m) = [t EXCEPT !.tag = m.tag]
    BY <1>3 DEF Tagged
  <2>2. QED
    BY <1>1, <2>1, Set_tag
<1>4. QED
  BY <1>2, <1>3

\* An answer that becomes the latest message gives the response code.
LEMMA LatestIs ==
  ASSUME NEW t \in Transaction, NEW m \in Message
  PROVE  LET u == SetLatest(t, m)
         IN  /\ u \in Transaction /\ u.state = t.state /\ u.pending = t.pending
             /\ u.transmit = t.transmit /\ u.last = m /\ u.timeouts = t.timeouts
             /\ u.tag = t.tag
             /\ u.response = IF m.kind = "answer" THEN m.code ELSE t.response
<1> DEFINE a == [t EXCEPT !.last = m]
           b == [a EXCEPT !.mute = FALSE]
           c == IF m.kind = "answer" THEN m.code ELSE t.response
           u == [b EXCEPT !.response = c]
<1>1. /\ a \in Transaction /\ a.state = t.state /\ a.pending = t.pending
      /\ a.transmit = t.transmit /\ a.last = m /\ a.timeouts = t.timeouts
      /\ a.tag = t.tag /\ a.response = t.response
  BY Set_last
<1> HIDE DEF a
<1>2. /\ b \in Transaction /\ b.state = a.state /\ b.pending = a.pending
      /\ b.transmit = a.transmit /\ b.last = a.last /\ b.timeouts = a.timeouts
      /\ b.tag = a.tag /\ b.response = a.response
  BY <1>1, Set_mute
<1> HIDE DEF b
<1>3. c \in 0 .. 699
  BY DEF Message, Transaction
<1>4. SetLatest(t, m) = u
  BY <1>1, <1>2 DEF SetLatest, u, c, b, a
<1> HIDE DEF c
<1>5. /\ u \in Transaction /\ u.state = b.state /\ u.pending = b.pending
      /\ u.transmit = b.transmit /\ u.last = b.last /\ u.timeouts = b.timeouts
      /\ u.tag = b.tag /\ u.response = c
  BY <1>2, <1>3 DEF Transaction
<1> HIDE DEF u
<1>6. QED
  BY <1>1, <1>2, <1>4, <1>5 DEF c

\* A provisional answer is to be told, unless another one is.
LEMMA InformedIs ==
  ASSUME NEW t \in Transaction, NEW m \in Message, m.kind = "answer"
  PROVE  LET u == Informed(t, m)
         IN  /\ u \in Transaction /\ u.state = t.state /\ u.last = m
             /\ u.transmit = t.transmit /\ u.response = m.code
             /\ u.pending = IF t.pending = None THEN m ELSE t.pending
             /\ u.timeouts = IF invite THEN 1 ELSE t.timeouts
<1> DEFINE u == SetLatest(t, m)
           v == IF invite THEN SetTimeout(u, 1) ELSE u
           w == IF v.pending = None THEN [v EXCEPT !.pending = m] ELSE v
<1>1. /\ u \in Transaction /\ u.state = t.state /\ u.pending = t.pending
      /\ u.transmit = t.transmit /\ u.last = m /\ u.timeouts = t.timeouts
      /\ u.response = m.code
  BY LatestIs
<1>2. Informed(t, m) = w
  BY DEF Informed, SetPending
<1> HIDE DEF u
<1>3. /\ v \in Transaction /\ v.state = t.state /\ v.pending = t.pending
      /\ v.transmit = t.transmit /\ v.last = m /\ v.response = m.code
      /\ v.timeouts = IF invite THEN 1 ELSE t.timeouts
  <2>1. CASE invite
    <3>1. v = [u EXCEPT !.timeouts = 1]
      BY <2>1 DEF SetTimeout
    <3> HIDE DEF v
    <3>2. /\ v \in Transaction /\ v.state = u.state /\ v.pending = u.pending
          /\ v.transmit = u.transmit /\ v.last = u.last /\ v.response = u.response
          /\ v.timeouts = 1
      BY <1>1, <3>1 DEF Transaction
    <3>3. QED
      BY <1>1, <2>1, <3>2
  <2>2. CASE ~ invite
    BY <1>1, <2>2
  <2>3. QED
    BY <2>1, <2>2
<1> HIDE DEF v
<1>4. CASE v.pending = None
  <2>1. w = [v EXCEPT !.pending = m] /\ m \in Message \cup {None}
    BY <1>4
  <2> HIDE DEF w
  <2>2. /\ w \in Transaction /\ w.state = v.state /\ w.pending = m
        /\ w.transmit = v.transmit /\ w.last = v.last /\ w.response = v.response
        /\ w.timeouts = v.timeouts
    BY <1>3, <2>1, Set_pending
  <2>3. QED
    BY <1>2, <1>3, <1>4, <2>2
<1>5. CASE v.pending # None
  BY <1>2, <1>3, <1>5
<1>6. QED
  BY <1>4, <1>5

\* A final answer is to be told; that of an INVITE gets its ACK.
LEMMA AnsweredIs ==
  ASSUME NEW t \in Transaction, NEW m \in Message, m.kind = "answer", t.state # "Invalid"
  PROVE  LET u == Answered(t, m)
         IN  /\ u \in Transaction /\ u.pending = m /\ u.response = m.code
             /\ invite => u.state = "Finish" /\ u.last.kind = "ack" /\ u.timeouts = 1
             /\ ~ invite => u.state = "Cleared" /\ u.last = m
<1> DEFINE l == SetLatest(t, m)
           p == [l EXCEPT !.pending = m]
           k == Ack(m.code, p.tag)
<1>1. /\ l \in Transaction /\ l.state = t.state /\ l.last = m /\ l.response = m.code
  BY LatestIs
<1> HIDE DEF l
<1>2. /\ p \in Transaction /\ p.state = t.state /\ p.last = m /\ p.response = m.code
      /\ p.pending = m
  <2>1. m \in Message \cup {None}
    OBVIOUS
  <2>2. QED
    BY <1>1, <2>1, Set_pending
<1>3. SetPending(SetLatest(t, m), m, TRUE) = p
  BY DEF SetPending, p, l
<1> HIDE DEF p
<1>4. k \in Message /\ k.kind = "ack"
  <2>1. m.code \in 0 .. 699 /\ p.tag \in Nat
    BY <1>2 DEF Message, Transaction
  <2>2. QED
    BY <2>1 DEF Ack, Message
<1>5. CASE invite
  <2> DEFINE q == SetLatest(p, k)
             r == [q EXCEPT !.transmit = TRUE]
             s == [r EXCEPT !.state = "Finish"]
             u == [s EXCEPT !.timeouts = 1]
  <2>1. /\ q \in Transaction /\ q.state = t.state /\ q.last = k /\ q.response = m.code
        /\ q.pending = m
    BY <1>2, <1>4, LatestIs
  <2> HIDE DEF q, k
  <2>2. /\ r \in Transaction /\ r.state = t.state /\ r.last = k /\ r.response = m.code
        /\ r.pending = m
    BY <2>1, Set_transmit
  <2>3. Answered(t, m) = u
    BY <1>3, <1>5, <2>2 DEF Answered, SetTransmit, ChangeState, SetTimeout, q, k
  <2> HIDE DEF r
  <2>4. /\ s \in Transaction /\ s.state = "Finish" /\ s.last = k /\ s.response = m.code
        /\ s.pending = m
    <3>1. "Finish" \in StateNames
      BY DEF StateNames
    <3>2. QED
      BY <2>2, <3>1, Set_state
  <2> HIDE DEF s
  <2>5. /\ u \in Transaction /\ u.state = "Finish" /\ u.last = k /\ u.response = m.code
        /\ u.pending = m /\ u.timeouts = 1
    BY <2>4 DEF Transaction
  <2> HIDE DEF u
  <2>6. QED
    BY <1>4, <1>5, <2>3, <2>5
<1>6. CASE ~ invite
  <2> DEFINE r == [p EXCEPT !.timeouts = 0]
             u == [r EXCEPT !.state = "Cleared"]
  <2>1. /\ r \in Transaction /\ r.state = t.state /\ r.last = m /\ r.response = m.code
        /\ r.pending = m
    BY <1>2 DEF Transaction
  <2>2. Answered(t, m) = u
    BY <1>3, <1>6, <2>1 DEF Answered, ChangeState, SetTimeout
  <2> HIDE DEF r
  <2>3. /\ u \in Transaction /\ u.state = "Cleared" /\ u.last = m /\ u.response = m.code
        /\ u.pending = m
    <3>1. "Cleared" \in StateNames
      BY DEF StateNames
    <3>2. QED
      BY <2>1, <3>1, Set_state
  <2> HIDE DEF u
  <2>4. QED
    BY <1>6, <2>2, <2>3
<1>7. QED
  BY <1>5, <1>6

\* The first answer of any kind puts a trying transaction into Process.
LEMMA ProcessIs ==
  ASSUME NEW t \in Transaction, NEW m \in Message, t.state \in {"Trying", "Process"},
         t.timeouts > 0
  PROVE  \E u \in Transaction :
           /\ u.state = "Process" /\ u.pending = t.pending /\ u.last = t.last
           /\ u.transmit = t.transmit /\ u.timeouts > 0
           /\ ProcessClient(t, m) = IF m.code >= 200 THEN Answered(u, m)
                                    ELSE IF m.code > 100 THEN Informed(u, m) ELSE u
<1>1. CASE t.state = "Trying"
  <2> DEFINE a == [t EXCEPT !.state = "Process"]
             b == [a EXCEPT !.timeouts = 1]
             u == [b EXCEPT !.response = m.code]
  <2>1. /\ a \in Transaction /\ a.state = "Process" /\ a.pending = t.pending
        /\ a.last = t.last /\ a.transmit = t.transmit
    <3>1. "Process" \in StateNames
      BY DEF StateNames
    <3>2. QED
      BY <3>1, Set_state
  <2>2. ProcessClient(t, m) = IF u.state = "Process" /\ m.code >= 200 THEN Answered(u, m)
                              ELSE IF u.state = "Process" /\ m.code > 100 THEN Informed(u, m)
                              ELSE IF u.state = "Finish" /\ m.code >= 200 THEN AnsweredAgain(u, m)
                              ELSE u
    BY <1>1 DEF ProcessClient, ChangeState, SetTimeout
  <2> HIDE DEF a
  <2>3. /\ b \in Transaction /\ b.state = "Process" /\ b.pending = t.pending
        /\ b.last = t.last /\ b.transmit = t.transmit /\ b.timeouts = 1
    BY <2>1 DEF Transaction
  <2> HIDE DEF b
  <2>4. /\ u \in Transaction /\ u.state = "Process" /\ u.pending = t.pending
        /\ u.last = t.last /\ u.transmit = t.transmit /\ u.timeouts = 1
    <3>1. m.code \in 0 .. 699
      BY DEF Message
    <3>2. QED
      BY <2>3, <3>1 DEF Transaction
  <2> HIDE DEF u
  <2>5. QED
    BY <2>2, <2>4
<1>2. CASE t.state = "Process"
  BY <1>2 DEF ProcessClient
<1>3. QED
  BY <1>1, <1>2

\* An answer is the client's the first time it is final, and the ACK goes to a
\* server that sent it.
LEMMA ClientReceivesKeeps == SInv /\ ClientReceives => SInv'
<1> SUFFICES ASSUME SInv, NEW m \in net, m.kind = "answer", client.state # "Invalid",
                    client' = ProcessClient(Tagged(client, m), m),
                    UNCHANGED <<invite, net, server, births, user, progress, told, ended,
                                acked, late>>
             PROVE  SInv'
  BY DEF ClientReceives
<1> DEFINE t == Tagged(client, m)
<1>1. m \in Message /\ client \in Transaction
  BY DEF SInv, ClientSide
<1>2. /\ t \in Transaction /\ t.state = client.state /\ t.pending = client.pending
      /\ t.transmit = client.transmit /\ t.last = client.last /\ t.response = client.response
      /\ t.timeouts = client.timeouts
  BY <1>1, TaggedIs
<1>3. client' = ProcessClient(t, m)
  OBVIOUS
<1> HIDE DEF t
<1>4. /\ invite \in BOOLEAN /\ ClientHolds
      /\ client.state \in {"Trying", "Process", "Finish"} => client.timeouts > 0
      /\ told \in Seq(200 .. 699) /\ ended \in 0 .. 699
  BY DEF SInv, ClientSide
<1>5. UNCHANGED <<invite, net, told, ended>> /\ UNCHANGED ServerVars
  BY DEF ServerVars
<1>6. SUFFICES /\ client' \in Transaction
               /\ client'.state \in {"Trying", "Process", "Finish"} => client'.timeouts > 0
               /\ ClientHolds' /\ AcksAreSent'
  <2>1. ClientSide'
    BY <1>4, <1>5, <1>6 DEF ClientSide
  <2>2. QED
    BY <1>5, <1>6, <2>1, ClientMoves DEF SInv
<1>7. CASE client.state \in {"Trying", "Process"}
  <2>1. PICK u \in Transaction :
           /\ u.state = "Process" /\ u.pending = t.pending /\ u.last = t.last
           /\ u.transmit = t.transmit /\ u.timeouts > 0
           /\ ProcessClient(t, m) = IF m.code >= 200 THEN Answered(u, m)
                                    ELSE IF m.code > 100 THEN Informed(u, m) ELSE u
    BY <1>1, <1>2, <1>4, <1>7, ProcessIs
  <2>2. Unanswered
    BY <1>4, <1>7 DEF ClientHolds
  <2>3. \A k \in net : k.kind # "ack"
    BY <1>7 DEF SInv, AcksAreSent
  <2>4. CASE m.code >= 200
    <3>1. client' = Answered(u, m)
      BY <1>3, <2>1, <2>4
    <3>2. /\ client' \in Transaction /\ client'.pending = m /\ client'.response = m.code
          /\ invite => client'.state = "Finish" /\ client'.last.kind = "ack" /\ client'.timeouts = 1
          /\ ~ invite => client'.state = "Cleared" /\ client'.last = m
      BY <1>1, <2>1, <3>1, AnsweredIs
    <3>3. told' = <<>> /\ ended' = 0
      BY <1>5, <2>2 DEF Unanswered
    <3>4. CASE invite
      <4>1. ClientHolds'
        BY <1>5, <2>4, <3>2, <3>3, <3>4 DEF ClientHolds
      <4>2. AcksAreSent'
        BY <1>5, <2>3, <3>2, <3>4 DEF AcksAreSent, WasSent
      <4>3. QED
        BY <3>2, <3>4, <4>1, <4>2
    <3>5. CASE ~ invite
      <4>1. ClientHolds'
        BY <1>5, <2>4, <3>2, <3>3, <3>5 DEF ClientHolds
      <4>2. AcksAreSent'
        BY <1>5, <2>3, <3>2, <3>5 DEF AcksAreSent, WasSent
      <4>3. QED
        BY <3>2, <3>5, <4>1, <4>2
    <3>6. QED
      BY <3>4, <3>5
  <2>5. CASE ~ (m.code >= 200)
    <3>1. /\ client' \in Transaction /\ client'.state = "Process" /\ client'.timeouts > 0
          /\ client'.pending \in {m, client.pending} /\ client'.last \in {m, client.last}
      <4>1. CASE m.code > 100
        BY <1>1, <1>2, <1>3, <2>1, <2>5, <4>1, InformedIs
      <4>2. CASE ~ (m.code > 100)
        BY <1>2, <1>3, <2>1, <2>5, <4>2
      <4>3. QED
        BY <4>1, <4>2
    <3>2. Unanswered'
      BY <1>5, <2>2, <2>5, <3>1 DEF Unanswered, Final
    <3>3. ClientHolds'
      BY <3>1, <3>2 DEF ClientHolds
    <3>4. AcksAreSent'
      BY <1>5, <2>3, <3>1 DEF AcksAreSent
    <3>5. QED
      BY <3>1, <3>3, <3>4
  <2>6. QED
    BY <2>4, <2>5
<1>8. CASE client.state \notin {"Trying", "Process"}
  <2>1. client' = t \/ (client.state = "Finish" /\ client' = [t EXCEPT !.transmit = TRUE])
    BY <1>2, <1>3, <1>8 DEF ProcessClient, AnsweredAgain, SetTransmit
  <2>2. /\ client' \in Transaction /\ client'.state = client.state
        /\ client'.pending = client.pending /\ client'.last = client.last
        /\ client'.response = client.response /\ client'.timeouts = client.timeouts
        /\ client.state # "Finish" => client'.transmit = client.transmit
    <3>1. CASE client' = t
      BY <1>2, <3>1
    <3>2. CASE client.state = "Finish" /\ client' = [t EXCEPT !.transmit = TRUE]
      <4> DEFINE u == [t EXCEPT !.transmit = TRUE]
      <4>1. /\ u \in Transaction /\ u.state = t.state /\ u.pending = t.pending
            /\ u.last = t.last /\ u.response = t.response /\ u.timeouts = t.timeouts
        BY <1>2, TransmitIs
      <4> HIDE DEF u
      <4>2. QED
        BY <1>2, <3>2, <4>1 DEF u
    <3>3. QED
      BY <2>1, <3>1, <3>2
  <2>3. ClientHolds'
    <3>1. CASE client.state = "Initial"
      BY <1>4, <1>5, <2>2, <3>1 DEF ClientHolds, Unanswered, Final
    <3>2. CASE client.state = "Finish"
      BY <1>4, <1>5, <2>2, <3>2 DEF ClientHolds
    <3>3. CASE client.state = "Cleared"
      BY <1>4, <1>5, <2>2, <3>3 DEF ClientHolds, Unanswered, Final
    <3>4. QED
      <4>1. client.state \in {"Initial", "Finish", "Cleared"}
        <5>1. client.state \in StateNames
          BY <1>1 DEF Transaction
        <5>2. QED
          BY <1>4, <1>8, <5>1 DEF StateNames, ClientHolds
      <4>2. QED
        BY <3>1, <3>2, <3>3, <4>1
  <2>4. AcksAreSent'
    BY <1>5, <2>2 DEF SInv, AcksAreSent, WasSent
  <2>5. QED
    BY <1>4, <2>2, <2>3, <2>4
<1>9. QED
  BY <1>7, <1>8

(***************************************************************************)
(* Steps of the server.                                                    *)
(***************************************************************************)

\* The state that a final answer leads to.
Next200 == IF invite THEN "Retrans" ELSE "Finish"

\* setResponse gives the latest message and the code; a final one starts the
\* timer unless the transaction is past that.
LEMMA ResponseIs ==
  ASSUME NEW t \in Transaction, NEW c, c \in 100 .. 699, births \in Nat
  PROVE  LET u == SetResponse(t, c)
         IN  /\ u \in Transaction /\ u.last \in Message /\ u.last.kind = "answer"
             /\ u.last.code = c /\ u.response = c /\ u.pending = t.pending
             /\ c < 200 => u.state = t.state
             /\ c < 200 => u.timeouts = IF c > 100 THEN 1 ELSE t.timeouts
             /\ c >= 200 /\ t.state \in {"Invalid", Next200} =>
                  u.state = t.state /\ u.timeouts = t.timeouts
             /\ c >= 200 /\ t.state \notin {"Invalid", Next200} =>
                  u.state = Next200 /\ u.timeouts > 0
<1> DEFINE g == IF c > 100 THEN births ELSE t.tag
           a == [t EXCEPT !.tag = g]
           b == SetLatest(a, Answer(c, g))
           u == [b EXCEPT !.transmit = TRUE]
<1>1. g \in Nat /\ c \in 0 .. 699
  BY DEF Transaction
<1> DEFINE m == Answer(c, g)
<1>2. m \in Message /\ m.kind = "answer" /\ m.code = c
  BY <1>1 DEF Answer, Message
<1>3. /\ a \in Transaction /\ a.state = t.state /\ a.pending = t.pending
      /\ a.timeouts = t.timeouts
  BY <1>1, Set_tag
<1> HIDE DEF a, g, m
<1>4. /\ b \in Transaction /\ b.state = t.state /\ b.pending = t.pending
      /\ b.timeouts = t.timeouts /\ b.last = m /\ b.response = c
  BY <1>2, <1>3, LatestIs DEF m
<1> HIDE DEF b
<1>5. /\ u \in Transaction /\ u.state = t.state /\ u.pending = t.pending
      /\ u.timeouts = t.timeouts /\ u.last = m /\ u.response = c
  BY <1>4, TransmitIs
<1>6. SetResponse(t, c) =
        IF c >= 200
        THEN IF t.state \in {"Invalid", Next200} THEN u
             ELSE SetTimeout(ChangeState(u, Next200), IF invite THEN RspCount ELSE 1)
        ELSE IF c > 100 THEN SetTimeout(u, 1) ELSE u
  BY DEF SetResponse, Next200, SetTransmit, u, b, a, g, m
<1> HIDE DEF u
<1>7. CASE c < 200
  <2>1. CASE c > 100
    <3> DEFINE v == [u EXCEPT !.timeouts = 1]
    <3>1. SetResponse(t, c) = v
      BY <1>6, <1>7, <2>1 DEF SetTimeout
    <3>2. /\ v \in Transaction /\ v.state = u.state /\ v.pending = u.pending
          /\ v.timeouts = 1 /\ v.last = u.last /\ v.response = u.response
      BY <1>5 DEF Transaction
    <3> HIDE DEF v
    <3>3. QED
      BY <1>2, <1>5, <1>7, <2>1, <3>1, <3>2
  <2>2. CASE ~ (c > 100)
    BY <1>2, <1>5, <1>6, <1>7, <2>2
  <2>3. QED
    BY <2>1, <2>2
<1>8. CASE c >= 200 /\ t.state \in {"Invalid", Next200}
  <2>1. SetResponse(t, c) = u
    BY <1>6, <1>8
  <2>2. QED
    BY <1>2, <1>5, <1>8, <2>1
<1>9. CASE c >= 200 /\ t.state \notin {"Invalid", Next200}
  <2> DEFINE v == [u EXCEPT !.state = Next200]
             n == IF invite THEN RspCount ELSE 1
             w == [v EXCEPT !.timeouts = n]
  <2>1. SetResponse(t, c) = w
    BY <1>5, <1>6, <1>9 DEF ChangeState, SetTimeout
  <2>2. Next200 \in StateNames
    BY DEF Next200, StateNames
  <2>3. n \in Nat /\ n > 0
    BY CountAssumption
  <2>4. /\ v \in Transaction /\ v.state = Next200 /\ v.pending = u.pending
        /\ v.last = u.last /\ v.response = u.response
    BY <1>5, <2>2, Set_state
  <2> HIDE DEF v, n
  <2>5. /\ w \in Transaction /\ w.state = Next200 /\ w.pending = u.pending
        /\ w.last = u.last /\ w.response = u.response /\ w.timeouts = n
    BY <2>3, <2>4 DEF Transaction
  <2> HIDE DEF w
  <2>6. QED
    BY <1>2, <1>5, <1>9, <2>1, <2>3, <2>5
<1>10. c < 200 \/ c >= 200
  OBVIOUS
<1>11. QED
  BY <1>7, <1>8, <1>9, <1>10

\* Whether sending succeeds or fails, the transaction is the one to be.
LEMMA SendsIs ==
  ASSUME NEW m, NEW t \in Transaction, ServerSends(m, t)
  PROVE  /\ net' = net \/ net' = net \cup {m}
         /\ server' \in Transaction /\ server'.state = t.state /\ server'.last = t.last
         /\ server'.transmit = t.transmit /\ server'.pending = t.pending
         /\ server'.timeouts = t.timeouts /\ server'.response = t.response
<1>1. CASE server' = t /\ net' = IF t.mute THEN net ELSE net \cup {m}
  BY <1>1
<1>2. CASE /\ server' = [t EXCEPT !.mute = t.state \notin {"Invalid", "Finish", "Cleared"}]
           /\ UNCHANGED net
  <2> DEFINE b == t.state \notin {"Invalid", "Finish", "Cleared"}
             u == [t EXCEPT !.mute = b]
  <2>1. b \in BOOLEAN
    OBVIOUS
  <2>2. server' = u
    BY <1>2
  <2> HIDE DEF b
  <2>3. /\ u \in Transaction /\ u.state = t.state /\ u.last = t.last
        /\ u.transmit = t.transmit /\ u.pending = t.pending
        /\ u.timeouts = t.timeouts /\ u.response = t.response
    BY <2>1, Set_mute
  <2> HIDE DEF u
  <2>4. QED
    BY <1>2, <2>2, <2>3
<1>3. QED
  BY <1>1, <1>2 DEF ServerSends

\* The user of the server gets its ACK.
LEMMA ServerPendingKeeps == SInv /\ ServerPending => SInv'
<1> SUFFICES ASSUME SInv, ServerPending PROVE SInv'
  OBVIOUS
<1>1. server \in Transaction
  BY DEF SInv, ServerSide
<1>2. server' = [server EXCEPT !.pending = None]
  BY DEF ServerPending
<1>3. /\ server' \in Transaction /\ server'.state = server.state /\ server'.last = server.last
      /\ server'.transmit = server.transmit /\ server'.pending = None
      /\ server'.timeouts = server.timeouts /\ server'.response = server.response
  BY <1>1, <1>2, Set_pending
<1>4. /\ births' = births /\ user' = user /\ progress' = progress /\ acked' = acked
      /\ late' = late /\ net' = net /\ UNCHANGED ClientVars
  BY DEF ServerPending, ClientVars
<1>5. ServerHolds' /\ OneAnswerOrTimeout' /\ AckedIsOver'
  BY <1>3, <1>4 DEF SInv, ServerSide, ServerHolds, OneAnswerOrTimeout, AckedIsOver, Final
<1>6. ServerSide'
  BY <1>3, <1>4, <1>5 DEF SInv, ServerSide
<1>7. QED
  BY <1>4, <1>6, ServerMoves DEF SInv

\* What the server has to send is the answer it holds.
LEMMA LastIsSent ==
  ASSUME SInv, server.state \notin {"Invalid", "Initial"}
  PROVE  /\ server.last \in Message /\ server.last.kind = "answer"
         /\ server.last.code = server.response /\ births # 0
<1>1. server \in Transaction /\ ServerHolds /\ (births = 0 => server.state = "Invalid")
  BY DEF SInv, ServerSide, OneAnswerOrTimeout
<1>2. server.last # None
  BY <1>1 DEF ServerHolds
<1>3. server.last \in Message
  BY <1>1, <1>2 DEF Transaction
<1>4. QED
  BY <1>1, <1>2, <1>3 DEF ServerHolds

\* The answer goes out, after the ACK once at most.
LEMMA ServerTransmitKeeps == SInv /\ ServerTransmit => SInv'
<1> SUFFICES ASSUME SInv, ServerTransmit PROVE SInv'
  OBVIOUS
<1> DEFINE t == [server EXCEPT !.transmit = FALSE]
<1>1. server \in Transaction /\ ServerHolds /\ OneAnswerOrTimeout /\ AckedIsOver
  BY DEF SInv, ServerSide
<1>2. server.transmit # FALSE /\ server.state # "Invalid" /\ server.pending = None
  BY DEF ServerTransmit
<1>3. server.state # "Initial"
  BY <1>1, <1>2 DEF ServerHolds
<1>4. /\ server.last \in Message /\ server.last.kind = "answer"
      /\ server.last.code = server.response /\ births # 0
  BY <1>2, <1>3, LastIsSent
<1>5. /\ t \in Transaction /\ t.state = server.state /\ t.last = server.last
      /\ t.transmit = FALSE /\ t.pending = server.pending
      /\ t.timeouts = server.timeouts /\ t.response = server.response
  BY <1>1, Set_transmit
<1>6. ServerSends(server.last, t)
  BY DEF ServerTransmit
<1> HIDE DEF t
<1>7. /\ net' = net \/ net' = net \cup {server.last}
      /\ server' \in Transaction /\ server'.state = server.state /\ server'.last = server.last
      /\ server'.transmit = FALSE /\ server'.pending = server.pending
      /\ server'.timeouts = server.timeouts /\ server'.response = server.response
  BY <1>5, <1>6, SendsIs
<1>8. /\ births' = births /\ user' = user /\ progress' = progress /\ acked' = acked
      /\ UNCHANGED ClientVars
      /\ late' = IF acked /\ server.last.code >= 200 THEN late + 1 ELSE late
  BY DEF ServerTransmit, ClientVars
<1>9. ServerHolds'
  BY <1>1, <1>7, <1>8 DEF ServerHolds
<1>10. OneAnswerOrTimeout'
  BY <1>1, <1>2, <1>4, <1>7, <1>8 DEF OneAnswerOrTimeout, Final
<1>11. late' \in Nat /\ AckedIsOver'
  <2>1. late \in Nat
    BY DEF SInv, ServerSide
  <2>2. late' = late \/ (late' = late + 1 /\ acked /\ late = 0)
    BY <1>1, <1>2, <1>8 DEF AckedIsOver, Final
  <2>3. QED
    BY <1>1, <1>7, <1>8, <2>1, <2>2 DEF AckedIsOver
<1>12. ServerSide'
  BY <1>7, <1>8, <1>9, <1>10, <1>11 DEF SInv, ServerSide
<1>13. QED
  BY <1>4, <1>7, <1>8, <1>12, ServerMoves DEF SInv

\* The request is accepted: the server tries.
LEMMA ServerAcceptsKeeps == SInv /\ ServerAccepts => SInv'
<1> SUFFICES ASSUME SInv, ServerAccepts PROVE SInv'
  OBVIOUS
<1> DEFINE u == SetResponse(server, 100)
           v == [u EXCEPT !.state = "Trying"]
           b == invite \/ ~LazyTrying
<1>1. /\ server \in Transaction /\ server.state = "Initial" /\ births \in Nat
      /\ server.pending = None \/ server.pending.kind = "ack"
  BY BoundsAssumption DEF SInv, ServerSide, ServerAccepts
<1>2. /\ u \in Transaction /\ u.last \in Message /\ u.last.kind = "answer"
      /\ u.last.code = 100 /\ u.response = 100 /\ u.pending = server.pending
      /\ u.state = "Initial"
  <2> HIDE DEF u
  <2>1. ASSUME NEW c, c \in 100 .. 699, c = 100, u = SetResponse(server, c)
        PROVE  /\ u \in Transaction /\ u.last \in Message /\ u.last.kind = "answer"
               /\ u.last.code = c /\ u.response = c /\ u.pending = server.pending
               /\ u.state = "Initial"
    <3>1. c < 200
      BY <2>1
    <3>2. QED
      BY <1>1, <2>1, <3>1, ResponseIs
  <2>2. 100 \in 100 .. 699 /\ u = SetResponse(server, 100)
    BY DEF u
  <2>3. QED
    BY <2>1, <2>2
<1>3. server' = [v EXCEPT !.transmit = b]
  BY <1>2 DEF ServerAccepts, ChangeState
<1> HIDE DEF u
<1>4. /\ v \in Transaction /\ v.last = u.last /\ v.response = u.response
      /\ v.pending = u.pending /\ v.state = "Trying"
  <2>1. "Trying" \in StateNames
    BY DEF StateNames
  <2>2. QED
    BY <1>2, <2>1, Set_state
<1>5. b \in BOOLEAN
  OBVIOUS
<1> HIDE DEF v, b
<1>6. /\ server' \in Transaction /\ server'.last = v.last /\ server'.response = v.response
      /\ server'.pending = v.pending /\ server'.state = "Trying"
  BY <1>3, <1>4, <1>5, Set_transmit
<1>7. /\ births' = births /\ user' = user /\ progress' = progress /\ acked' = acked
      /\ late' = late /\ net' = net /\ UNCHANGED ClientVars
  BY DEF ServerAccepts, ClientVars
<1>8. /\ user = "none" /\ acked = FALSE /\ late = 0 /\ OneAnswerOrTimeout
  BY <1>1 DEF SInv, ServerSide, ServerHolds, AckedIsOver
<1>9. ServerHolds'
  <2>1. server'.last # None /\ server'.last.code = server'.response
    BY <1>2, <1>4, <1>6, RequestsAndAcks
  <2>2. QED
    BY <1>2, <1>4, <1>6, <2>1 DEF ServerHolds
<1>10. OneAnswerOrTimeout'
  BY <1>1, <1>2, <1>4, <1>6, <1>7, <1>8 DEF OneAnswerOrTimeout, Final
<1>11. AckedIsOver'
  BY <1>7, <1>8 DEF AckedIsOver
<1>12. ServerSide'
  BY <1>1, <1>2, <1>4, <1>6, <1>7, <1>9, <1>10, <1>11 DEF SInv, ServerSide
<1>13. QED
  BY <1>7, <1>12, ServerMoves DEF SInv

\* The request is refused and forgotten.
LEMMA ServerRejectsKeeps == SInv /\ ServerRejects => SInv'
<1> SUFFICES ASSUME SInv, ServerRejects PROVE SInv'
  OBVIOUS
<1> DEFINE u == SetResponse(server, 501)
           o == Over(u)
           t == [o EXCEPT !.transmit = FALSE]
<1>1. /\ server \in Transaction /\ server.state = "Initial" /\ births \in Nat
      /\ server.pending = None \/ server.pending.kind = "ack"
  BY BoundsAssumption DEF SInv, ServerSide, ServerRejects
<1>2. /\ u \in Transaction /\ u.last \in Message /\ u.last.kind = "answer"
      /\ u.last.code = 501 /\ u.pending = server.pending
  <2> HIDE DEF u
  <2>1. ASSUME NEW c, c \in 100 .. 699, c = 501, u = SetResponse(server, c)
        PROVE  /\ u \in Transaction /\ u.last \in Message /\ u.last.kind = "answer"
               /\ u.last.code = c /\ u.pending = server.pending
    BY <1>1, <2>1, ResponseIs
  <2>2. 501 \in 100 .. 699 /\ u = SetResponse(server, 501)
    BY DEF u
  <2>3. QED
    BY <2>1, <2>2
<1>3. ServerSends(u.last, t)
  BY DEF ServerRejects
<1> HIDE DEF u
<1>4. /\ o \in Transaction /\ o.state = "Invalid" /\ o.pending = u.pending /\ o.last = u.last
  BY <1>2, OverIs
<1> HIDE DEF o
<1>5. /\ t \in Transaction /\ t.state = "Invalid" /\ t.pending = u.pending /\ t.last = u.last
      /\ t.transmit = FALSE
  BY <1>4, Set_transmit
<1> HIDE DEF t
<1>6. /\ net' = net \/ net' = net \cup {u.last}
      /\ server' \in Transaction /\ server'.state = "Invalid" /\ server'.last = u.last
      /\ server'.transmit = FALSE /\ server'.pending = server.pending
  BY <1>2, <1>3, <1>5, SendsIs
<1>7. /\ births' = births /\ user' = user /\ progress' = progress /\ acked' = acked
      /\ late' = late /\ UNCHANGED ClientVars
  BY DEF ServerRejects, ClientVars
<1>8. /\ user = "none" /\ acked = FALSE /\ late = 0 /\ births # 0
  BY <1>1 DEF SInv, ServerSide, ServerHolds, AckedIsOver, OneAnswerOrTimeout
<1>9. ServerHolds'
  BY <1>2, <1>6, NoneIs DEF ServerHolds
<1>10. OneAnswerOrTimeout'
  BY <1>6, <1>7, <1>8 DEF OneAnswerOrTimeout
<1>11. AckedIsOver'
  BY <1>7, <1>8 DEF AckedIsOver
<1>12. ServerSide'
  BY <1>1, <1>6, <1>7, <1>9, <1>10, <1>11 DEF SInv, ServerSide
<1>13. QED
  BY <1>2, <1>6, <1>7, <1>12, ServerMoves DEF SInv

\* The user is asked by a transaction that has no final answer of a user.
LEMMA ServerAsksKeeps == SInv /\ ServerAsks => SInv'
<1> SUFFICES ASSUME SInv, ServerAsks PROVE SInv'
  OBVIOUS
<1> DEFINE s == [server EXCEPT !.state = "Process"]
<1>1. /\ server \in Transaction /\ server.state = "Trying"
      /\ server.pending = None \/ server.pending.kind = "ack"
  BY DEF SInv, ServerSide, ServerAsks
<1>2. /\ s \in Transaction /\ s.state = "Process" /\ s.last = server.last
      /\ s.response = server.response /\ s.pending = server.pending
  <2>1. "Process" \in StateNames
    BY DEF StateNames
  <2>2. QED
    BY <1>1, <2>1, Set_state
<1>3. server' = [s EXCEPT !.timeouts = 1]
  BY <1>1 DEF ServerAsks, SetTimeout, ChangeState
<1> HIDE DEF s
<1>4. /\ server' \in Transaction /\ server'.state = "Process" /\ server'.last = server.last
      /\ server'.response = server.response /\ server'.pending = server.pending
      /\ server'.timeouts = 1
  <2>1. /\ server' \in Transaction /\ server'.state = s.state /\ server'.last = s.last
        /\ server'.response = s.response /\ server'.pending = s.pending
        /\ server'.timeouts = 1
    BY <1>2, <1>3 DEF Transaction
  <2>2. QED
    BY <1>2, <2>1
<1>5. /\ births' = births /\ user' = "asked" /\ progress' = progress /\ acked' = acked
      /\ late' = late /\ net' = net /\ UNCHANGED ClientVars
  BY DEF ServerAsks, ClientVars
<1>6. ServerHolds /\ OneAnswerOrTimeout /\ AckedIsOver
  BY DEF SInv, ServerSide
<1>7. acked = FALSE /\ late = 0
  BY <1>1, <1>6 DEF AckedIsOver, SInv, ServerSide
<1>8. ServerHolds'
  BY <1>1, <1>4, <1>6 DEF ServerHolds
<1>9. OneAnswerOrTimeout'
  BY <1>1, <1>4, <1>5, <1>6 DEF OneAnswerOrTimeout, Final
<1>10. AckedIsOver'
  BY <1>5, <1>7 DEF AckedIsOver
<1>11. ServerSide'
  BY <1>1, <1>4, <1>5, <1>8, <1>9, <1>10 DEF SInv, ServerSide
<1>12. QED
  BY <1>5, <1>11, ServerMoves DEF SInv

\* A server transaction that is over keeps its answer.
LEMMA ServerOverKeeps ==
  ASSUME SInv, server.state \in {"Finish", "Cleared"}, server' = Over(server),
         UNCHANGED <<invite, net, client, births, user, progress, told, ended, acked, late>>
  PROVE  SInv'
<1>1. /\ server \in Transaction /\ ServerHolds /\ OneAnswerOrTimeout /\ AckedIsOver
  BY DEF SInv, ServerSide
<1>2. /\ server' \in Transaction /\ server'.state = "Invalid" /\ server'.pending = server.pending
      /\ server'.transmit = server.transmit /\ server'.last = server.last
      /\ server'.response = server.response
  BY <1>1, OverIs
<1>3. ServerHolds'
  BY <1>1, <1>2 DEF ServerHolds
<1>4. OneAnswerOrTimeout'
  BY <1>1, <1>2 DEF OneAnswerOrTimeout, Final
<1>5. AckedIsOver'
  BY <1>1, <1>2 DEF AckedIsOver, Final
<1>6. ServerSide'
  BY <1>2, <1>3, <1>4, <1>5 DEF SInv, ServerSide
<1>7. QED
  BY <1>6, ServerMoves DEF SInv, ClientVars

\* The user has been too slow: 408 is the answer.
LEMMA ServerGivesUpKeeps ==
  ASSUME SInv, server.state = "Process",
         LET t == SetResponse(SetTimeout(server, 0), 408) IN ServerSends(t.last, t),
         UNCHANGED <<invite, client, births, user, progress, told, ended, acked, late>>
  PROVE  SInv'
<1> DEFINE s == [server EXCEPT !.timeouts = 0]
           u == SetResponse(s, 408)
<1>1. /\ server \in Transaction /\ births \in Nat /\ ServerHolds /\ OneAnswerOrTimeout /\ AckedIsOver
      /\ server.pending = None \/ server.pending.kind = "ack"
  BY BoundsAssumption DEF SInv, ServerSide
<1>2. /\ s \in Transaction /\ s.state = "Process" /\ s.pending = server.pending
  BY <1>1 DEF Transaction
<1>3. ServerSends(u.last, u)
  BY DEF SetTimeout
<1> HIDE DEF s
<1>4. /\ u \in Transaction /\ u.last \in Message /\ u.last.kind = "answer"
      /\ u.last.code = 408 /\ u.response = 408 /\ u.pending = server.pending
      /\ u.state = Next200 /\ u.timeouts > 0
  <2> HIDE DEF u
  <2>1. ASSUME NEW c, c \in 100 .. 699, c = 408, u = SetResponse(s, c)
        PROVE  /\ u \in Transaction /\ u.last \in Message /\ u.last.kind = "answer"
               /\ u.last.code = c /\ u.response = c /\ u.pending = server.pending
               /\ u.state = Next200 /\ u.timeouts > 0
    <3>1. c >= 200 /\ s.state \notin {"Invalid", Next200}
      BY <1>2, <2>1 DEF Next200
    <3>2. QED
      BY <1>1, <1>2, <2>1, <3>1, ResponseIs
  <2>2. 408 \in 100 .. 699 /\ u = SetResponse(s, 408)
    BY DEF u
  <2>3. QED
    BY <2>1, <2>2
<1> HIDE DEF u
<1>5. /\ net' = net \/ net' = net \cup {u.last}
      /\ server' \in Transaction /\ server'.state = Next200 /\ server'.last = u.last
      /\ server'.response = 408 /\ server'.pending = server.pending
      /\ server'.timeouts > 0
  BY <1>3, <1>4, SendsIs
<1>6. server'.state \in {"Retrans", "Finish"}
  BY <1>5 DEF Next200
<1>7. acked = FALSE /\ late = 0 /\ births # 0 /\ user # "answered"
  BY <1>1 DEF AckedIsOver, OneAnswerOrTimeout, SInv, ServerSide
<1>8. ServerHolds'
  <2>1. /\ server'.last.kind = "answer" /\ server'.last # None
        /\ server'.last.code = server'.response
    <3>1. u.last # None
      BY <1>4, RequestsAndAcks
    <3>2. server'.last.code = server'.response
      BY <1>4, <1>5
    <3>3. QED
      BY <1>4, <1>5, <3>1, <3>2
  <2>2. QED
    BY <1>6, <2>1 DEF ServerHolds
<1>9. OneAnswerOrTimeout'
  BY <1>1, <1>4, <1>5, <1>6, <1>7 DEF OneAnswerOrTimeout, Final
<1>10. AckedIsOver'
  BY <1>7 DEF AckedIsOver
<1>11. ServerSide'
  BY <1>1, <1>5, <1>8, <1>9, <1>10 DEF SInv, ServerSide
<1>12. QED
  BY <1>4, <1>5, <1>11, ServerMoves DEF SInv, ClientVars

\* The timer: the user is too slow, the answer goes out again, or that is all.
LEMMA ServerTimerKeeps == SInv /\ (ServerTimer \/ ServerCleared) => SInv'
<1> SUFFICES ASSUME SInv, ServerTimer \/ ServerCleared PROVE SInv'
  OBVIOUS
<1>1. UNCHANGED <<invite, client, births, user, progress, told, ended, acked, late>>
  BY DEF ServerTimer, ServerCleared
<1>2. /\ server \in Transaction /\ ServerHolds /\ OneAnswerOrTimeout /\ AckedIsOver
      /\ server.pending = None \/ server.pending.kind = "ack"
      /\ acked \in BOOLEAN
  BY DEF SInv, ServerSide
<1>3. CASE /\ server.state = "Process"
           /\ LET t == SetResponse(SetTimeout(server, 0), 408) IN ServerSends(t.last, t)
  BY <1>1, <1>3, ServerGivesUpKeeps
<1>4. CASE /\ server.state \in {"Finish", "Cleared"} /\ server' = Over(server)
           /\ UNCHANGED net
  BY <1>1, <1>4, ServerOverKeeps
<1>5. CASE /\ server.state = "Retrans" /\ server.timeouts > 1
           /\ ServerSends(server.last, SetTimeout(server, server.timeouts - 1))
  <2> DEFINE n == server.timeouts - 1
             t == [server EXCEPT !.timeouts = n]
  <2>1. n \in Nat /\ n > 0
    BY <1>2, <1>5 DEF Transaction
  <2>2. ServerSends(server.last, t)
    BY <1>5 DEF SetTimeout
  <2>3. /\ server.last \in Message /\ server.last.kind = "answer"
        /\ server.last.code = server.response /\ births # 0
    BY <1>5, LastIsSent
  <2> HIDE DEF n
  <2>4. /\ t \in Transaction /\ t.state = server.state /\ t.last = server.last
        /\ t.response = server.response /\ t.pending = server.pending /\ t.timeouts = n
    BY <1>2, <2>1 DEF Transaction
  <2> HIDE DEF t
  <2>5. /\ net' = net \/ net' = net \cup {server.last}
        /\ server' \in Transaction /\ server'.state = "Retrans" /\ server'.last = server.last
        /\ server'.response = server.response /\ server'.pending = server.pending
        /\ server'.timeouts > 0
    BY <1>5, <2>1, <2>2, <2>4, SendsIs
  <2>6. acked = FALSE /\ late = 0
    BY <1>2, <1>5 DEF AckedIsOver
  <2>7. ServerHolds'
    BY <1>2, <1>5, <2>5 DEF ServerHolds
  <2>8. OneAnswerOrTimeout'
    BY <1>1, <1>2, <1>5, <2>3, <2>5 DEF OneAnswerOrTimeout, Final
  <2>9. AckedIsOver'
    BY <1>1, <2>6 DEF AckedIsOver
  <2>10. ServerSide'
    BY <1>1, <1>2, <2>5, <2>7, <2>8, <2>9 DEF SInv, ServerSide
  <2>11. QED
    BY <1>1, <2>3, <2>5, <2>10, ServerMoves DEF SInv, ClientVars
<1>6. CASE /\ server.state = "Retrans" /\ server' = [Over(server) EXCEPT !.response = 408]
           /\ UNCHANGED net
  <2> DEFINE o == Over(server)
  <2>1. /\ o \in Transaction /\ o.state = "Invalid" /\ o.pending = server.pending
        /\ o.last = server.last
    BY <1>2, OverIs
  <2>2. server' = [o EXCEPT !.response = 408]
    BY <1>6
  <2> HIDE DEF o
  <2>3. /\ server' \in Transaction /\ server'.state = "Invalid" /\ server'.pending = server.pending
        /\ server'.last = server.last
    BY <2>1, <2>2 DEF Transaction
  <2>4. acked = FALSE /\ late = 0
    BY <1>2, <1>6 DEF AckedIsOver
  <2>5. ServerHolds'
    BY <1>2, <1>6, <2>3 DEF ServerHolds
  <2>6. OneAnswerOrTimeout'
    BY <1>1, <1>2, <1>6, <2>3, <2>4 DEF OneAnswerOrTimeout, Final
  <2>7. AckedIsOver'
    BY <1>1, <2>4 DEF AckedIsOver
  <2>8. ServerSide'
    BY <1>1, <1>2, <2>3, <2>5, <2>6, <2>7 DEF SInv, ServerSide
  <2>9. QED
    BY <1>1, <1>6, <2>8, ServerMoves DEF SInv, ClientVars
<1>7. QED
  BY <1>3, <1>4, <1>5, <1>6 DEF ServerTimer, ServerCleared

\* A request that nothing matches makes a transaction.
LEMMA ServerBornKeeps == SInv /\ ServerBorn => SInv'
<1> SUFFICES ASSUME SInv, ServerBorn PROVE SInv'
  OBVIOUS
<1>1. /\ server' \in Transaction /\ server'.state = "Initial" /\ server'.last = None
      /\ server'.pending = None /\ server'.transmit = FALSE
  <2>1. server' = NewTransaction
    BY DEF ServerBorn
  <2>2. QED
    BY <2>1 DEF NewTransaction, Transaction, StateNames
<1>2. /\ births' = births + 1 /\ births < MaxBirths /\ births \in 0 .. MaxBirths
      /\ user' = "none" /\ progress' = progress /\ acked' = FALSE
      /\ late' = 0 /\ net' = net /\ UNCHANGED ClientVars
  BY DEF ServerBorn, ClientVars, SInv, ServerSide
<1>3. births' \in 0 .. MaxBirths /\ births' # 0 /\ (births' = 1 => births = 0)
  BY <1>2, BoundsAssumption
<1>4. ServerHolds'
  BY <1>1, <1>2 DEF ServerHolds
<1>5. OneAnswerOrTimeout'
  <2>1. births = 0 => \A m \in net : m.kind # "answer"
    BY DEF SInv, ServerSide, OneAnswerOrTimeout
  <2>2. ~ Final(None)
    BY RequestsAndAcks DEF Final
  <2>3. ~ Final(server.last)'
    BY <1>1, <2>2 DEF Final
  <2>4. QED
    BY <1>1, <1>2, <1>3, <2>1, <2>3 DEF OneAnswerOrTimeout, Final
<1>6. AckedIsOver'
  BY <1>2 DEF AckedIsOver
<1>7. ServerSide'
  BY <1>1, <1>2, <1>3, <1>4, <1>5, <1>6 DEF SInv, ServerSide
<1>8. QED
  BY <1>2, <1>7, ServerMoves DEF SInv

\* The ACK ends the transaction, a copy of the request has the answer sent.
LEMMA ServerReceivesKeeps == SInv /\ ServerReceives => SInv'
<1> SUFFICES ASSUME SInv, NEW m \in net, IsOurs(server, m), server.state # "Invalid",
                    server' = ProcessServer(server, m),
                    acked' = (acked \/ (server'.pending # None /\ server.pending = None)),
                    UNCHANGED <<invite, net, client, births, user, progress, told, ended, late>>
             PROVE  SInv'
  BY DEF ServerReceives
<1>1. /\ server \in Transaction /\ ServerHolds /\ OneAnswerOrTimeout /\ AckedIsOver
      /\ server.pending = None \/ server.pending.kind = "ack"
      /\ server.state \in {"Process", "Retrans", "Finish"} => server.timeouts > 0
      /\ acked \in BOOLEAN
  BY DEF SInv, ServerSide
<1>2. m \in Message
  BY DEF SInv
<1>3. acked' \in BOOLEAN
  OBVIOUS
<1>4. CASE server.state \in {"Finish", "Retrans"} /\ m.kind = "ack"
  <2> DEFINE a == [server EXCEPT !.timeouts = 0]
             b == SetPending(a, m, FALSE)
             u == [b EXCEPT !.state = "Cleared"]
  <2>1. /\ a \in Transaction /\ a.state = server.state /\ a.last = server.last
        /\ a.response = server.response /\ a.pending = server.pending
    BY <1>1 DEF Transaction
  <2>2. ProcessServer(server, m) = ChangeState(b, "Cleared")
    BY <1>4 DEF ProcessServer, SetTimeout
  <2> HIDE DEF a
  <2>3. /\ b \in Transaction /\ b.state = server.state /\ b.last = server.last
        /\ b.response = server.response
        /\ b.pending = m \/ b.pending = server.pending
    <3>1. CASE a.pending = None
      <4>1. b = [a EXCEPT !.pending = m] /\ m \in Message \cup {None}
        BY <1>2, <3>1 DEF SetPending
      <4> HIDE DEF b
      <4>2. /\ b \in Transaction /\ b.state = a.state /\ b.last = a.last
            /\ b.response = a.response /\ b.pending = m
        BY <2>1, <4>1, Set_pending
      <4>3. QED
        BY <2>1, <4>2
    <3>2. CASE a.pending # None
      BY <2>1, <3>2 DEF SetPending
    <3>3. QED
      BY <3>1, <3>2
  <2> HIDE DEF b
  <2>4. ProcessServer(server, m) = u
    BY <1>4, <2>2, <2>3 DEF ChangeState
  <2>5. /\ u \in Transaction /\ u.state = "Cleared" /\ u.last = b.last
        /\ u.response = b.response /\ u.pending = b.pending
    <3>1. "Cleared" \in StateNames
      BY DEF StateNames
    <3>2. QED
      BY <2>3, <3>1, Set_state
  <2> HIDE DEF u
  <2>6. /\ server' \in Transaction /\ server'.state = "Cleared" /\ server'.last = server.last
        /\ server'.response = server.response
        /\ server'.pending = None \/ server'.pending.kind = "ack"
    BY <1>1, <1>4, <2>3, <2>4, <2>5
  <2>7. acked = FALSE /\ late = 0
    BY <1>1, <1>4 DEF AckedIsOver
  <2>8. ServerHolds'
    BY <1>1, <1>4, <2>6 DEF ServerHolds
  <2>9. OneAnswerOrTimeout'
    BY <1>1, <1>4, <2>6 DEF OneAnswerOrTimeout, Final
  <2>10. AckedIsOver'
    BY <1>4, <2>6, <2>7 DEF AckedIsOver
  <2>11. ServerSide'
    BY <1>3, <2>6, <2>8, <2>9, <2>10 DEF SInv, ServerSide
  <2>12. QED
    BY <2>11, ServerMoves DEF SInv, ClientVars
<1>5. CASE ~ (server.state \in {"Finish", "Retrans"} /\ m.kind = "ack")
  <2>1. \/ server' = server
        \/ /\ server' = [server EXCEPT !.transmit = TRUE]
           /\ server.state \in {"Trying", "Process", "Finish", "Retrans"}
    BY <1>5 DEF ProcessServer, SetTransmit
  <2>2. /\ server' \in Transaction /\ server'.state = server.state /\ server'.last = server.last
        /\ server'.response = server.response /\ server'.pending = server.pending
        /\ server'.timeouts = server.timeouts
    <3>1. CASE server' = server
      BY <1>1, <3>1
    <3>2. CASE server' = [server EXCEPT !.transmit = TRUE]
      BY <1>1, <3>2, TransmitIs
    <3>3. QED
      BY <2>1, <3>1, <3>2
  <2>3. server' = server \/ server.state \in {"Trying", "Process", "Finish", "Retrans"}
    BY <2>1
  <2>4. acked' = acked
    BY <1>1, <2>2
  <2>5. ServerHolds'
    BY <1>1, <2>2, <2>3 DEF ServerHolds
  <2>6. OneAnswerOrTimeout'
    BY <1>1, <2>2, <2>4 DEF OneAnswerOrTimeout, Final
  <2>7. AckedIsOver'
    BY <1>1, <2>2, <2>3, <2>4 DEF AckedIsOver, Final
  <2>8. ServerSide'
    BY <1>1, <1>3, <2>2, <2>5, <2>6, <2>7 DEF SInv, ServerSide
  <2>9. QED
    BY <2>8, ServerMoves DEF SInv, ClientVars
<1>6. QED
  BY <1>4, <1>5

(***************************************************************************)
(* Steps of the server's user.                                             *)
(***************************************************************************)

\* The user looks at the state.
LEMMA UserChecksKeeps == SInv /\ UserChecks => SInv'
<1> SUFFICES ASSUME SInv, UserChecks PROVE SInv'
  OBVIOUS
<1>1. /\ user' = "checked" /\ user = "asked" /\ server' = server /\ births' = births
      /\ progress' = progress /\ acked' = acked /\ late' = late /\ net' = net
      /\ UNCHANGED ClientVars
  BY DEF UserChecks, ClientVars
<1>2. ServerHolds' /\ OneAnswerOrTimeout' /\ AckedIsOver'
  BY <1>1 DEF SInv, ServerSide, ServerHolds, OneAnswerOrTimeout, AckedIsOver, Final
<1>3. ServerSide'
  BY <1>1, <1>2 DEF SInv, ServerSide
<1>4. QED
  BY <1>1, <1>3, ServerMoves DEF SInv

\* The user's answer is the only final one of a first transaction that has
\* neither timed out nor been refused.
LEMMA UserAnswersKeeps == SInv /\ UserAnswers => SInv'
<1> SUFFICES ASSUME SInv, NEW c, c \in Finals, user = "checked",
                    server' = SetResponse(server, c), user' = "answered",
                    acked' = FALSE, late' = 0,
                    UNCHANGED <<invite, net, client, births, progress, told, ended>>
             PROVE  SInv'
  BY DEF UserAnswers
<1>1. /\ server \in Transaction /\ OneAnswerOrTimeout /\ births \in Nat
      /\ server.pending = None \/ server.pending.kind = "ack"
      /\ server.state \in {"Process", "Retrans", "Finish"} => server.timeouts > 0
  BY BoundsAssumption DEF SInv, ServerSide
<1>2. c \in 100 .. 699 /\ c >= 200
  BY FinalsAssumption
<1>3. Next200 \in {"Retrans", "Finish"}
  BY DEF Next200
<1>4. /\ server' \in Transaction /\ server'.last \in Message /\ server'.last.kind = "answer"
      /\ server'.last.code = c /\ server'.response = c /\ server'.pending = server.pending
      /\ server.state \in {"Invalid", Next200} =>
           server'.state = server.state /\ server'.timeouts = server.timeouts
      /\ server.state \notin {"Invalid", Next200} =>
           server'.state = Next200 /\ server'.timeouts > 0
  BY <1>1, <1>2, ResponseIs
<1>5. /\ server'.state \in {"Invalid", "Retrans", "Finish"}
      /\ server'.state = "Invalid" <=> server.state = "Invalid"
      /\ server'.state # "Invalid" => server'.timeouts > 0
  BY <1>1, <1>3, <1>4
<1>6. server'.last # None
  BY <1>4, RequestsAndAcks
<1>7. ServerHolds'
  BY <1>4, <1>5, <1>6 DEF ServerHolds
<1>8. OneAnswerOrTimeout'
  BY <1>1, <1>5 DEF OneAnswerOrTimeout, Final
<1>9. AckedIsOver'
  BY DEF AckedIsOver
<1>10. ServerSide'
  BY <1>1, <1>4, <1>5, <1>7, <1>8, <1>9 DEF SInv, ServerSide
<1>11. QED
  BY <1>10, ServerMoves DEF SInv, ClientVars

\* A provisional answer of the user changes no state.
LEMMA UserProgressesKeeps == SInv /\ UserProgresses => SInv'
<1> SUFFICES ASSUME SInv, UserProgresses PROVE SInv'
  OBVIOUS
<1>1. /\ server \in Transaction /\ ServerHolds /\ OneAnswerOrTimeout /\ AckedIsOver
      /\ births \in Nat
      /\ server.pending = None \/ server.pending.kind = "ack"
  BY BoundsAssumption DEF SInv, ServerSide
<1>2. /\ user = "checked" /\ user' = "asked" /\ births' = births /\ acked' = acked
      /\ late' = late /\ net' = net /\ UNCHANGED ClientVars
  BY DEF UserProgresses, ClientVars
<1>3. progress' \in 0 .. MaxProgress
  BY BoundsAssumption DEF UserProgresses, SInv, ServerSide
<1>4. /\ server' \in Transaction /\ server'.last \in Message /\ server'.last.kind = "answer"
      /\ server'.last.code = 180 /\ server'.response = 180 /\ server'.pending = server.pending
      /\ server'.state = server.state /\ server'.timeouts = 1
  <2>1. ASSUME NEW c, c \in 100 .. 699, c = 180, server' = SetResponse(server, c)
        PROVE  /\ server' \in Transaction /\ server'.last \in Message
               /\ server'.last.kind = "answer" /\ server'.last.code = c
               /\ server'.response = c /\ server'.pending = server.pending
               /\ server'.state = server.state /\ server'.timeouts = 1
    <3>1. c < 200 /\ c > 100
      BY <2>1
    <3>2. QED
      BY <1>1, <2>1, <3>1, ResponseIs
  <2>2. 180 \in 100 .. 699 /\ server' = SetResponse(server, 180)
    BY DEF UserProgresses
  <2>3. QED
    BY <2>1, <2>2
<1>5. server'.last # None /\ ~ Final(server.last)' /\ server'.last.code = server'.response
  <2>1. server'.last # None
    BY <1>4, RequestsAndAcks
  <2>2. QED
    BY <1>4, <2>1 DEF Final
<1>6. ServerHolds'
  BY <1>1, <1>2, <1>4, <1>5 DEF ServerHolds, OneAnswerOrTimeout
<1>7. OneAnswerOrTimeout'
  BY <1>1, <1>2, <1>4, <1>5 DEF OneAnswerOrTimeout, Final
<1>8. AckedIsOver'
  BY <1>1, <1>2, <1>4, <1>5 DEF AckedIsOver, Final
<1>9. ServerSide'
  BY <1>1, <1>2, <1>3, <1>4, <1>6, <1>7, <1>8 DEF SInv, ServerSide
<1>10. QED
  BY <1>2, <1>9, ServerMoves DEF SInv

(***************************************************************************)
(* The theorems.                                                           *)
(***************************************************************************)

\* The invariant is inductive.
LEMMA SInvHolds == Spec => []SInv
<1>1. SInv /\ [Next]_vars => SInv'
  <2> SUFFICES ASSUME SInv, [Next]_vars PROVE SInv'
    OBVIOUS
  <2>1. CASE ClientEvent
    BY <2>1, ClientPendingKeeps, ClientTransmitKeeps, ClientStartKeeps, ClientTimerKeeps
       DEF ClientEvent
  <2>2. CASE ServerEvent
    BY <2>2, ServerPendingKeeps, ServerTransmitKeeps, ServerAcceptsKeeps, ServerRejectsKeeps,
       ServerAsksKeeps, ServerTimerKeeps DEF ServerEvent
  <2>3. CASE ClientReceives \/ ServerReceives \/ ServerBorn
    BY <2>3, ClientReceivesKeeps, ServerReceivesKeeps, ServerBornKeeps
  <2>4. CASE UserChecks \/ UserAnswers \/ UserProgresses
    BY <2>4, UserChecksKeeps, UserAnswersKeeps, UserProgressesKeeps
  <2>5. CASE UNCHANGED vars
    <3>1. UNCHANGED ServerVars /\ net' = net /\ client' = client /\ told' = told /\ ended' = ended
          /\ invite' = invite
      BY <2>5 DEF vars, ServerVars
    <3>2. ClientSide'
      BY <3>1 DEF SInv, ClientSide, ClientHolds, Unanswered, Final
    <3>3. AcksAreSent'
      BY <3>1 DEF SInv, AcksAreSent, WasSent
    <3>4. QED
      BY <3>1, <3>2, <3>3, ClientMoves DEF SInv
  <2>6. QED
    BY <2>1, <2>2, <2>3, <2>4, <2>5 DEF Next
<1>2. QED
  BY <1>1, InitHolds, PTL DEF Spec

\* A transaction that waits always has a timer running: the types, and that no
\* order of answers, copies and failures to send leaves one waiting for ever.
THEOREM NeverStuckHolds == Spec => []NeverStuck
<1>1. SInv => NeverStuck
  BY DEF SInv, ClientSide, ServerSide, NeverStuck, TypeOK
<1>2. QED
  BY <1>1, SInvHolds, PTL

\* The client's user is told of one final answer only: once for an INVITE, at
\* most twice for another request.
THEOREM OneFinalAnswerHolds == Spec => []OneFinalAnswer
<1>1. SInv => OneFinalAnswer
  <2> SUFFICES ASSUME SInv PROVE OneFinalAnswer
    OBVIOUS
  <2>1. ClientHolds /\ client.state \in StateNames
    BY DEF SInv, ClientSide, Transaction
  <2>2. PICK c : c = client.response
    OBVIOUS
  <2>3. told = <<>> \/ told = <<c>> \/ (~ invite /\ told = <<c, c>>)
    <3>1. CASE client.state \in {"Initial", "Trying", "Process"}
      BY <2>1, <3>1 DEF ClientHolds, Unanswered
    <3>2. CASE client.state \in {"Finish", "Cleared"}
      BY <2>1, <2>2, <3>2 DEF ClientHolds, Unanswered
    <3>3. CASE client.state = "Invalid"
      BY <2>1, <2>2, <3>3 DEF ClientHolds
    <3>4. QED
      BY <2>1, <3>1, <3>2, <3>3 DEF StateNames, ClientHolds
  <2>4. CASE told = <<>>
    BY <2>4 DEF OneFinalAnswer
  <2>5. CASE told = <<c>>
    BY <2>5 DEF OneFinalAnswer
  <2>6. CASE ~ invite /\ told = <<c, c>>
    BY <2>6 DEF OneFinalAnswer
  <2>7. QED
    BY <2>3, <2>4, <2>5, <2>6, Zenon
<1>2. QED
  BY <1>1, SInvHolds, PTL

\* The client ends with the code its user was told; without any it is a timeout
\* or a failure to send.
THEOREM EndsAsToldHolds == Spec => []EndsAsTold
<1>1. SInv => EndsAsTold
  <2> SUFFICES ASSUME SInv, ended # 0 PROVE EndsAsTold
    BY DEF EndsAsTold
  <2>1. client \in Transaction /\ ClientHolds
    BY DEF SInv, ClientSide
  <2>2. client.state = "Invalid"
    BY <2>1 DEF ClientHolds, Unanswered, Transaction, StateNames
  <2>3. \/ told = <<>> /\ ended \in {408, 500}
        \/ told = <<ended>> \/ told = <<ended, ended>>
    BY <2>1, <2>2 DEF ClientHolds
  <2>4. QED
    BY <2>3 DEF EndsAsTold
<1>2. QED
  BY <1>1, SInvHolds, PTL

\* A server that got its ACK was heard: the client has a final answer, that of
\* the server or its timeout if the request made one transaction only.
THEOREM AckedAgreeHolds == Spec => []AckedAgree
<1>1. SInv => AckedAgree
  <2> SUFFICES ASSUME SInv, acked PROVE AckedAgree
    BY DEF AckedAgree
  <2>1. PICK k \in net : k.kind = "ack"
    BY DEF SInv, ServerSide, AckedIsOver
  <2>2. client.response >= 200 /\ WasSent(client.response)
    BY <2>1 DEF SInv, AcksAreSent
  <2>3. PICK m \in net : m.kind = "answer" /\ m.code = client.response
    BY <2>2 DEF WasSent
  <2>4. births = 1 => client.response \in {server.response, 408}
    BY <2>2, <2>3 DEF SInv, ServerSide, OneAnswerOrTimeout, Final
  <2>5. QED
    BY <2>2, <2>4 DEF AckedAgree
<1>2. QED
  BY <1>1, SInvHolds, PTL

\* After the ACK the final answer goes out once more at most.
THEOREM QuietAfterAckHolds == Spec => []QuietAfterAck
<1>1. SInv => QuietAfterAck
  BY DEF SInv, ServerSide, AckedIsOver, QuietAfterAck
<1>2. QED
  BY <1>1, SInvHolds, PTL
=============================================================================
