--------------------------- MODULE SipTransaction ---------------------------
(***************************************************************************)
(* A client and a server transaction of the SIP library (libs/ysip,        *)
(* transaction.cpp and addMessage of engine.cpp) for one request, over a   *)
(* network without connections: messages get lost, duplicated, delayed and *)
(* reordered, and sending may fail.                                        *)
(*                                                                         *)
(* The engine's thread calls getEvent for ever and hands the event to its  *)
(* user or to the network, which is one action here: what may come between *)
(* the two, a delay, the network does as well.  Timers only count their    *)
(* firings; when they fire is left open.  The user of the server reads the *)
(* state without the engine's lock and answers later, so these are two     *)
(* actions.  Digest authentication, forking and connections are left out.  *)
(***************************************************************************)
EXTENDS Integers, Sequences

CONSTANTS ReqCount,     \* m_reqTransCount: how often a request is sent
          RspCount,     \* m_rspTransCount: firings of the timer of an answer
          Finals,       \* final codes the server's user may answer with
          LazyTrying,   \* the setting of that name
          MaxBirths,    \* bound on server transactions made by the request
          MaxProgress   \* bound on provisional answers of the user

ASSUME CountAssumption == ReqCount \in Nat \ {0} /\ RspCount \in Nat \ {0}
ASSUME FinalsAssumption == Finals \subseteq 200 .. 699
ASSUME LazyAssumption == LazyTrying \in BOOLEAN
ASSUME BoundsAssumption == MaxBirths \in Nat /\ MaxProgress \in Nat

VARIABLES invite,    \* whether the request is an INVITE
          net,       \* messages ever sent: each may arrive at any time
          client,    \* the client transaction
          server,    \* the latest server transaction of the request
          births,    \* server transactions so far; also the tag of the latest
          user,      \* what the server's user is doing
          progress,  \* provisional answers sent by the user
          told,      \* history: final codes the client's user was told
          ended,     \* history: response code the client ended with, or 0
          acked,     \* history: whether the latest final answer got its ACK
          late       \* history: final answers sent after that

vars == <<invite, net, client, server, births, user, progress, told, ended,
          acked, late>>

-----------------------------------------------------------------------------
(* Messages and transactions *)

\* The ACK of a 200 has a branch of its own and is matched by its tag.
Message == [kind : {"request", "answer", "ack"}, code : 0 .. 699, tag : Nat,
            fresh : BOOLEAN]
None == [kind |-> "none", code |-> 0, tag |-> 0, fresh |-> FALSE]

Request      == [kind |-> "request", code |-> 0, tag |-> 0, fresh |-> FALSE]
Answer(c, g) == [kind |-> "answer", code |-> c, tag |-> g, fresh |-> FALSE]
Ack(c, g)    == [kind |-> "ack", code |-> 0, tag |-> g, fresh |-> c = 200]

StateNames == {"Invalid", "Initial", "Trying", "Process", "Retrans", "Finish",
               "Cleared"}

\* timeouts is m_timeouts while a timer runs, else 0; mute says that sending
\* last failed, which takes its party away.
Transaction == [state : StateNames, last : Message \cup {None},
                transmit : BOOLEAN, pending : Message \cup {None},
                timeouts : Nat, response : 0 .. 699, tag : Nat, mute : BOOLEAN]

NewTransaction == [state |-> "Initial", last |-> None, transmit |-> FALSE,
                   pending |-> None, timeouts |-> 0, response |-> 0, tag |-> 0,
                   mute |-> FALSE]
NoTransaction == [NewTransaction EXCEPT !.state = "Invalid"]

ChangeState(t, s) == IF t.state = "Invalid" THEN t ELSE [t EXCEPT !.state = s]
SetTimeout(t, n)  == [t EXCEPT !.timeouts = n]
SetTransmit(t)    == [t EXCEPT !.transmit = TRUE]
SetPending(t, m, replace) ==
  IF t.pending = None \/ replace THEN [t EXCEPT !.pending = m] ELSE t

SetLatest(t, m) ==
  [t EXCEPT !.last = m, !.mute = FALSE,
            !.response = IF m.kind = "answer" THEN m.code ELSE @]

\* getEvent reaches its timers only when nothing is pending and nothing waits
\* to be sent.
Quiet(t) == t.pending = None /\ ~t.transmit

\* getEvent ends a transaction in state Cleared, and the engine removes it.
Over(t) == [SetTimeout(t, 0) EXCEPT !.state = "Invalid"]

-----------------------------------------------------------------------------
(* Client transaction *)

\* msgTransmitFailed: the first attempt ends the transaction, another one
\* silences the message.
TransmitFailed(t) ==
  IF t.state # "Trying" THEN t
  ELSE IF t.timeouts >= ReqCount
       THEN [t EXCEPT !.response = 500, !.state = "Cleared"]
       ELSE [t EXCEPT !.mute = TRUE]

\* The event's message is put on the network, or sending fails.
ClientSends(m, t) ==
  \/ client' = t /\ net' = IF t.mute THEN net ELSE net \cup {m}
  \/ ~t.mute /\ client' = TransmitFailed(t) /\ UNCHANGED net

Heard(m) == told' = IF m.code >= 200 THEN Append(told, m.code) ELSE told

ClientPending ==
  /\ client.pending # None
  /\ client' = [client EXCEPT !.pending = None]
  /\ Heard(client.pending)
  /\ UNCHANGED <<invite, net, server, births, user, progress, ended, acked, late>>

\* The latest message is an answer when one arrived before the request was
\* sent again: the user is told of it a second time.
ClientTransmit ==
  LET t == [client EXCEPT !.transmit = FALSE]
      m == IF client.last = None THEN Request ELSE client.last
  IN /\ client.pending = None /\ client.transmit
     /\ IF m.kind = "answer"
        THEN client' = t /\ Heard(m) /\ UNCHANGED net
        ELSE ClientSends(m, t) /\ UNCHANGED told
     /\ UNCHANGED <<invite, server, births, user, progress, ended, acked, late>>

ClientStart ==
  /\ client.state = "Initial"
  /\ ClientSends(Request, SetTimeout(ChangeState(client, "Trying"), ReqCount))
  /\ UNCHANGED <<invite, server, births, user, progress, told, ended, acked, late>>

ClientEnds(code) ==
  /\ client' = [Over(client) EXCEPT !.response = code]
  /\ ended' = code

\* The last firing ends the transaction, the ones before send the request
\* again.
ClientTimer ==
  /\ Quiet(client) /\ client.timeouts > 0
  /\ \/ /\ client.state = "Trying" /\ client.timeouts > 1
        /\ client' = SetTimeout(SetTransmit(client), client.timeouts - 1)
        /\ UNCHANGED ended
     \/ client.timeouts = 1 /\ client.state \in {"Trying", "Process"} /\ ClientEnds(408)
     \/ client.timeouts = 1 /\ client.state = "Finish" /\ ClientEnds(client.response)
  /\ UNCHANGED <<invite, net, server, births, user, progress, told, acked, late>>

ClientCleared ==
  /\ Quiet(client) /\ client.state = "Cleared"
  /\ ClientEnds(client.response)
  /\ UNCHANGED <<invite, net, server, births, user, progress, told, acked, late>>

\* processMessage: an answer of another dialog is dropped, except a failure
\* of an INVITE, which takes the dialog over.
Matches(t, m) ==
  \/ t.tag = 0 \/ t.tag = m.tag
  \/ m.tag # 0 /\ invite /\ m.code >= 400
Tagged(t, m) == IF m.tag = 0 THEN t ELSE [t EXCEPT !.tag = m.tag]

Informed(t, m) ==
  LET u == SetLatest(t, m)
  IN SetPending(IF invite THEN SetTimeout(u, 1) ELSE u, m, FALSE)

Answered(t, m) ==
  LET u == SetPending(SetLatest(t, m), m, TRUE)
  IN IF invite
     THEN SetTimeout(ChangeState(SetTransmit(SetLatest(u, Ack(m.code, u.tag))), "Finish"), 1)
     ELSE ChangeState(SetTimeout(u, 0), "Cleared")

\* Faulty variant: the code of the later answer counts.
AnsweredAgain_Counts(t, m) == [SetTransmit(t) EXCEPT !.response = m.code]

AnsweredAgain(t, m) == IF t.last.kind = "ack" THEN SetTransmit(t) ELSE t

\* Faulty variant: every final answer counts, whenever it comes.
ProcessClient_Always(t, m) ==
  IF m.code >= 200 THEN Answered(t, m) ELSE IF m.code > 100 THEN Informed(t, m) ELSE t

\* processClientMessage
ProcessClient(t, m) ==
  LET u == IF t.state = "Trying"
           THEN [SetTimeout(ChangeState(t, "Process"), 1) EXCEPT !.response = m.code]
           ELSE t
  IN IF u.state = "Process" /\ m.code >= 200 THEN Answered(u, m)
     ELSE IF u.state = "Process" /\ m.code > 100 THEN Informed(u, m)
     ELSE IF u.state = "Finish" /\ m.code >= 200 THEN AnsweredAgain(u, m)
     ELSE u

ClientReceives ==
  \E m \in net :
    /\ m.kind = "answer"
    /\ client.state # "Invalid"
    /\ Matches(client, m)
    /\ client' = ProcessClient(Tagged(client, m), m)
    /\ UNCHANGED <<invite, net, server, births, user, progress, told, ended, acked, late>>

-----------------------------------------------------------------------------
(* Server transaction *)

\* Faulty variant: no timer is set.
SetResponse_NoTimer(t, c) ==
  LET u == SetTransmit(SetLatest([t EXCEPT !.tag = births], Answer(c, births)))
  IN IF c >= 200 THEN ChangeState(u, IF invite THEN "Retrans" ELSE "Finish") ELSE u

\* setResponse of a message: the state is not looked at.  100 has no tag.
SetResponse(t, c) ==
  LET g    == IF c > 100 THEN births ELSE t.tag
      u    == SetTransmit(SetLatest([t EXCEPT !.tag = g], Answer(c, g)))
      next == IF invite THEN "Retrans" ELSE "Finish"
  IN IF c >= 200
     THEN IF t.state \in {"Invalid", next} THEN u
          ELSE SetTimeout(ChangeState(u, next), IF invite THEN RspCount ELSE 1)
     ELSE IF c > 100 THEN SetTimeout(u, 1) ELSE u

\* The event's answer is put on the network; if that fails it is silenced,
\* unless the transaction is finished anyway.
ServerSends(m, t) ==
  \/ server' = t /\ net' = IF t.mute THEN net ELSE net \cup {m}
  \/ /\ ~t.mute
     /\ server' = [t EXCEPT !.mute = t.state \notin {"Invalid", "Finish", "Cleared"}]
     /\ UNCHANGED net

ServerPending ==
  /\ server.pending # None
  /\ server' = [server EXCEPT !.pending = None]
  /\ UNCHANGED <<invite, net, client, births, user, progress, told, ended, acked, late>>

ServerTransmit ==
  /\ server.state # "Invalid" /\ server.pending = None /\ server.transmit
  /\ ServerSends(server.last, [server EXCEPT !.transmit = FALSE])
  /\ late' = IF acked /\ server.last.code >= 200 THEN late + 1 ELSE late
  /\ UNCHANGED <<invite, client, births, user, progress, told, ended, acked>>

ServerAccepts ==
  /\ server.state = "Initial"
  /\ server' = [ChangeState(SetResponse(server, 100), "Trying") EXCEPT
                  !.transmit = invite \/ ~LazyTrying]
  /\ UNCHANGED <<invite, net, client, births, user, progress, told, ended, acked, late>>

\* A request that is malformed (400) or not allowed (501) gets one answer and
\* is forgotten.
ServerRejects ==
  /\ server.state = "Initial"
  /\ LET t == SetResponse(server, 501)
     IN ServerSends(t.last, [Over(t) EXCEPT !.transmit = FALSE])
  /\ UNCHANGED <<invite, client, births, user, progress, told, ended, acked, late>>

\* The user gets the request.
ServerAsks ==
  /\ Quiet(server) /\ server.state = "Trying"
  /\ server' = SetTimeout(ChangeState(server, "Process"), 1)
  /\ user' = "asked"
  /\ UNCHANGED <<invite, net, client, births, progress, told, ended, acked, late>>

\* In Process the user has been too slow; in Retrans the answer is sent again
\* until the timer has fired often enough.
ServerTimer ==
  /\ Quiet(server) /\ server.timeouts > 0
  /\ \/ /\ server.state = "Process"
        /\ LET t == SetResponse(SetTimeout(server, 0), 408) IN ServerSends(t.last, t)
     \/ /\ server.state = "Retrans" /\ server.timeouts > 1
        /\ ServerSends(server.last, SetTimeout(server, server.timeouts - 1))
     \/ /\ server.state = "Retrans" /\ server.timeouts = 1
        /\ server' = [Over(server) EXCEPT !.response = 408]
        /\ UNCHANGED net
     \/ /\ server.state = "Finish"
        /\ server' = Over(server)
        /\ UNCHANGED net
  /\ UNCHANGED <<invite, client, births, user, progress, told, ended, acked, late>>

ServerCleared ==
  /\ Quiet(server) /\ server.state = "Cleared"
  /\ server' = Over(server)
  /\ UNCHANGED <<invite, net, client, births, user, progress, told, ended, acked, late>>

\* The request makes a transaction when none is there to match it.
ServerBorn ==
  /\ Request \in net
  /\ server.state = "Invalid" /\ births < MaxBirths
  /\ server' = NewTransaction
  /\ births' = births + 1
  /\ user' = "none"
  /\ acked' = FALSE /\ late' = 0
  /\ UNCHANGED <<invite, net, client, progress, told, ended>>

IsOurs(t, m) ==
  \/ m.kind = "request"
  \/ m.kind = "ack" /\ (m.fresh => m.tag = t.tag)

\* Faulty variants: whatever comes counts as the ACK; the ACK does not end
\* the transaction.
ProcessServer_AnyIsAck(t, m) ==
  IF t.state \in {"Finish", "Retrans"}
  THEN ChangeState(SetPending(SetTimeout(t, 0), m, FALSE), "Cleared")
  ELSE t

ProcessServer_Goes(t, m) ==
  IF t.state \in {"Finish", "Retrans"} /\ m.kind = "ack"
  THEN SetPending(t, m, FALSE)
  ELSE IF t.state \in {"Trying", "Process", "Finish", "Retrans"} THEN SetTransmit(t) ELSE t

\* processServerMessage
ProcessServer(t, m) ==
  IF t.state \in {"Finish", "Retrans"} /\ m.kind = "ack"
  THEN ChangeState(SetPending(SetTimeout(t, 0), m, FALSE), "Cleared")
  ELSE IF t.state \in {"Trying", "Process", "Finish", "Retrans"} THEN SetTransmit(t) ELSE t

ServerReceives ==
  \E m \in net :
    /\ server.state # "Invalid"
    /\ IsOurs(server, m)
    /\ server' = ProcessServer(server, m)
    /\ acked' = (acked \/ (server'.pending # None /\ server.pending = None))
    /\ UNCHANGED <<invite, net, client, births, user, progress, told, ended, late>>

-----------------------------------------------------------------------------
(* The user of the server (msgAnswered, msgRinging, callRejected of a call) *)

UserChecks ==
  /\ user = "asked" /\ server.state = "Process"
  /\ user' = "checked"
  /\ UNCHANGED <<invite, net, client, server, births, progress, told, ended, acked, late>>

UserAnswers ==
  /\ user = "checked"
  /\ \E c \in Finals : server' = SetResponse(server, c)
  /\ user' = "answered"
  /\ acked' = FALSE /\ late' = 0
  /\ UNCHANGED <<invite, net, client, births, progress, told, ended>>

UserProgresses ==
  /\ user = "checked" /\ progress < MaxProgress
  /\ server' = SetResponse(server, 180)
  /\ user' = "asked"
  /\ progress' = progress + 1
  /\ UNCHANGED <<invite, net, client, births, told, ended, acked, late>>

-----------------------------------------------------------------------------
Init ==
  /\ invite \in BOOLEAN
  /\ net = {}
  /\ client = NewTransaction
  /\ server = NoTransaction
  /\ births = 0
  /\ user = "none"
  /\ progress = 0
  /\ told = <<>>
  /\ ended = 0
  /\ acked = FALSE
  /\ late = 0

ClientEvent == \/ ClientPending \/ ClientTransmit \/ ClientStart \/ ClientTimer
               \/ ClientCleared
ServerEvent == \/ ServerPending \/ ServerTransmit \/ ServerAccepts
               \/ ServerRejects \/ ServerAsks \/ ServerTimer \/ ServerCleared

Next == \/ ClientEvent \/ ClientReceives \/ ServerEvent \/ ServerReceives
        \/ ServerBorn \/ UserChecks \/ UserAnswers \/ UserProgresses

Spec == Init /\ [][Next]_vars

\* The engines' threads call getEvent for ever and the clock runs.  Copies of
\* a message may keep getEvent busy now and then but not for good, so that it
\* comes to what it does when nothing is to be sent.  The network and the user
\* owe nothing.
ClientTurn == ClientTimer \/ ClientCleared
ServerTurn == ServerAsks \/ ServerTimer \/ ServerCleared
FairSpec == /\ Spec
            /\ WF_vars(ClientEvent) /\ WF_vars(ServerEvent)
            /\ SF_vars(ClientTransmit) /\ SF_vars(ClientTurn)
            /\ SF_vars(ServerTurn)

-----------------------------------------------------------------------------
\* Every variable keeps its type, and what the server waits for in its
\* pending event is an ACK.
TypeOK ==
  /\ invite \in BOOLEAN
  /\ net \subseteq Message
  /\ client \in Transaction /\ server \in Transaction
  /\ births \in 0 .. MaxBirths
  /\ user \in {"none", "asked", "checked", "answered"}
  /\ progress \in 0 .. MaxProgress
  /\ told \in Seq(200 .. 699)
  /\ ended \in 0 .. 699
  /\ acked \in BOOLEAN /\ late \in Nat
  /\ server.pending = None \/ server.pending.kind = "ack"

\* A transaction that waits always has a timer running, whatever answers,
\* duplicates and failures have stopped and started it: none waits for ever
\* for a message that was lost.
NeverStuck ==
  /\ TypeOK
  /\ client.state \in {"Trying", "Process", "Finish"} => client.timeouts > 0
  /\ server.state \in {"Process", "Retrans", "Finish"} => server.timeouts > 0

\* The client's user is told one final answer only: once for an INVITE, and
\* at most once more for another request that was about to be sent again.
OneFinalAnswer ==
  /\ \A i, j \in DOMAIN told : told[i] = told[j]
  /\ Len(told) <= IF invite THEN 1 ELSE 2

\* The code a client transaction ends with is the one its user was told;
\* without any it is a timeout or a failure to send.
EndsAsTold ==
  ended # 0 => IF told = <<>> THEN ended \in {408, 500} ELSE ended = told[1]

\* A server transaction that got its ACK was heard: the client has a final
\* answer.  If the request made one transaction only it is the answer the
\* server holds, or the timeout that came before it.
AckedAgree ==
  acked => /\ client.response >= 200
           /\ births = 1 => client.response \in {server.response, 408}

\* After the ACK the final answer is sent once more at most, if that was due.
QuietAfterAck == late <= 1

\* Both transactions end, also if no answer comes, the user of the server
\* never answers or no ACK arrives.
TransactionsEnd ==
  /\ client.state # "Invalid" ~> client.state = "Invalid"
  /\ server.state # "Invalid" ~> server.state = "Invalid"
=============================================================================
