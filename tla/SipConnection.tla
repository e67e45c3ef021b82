--------------------------- MODULE SipConnection ---------------------------
(***************************************************************************)
(* Incoming calls of the SIP channel (YateSIPConnection, ysipchan.cpp):    *)
(* from the INVITE over its Router thread (Channel.cpp), which connects    *)
(* the call to a dumb channel and runs the post-hooks of call.execute, to  *)
(* its hang-up and its destruction.                                        *)
(*                                                                         *)
(* The network's thread handles CANCEL, BYE, ACK and the end of the        *)
(* INVITE's transaction while the Router thread is at work; hangup holds   *)
(* the driver's lock only while it marks the call.  The timeouter is the   *)
(* module Timeouter, whose actions are part of the steps here: "up" are    *)
(* the channels that have a peer.                                          *)
(***************************************************************************)
EXTENDS Timeouter, Sequences

VARIABLES
    route,    \* the step the Router thread of a call is at
    conn,     \* the fields of a YateSIPConnection, and what it did
    network,  \* what the network's thread still has to do for a call
    ending,   \* channels that a chan.disconnected message refers to
    freed     \* channels that were destroyed

svars == <<route, conn, network, ending, freed>>
vars == <<tvars, svars>>

\* The last four fields are history: the final answers to the INVITE, whether a
\* BYE was sent, how many chan.hangup were, and whether the caller ended the call.
Codes == {200, 487, 500}
Answers == Seq(Codes)

Connection ==
    [tr : {"none", "process", "final"}, state : {"Incoming", "Established", "Cleared"},
     hungup : BOOLEAN, byebye : BOOLEAN, localTag : BOOLEAN,
     answers : Answers, bye : BOOLEAN, hangups : Nat, left : BOOLEAN]

NewConnection ==
    [tr |-> "process", state |-> "Incoming", hungup |-> FALSE, byebye |-> TRUE,
     localTag |-> FALSE, answers |-> <<>>, bye |-> FALSE, hangups |-> 0, left |-> FALSE]

RouteSteps == {"idle", "routing", "routed", "connected", "answered", "leaving", "done"}
NetworkSteps == {"idle", "clear", "hangup", "end"}

Goes(c, step) == route' = [route EXCEPT ![c] = step]
Becomes(c, k) == conn' = [conn EXCEPT ![c] = k]

\* Somebody refers to the channel: its Router thread, its peer, the network's
\* thread or a message.  Without, findCall finds it no more.
Referenced(c) ==
    \/ route[c] \notin {"idle", "done"}
    \/ c \in up \cup ending
    \/ network[c] # "idle"

-----------------------------------------------------------------------------
(* What becomes of a connection k *)

SetResponse(k, code) ==
    IF k.tr # "process" THEN k
    ELSE [k EXCEPT !.tr = "final", !.answers = Append(@, code)]

\* 487 is m_reasonCode as the constructor sets it
ClearTransaction(k) ==
    IF k.tr = "process" THEN [SetResponse(k, 487) EXCEPT !.tr = "none", !.byebye = FALSE]
    ELSE [k EXCEPT !.tr = "none", !.localTag = @ \/ (k.tr = "final" /\ k.hungup)]

Marked(k) == [k EXCEPT !.hungup = TRUE, !.hangups = @ + 1]

\* Faulty variant: a call whose ACK is missing is treated like an unanswered one.
EndCall_NoBye(k) ==
    LET cleared == ClearTransaction(k)
    IN  IF k.tr # "none" THEN cleared
        ELSE [cleared EXCEPT !.state = "Cleared", !.byebye = FALSE,
                             !.bye = @ \/ (cleared.byebye /\ cleared.localTag)]

\* The rest of hangup: an INVITE that is not answered gets its final answer
\* instead of a BYE.
EndCall(k) ==
    LET cleared == ClearTransaction(k)
    IN  IF k.state = "Incoming" /\ k.tr # "none" THEN cleared
        ELSE [cleared EXCEPT !.state = "Cleared", !.byebye = FALSE,
                             !.bye = @ \/ (cleared.byebye /\ cleared.localTag)]

-----------------------------------------------------------------------------
(* The Router thread *)

Routed(c) ==
    /\ route[c] = "routing"
    /\ Goes(c, IF conn[c].hungup \/ conn[c].tr = "none" THEN "leaving" ELSE "routed")
    /\ UNCHANGED <<tvars, conn, network, ending, freed>>

\* the call may have been hung up since callRouted looked
ConnectDumb(c) ==
    /\ route[c] = "routed"
    /\ Connect(c)
    /\ Goes(c, "connected")
    /\ UNCHANGED <<conn, network, ending, freed>>

\* The thread cannot be started or the call is not routed; or call.execute
\* fails, and so does the chan.disconnected that offers the call.
Reject(c) ==
    /\ route[c] \in {"routing", "routed"}
    /\ Becomes(c, SetResponse(conn[c], 500))
    /\ Goes(c, "leaving")
    /\ UNCHANGED <<tvars, network, ending, freed>>

\* The post-hook of the helpline dispatches call.answered ...
Answer(c) ==
    /\ route[c] = "connected"
    /\ conn' = IF conn[c].hungup THEN conn
               ELSE [conn EXCEPT ![c] = [SetResponse(@, 200) EXCEPT !.state = "Established"]]
    /\ Goes(c, "answered")
    /\ UNCHANGED <<tvars, network, ending, freed>>

\* ... and the one of the timeouter runs before or after it.
Record(c) ==
    /\ route[c] \in {"connected", "answered"}
    /\ Execute(c)
    /\ UNCHANGED svars

Leave(c) ==
    /\ route[c] = "leaving" \/ (route[c] = "answered" /\ started[c] # -1)
    /\ Goes(c, "done")
    /\ UNCHANGED <<tvars, conn, network, ending, freed>>

-----------------------------------------------------------------------------
(* The network's thread *)

NetworkIdle == \A c \in Calls : network[c] = "idle"
Continues(c, step) == network' = [network EXCEPT ![c] = step]

\* CallEndpoint::disconnect, see CallEndpoint; nothing of this thread's can be
\* told apart by what happens just before it
Unlink(c) == IF c \in up THEN Hangup(c) ELSE UNCHANGED tvars

Invite(c) ==
    /\ NetworkIdle /\ route[c] = "idle"
    /\ Goes(c, "routing")
    /\ Becomes(c, NewConnection)
    /\ UNCHANGED <<tvars, network, ending, freed>>

\* m_tr is looked at without the lock
Cancel(c) ==
    /\ NetworkIdle /\ Referenced(c) /\ ~ conn[c].left
    /\ conn[c].tr # "none"
    /\ Becomes(c, [conn[c] EXCEPT !.byebye = FALSE, !.left = TRUE])
    /\ Continues(c, "clear")
    /\ UNCHANGED <<tvars, route, ending, freed>>

Bye(c) ==
    /\ NetworkIdle /\ Referenced(c) /\ ~ conn[c].left
    /\ Becomes(c, [conn[c] EXCEPT !.byebye = FALSE, !.left = TRUE])
    /\ Continues(c, "hangup")
    /\ UNCHANGED <<tvars, route, ending, freed>>

\* The ACK ends the transaction, and with it a call that was refused.
Ack(c) ==
    /\ NetworkIdle /\ Referenced(c) /\ conn[c].tr = "final"
    /\ Becomes(c, [conn[c] EXCEPT !.tr = "none", !.localTag = TRUE])
    /\ Continues(c, IF conn[c].state = "Established" THEN "idle" ELSE "hangup")
    /\ UNCHANGED <<tvars, route, ending, freed>>

NoAck(c) ==
    /\ NetworkIdle /\ Referenced(c) /\ conn[c].tr = "final"
    /\ Continues(c, "hangup")
    /\ UNCHANGED <<tvars, route, conn, ending, freed>>

\* doCancel goes on with clearTransaction and disconnect, and then hangs up
Clear(c) ==
    /\ network[c] = "clear"
    /\ Becomes(c, ClearTransaction(conn[c]))
    /\ Unlink(c)
    /\ Continues(c, "hangup")
    /\ UNCHANGED <<route, ending, freed>>

MarkHungUp(c) ==
    /\ network[c] = "hangup"
    /\ IF conn[c].hungup THEN Continues(c, "idle") /\ UNCHANGED conn
       ELSE Becomes(c, Marked(conn[c])) /\ Continues(c, "end")
    /\ UNCHANGED <<tvars, route, ending, freed>>

\* Faulty variant: the call is ended but stays connected.
End_StaysConnected(c) ==
    /\ network[c] = "end"
    /\ Becomes(c, EndCall(conn[c]))
    /\ Continues(c, "idle")
    /\ UNCHANGED <<tvars, route, ending, freed>>

End(c) ==
    /\ network[c] = "end"
    /\ Becomes(c, EndCall(conn[c]))
    /\ Unlink(c)
    /\ Continues(c, "idle")
    /\ UNCHANGED <<route, ending, freed>>

-----------------------------------------------------------------------------
(* The workers, and whoever gives the last reference back *)

\* The dumb channel is dropped: chan.disconnected refers to this one.
PeerEnds(c) ==
    /\ Hangup(c)
    /\ ending' = ending \cup {c}
    /\ UNCHANGED <<route, conn, network, freed>>

Disconnected(c) ==
    /\ c \in ending
    /\ ending' = ending \ {c}
    /\ UNCHANGED <<tvars, route, conn, network, freed>>

DropCall(c) == Drop(c) /\ UNCHANGED svars

\* Faulty variant: hangup without its check.
Destroy_Again(c) ==
    /\ route[c] = "done" /\ ~ Referenced(c) /\ c \notin freed
    /\ Becomes(c, ClearTransaction(EndCall(Marked(conn[c]))))
    /\ freed' = freed \cup {c}
    /\ UNCHANGED <<tvars, route, network, ending>>

\* destroyed hangs up unless that was done; nobody else finds the channel
Destroy(c) ==
    /\ route[c] = "done" /\ ~ Referenced(c) /\ c \notin freed
    /\ Becomes(c, ClearTransaction(IF conn[c].hungup THEN conn[c]
                                   ELSE EndCall(Marked(conn[c]))))
    /\ freed' = freed \cup {c}
    /\ UNCHANGED <<tvars, route, network, ending>>

-----------------------------------------------------------------------------
Init ==
    /\ TInit
    /\ route = [c \in Calls |-> "idle"]
    /\ conn = [c \in Calls |-> [NewConnection EXCEPT !.tr = "none"]]
    /\ network = [c \in Calls |-> "idle"]
    /\ ending = {} /\ freed = {}

Pass == Tick /\ UNCHANGED svars

Router(c) == Routed(c) \/ ConnectDumb(c) \/ Reject(c) \/ Answer(c) \/ Record(c) \/ Leave(c)
Caller(c) == Invite(c) \/ Cancel(c) \/ Bye(c) \/ Ack(c) \/ NoAck(c)
Network(c) == Clear(c) \/ MarkHungUp(c) \/ End(c)
Worker(c) == Disconnected(c) \/ DropCall(c) \/ Destroy(c)

Next == Pass \/ \E c \in Calls : Router(c) \/ Caller(c) \/ Network(c) \/ PeerEnds(c) \/ Worker(c)

Spec == Init /\ [][Next]_vars

\* Threads go on with what they began, messages are handled and time passes;
\* nobody has to call, to acknowledge or to end a call.
FairSpec ==
    /\ Spec
    /\ WF_vars(Pass)
    /\ WF_vars(\E c \in Calls : Network(c))
    /\ \A c \in Calls : WF_vars(Router(c)) /\ WF_vars(Worker(c))

-----------------------------------------------------------------------------
\* Every variable keeps its type.
TypeOK ==
    /\ TimeouterTypeOK
    /\ route \in [Calls -> RouteSteps]
    /\ conn \in [Calls -> Connection]
    /\ network \in [Calls -> NetworkSteps]
    /\ ending \subseteq Calls /\ freed \subseteq Calls

\* The helpline ends its session on chan.hangup: one is sent for each call,
\* whichever thread is the first to hang up, and never a second.
HungUpOnce ==
    \A c \in Calls : /\ conn[c].hangups <= 1
                     /\ c \in freed => conn[c].hangups = 1

\* When a channel is gone the caller knows: its INVITE got one final answer,
\* and if the call was answered one of the two sides has ended it, whatever
\* order the answer, the ACK, a CANCEL and the drop came in.
CallIsClosed ==
    \A c \in Calls :
        c \in freed => /\ Len(conn[c].answers) = 1
                       /\ conn[c].answers = <<200>> => conn[c].bye \/ conn[c].left

\* A call that is hung up is destroyed, or it was connected only after that:
\* then it was not answered and only its peer keeps it, until the timeouter,
\* which has it on record, drops it.
HungUpEnds ==
    \A c \in Calls :
        conn[c].hungup ~> \/ c \in freed
                          \/ /\ c \in up /\ conn[c].answers # <<200>>
                             /\ <<started[c], c>> \in connections

\* A call that has lasted too long when another call is connected is
\* destroyed, also one that was hung up before it was connected.
OverdueIsFreed ==
    \A c \in Calls : (started[c] # -1 /\ lastExecute - started[c] > Limit) ~> c \in freed
=============================================================================
