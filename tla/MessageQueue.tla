---------------------------- MODULE MessageQueue ----------------------------
(***************************************************************************)
(* The messages enqueued in the hub for its workers (Message.cpp, enqueue  *)
(* and dequeueOne): a linked list, a cached pointer to the node to append  *)
(* after, and threads that take the first message and dispatch it.  A      *)
(* message is enqueued once and destroyed after it was dispatched; another *)
(* enqueue of one that waits is refused and changes nothing.  The counters *)
(* of the queue, which only statistics and congestion alarms read, are     *)
(* left out.                                                               *)
(***************************************************************************)
EXTENDS ObjList

CONSTANTS
    Msgs,      \* the messages
    Workers    \* the threads that call dequeueOne

ASSUME MsgsAssumption == Null \notin Msgs

VARIABLES
    messages,      \* m_messages
    msgAppend,     \* m_msgAppend: a node
    working,       \* the message a worker dispatches, Null for none
    sent,          \* history: the messages that enqueue accepted, in order
    taken          \* history: the messages that dequeueOne took, in order

vars == <<messages, msgAppend, working, sent, taken>>

\* append walks from the cached node to the last one: through a node that is
\* gone the message would reach no list
AppendEntry(m) ==
    \E n \in Nodes :
        /\ NodeForAppend(messages, n)
        /\ messages' = IF msgAppend \in NodesOf(messages)
                       THEN AppendAt(messages, n, m) ELSE messages
        /\ msgAppend' = n

Enqueue(m) ==
    /\ m \notin ToSet(sent)
    /\ AppendEntry(m)
    /\ sent' = Append(sent, m)
    /\ UNCHANGED <<working, taken>>

\* Faulty variant: the cached node is freed and kept.
AppendAfterRemoval_Kept == msgAppend

\* the cached node is about to be freed when it is the second one
AppendAfterRemoval ==
    IF Len(messages) > 1 /\ messages[2].id = msgAppend THEN Root ELSE msgAppend

\* a thread that finds the list empty polls again later
DequeueOne(w) ==
    /\ working[w] = Null
    /\ messages[1].obj # Null
    /\ msgAppend' = AppendAfterRemoval
    /\ messages' = RemoveEntry(messages, 1)
    /\ working' = [working EXCEPT ![w] = messages[1].obj]
    /\ taken' = Append(taken, messages[1].obj)
    /\ UNCHANGED sent

\* dispatch returned and the message is destroyed
Destruct(w) ==
    /\ working[w] # Null
    /\ working' = [working EXCEPT ![w] = Null]
    /\ UNCHANGED <<messages, msgAppend, sent, taken>>

\* The messages in the list: only its first node is ever empty.
Waiting ==
    IF messages[1].obj = Null THEN <<>>
    ELSE [i \in DOMAIN messages |-> messages[i].obj]

-----------------------------------------------------------------------------
Init ==
    /\ messages = Empty
    /\ msgAppend = Root
    /\ working = [w \in Workers |-> Null]
    /\ sent = <<>> /\ taken = <<>>

Worker(w) == DequeueOne(w) \/ Destruct(w)

Next == (\E m \in Msgs : Enqueue(m)) \/ (\E w \in Workers : Worker(w))

Spec == Init /\ [][Next]_vars

-----------------------------------------------------------------------------
\* Every variable keeps its type.
TypeOK ==
    /\ messages \in Seq([id : Nodes, obj : Msgs \cup {Null}])
    /\ msgAppend \in Nodes
    /\ working \in [Workers -> Msgs \cup {Null}]

\* Every message that enqueue accepted is either in the list or was taken by
\* one worker, and messages are taken in the order they were enqueued,
\* whichever nodes were freed and taken again meanwhile.
FirstInFirstOut == taken \o Waiting = sent
=============================================================================
