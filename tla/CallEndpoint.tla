---------------------------- MODULE CallEndpoint ----------------------------
(***************************************************************************)
(* Call endpoints that are connected in pairs (Channel.cpp) and counted by *)
(* their references (RefObject, TelEngine.cpp).  Each of two connected     *)
(* endpoints points to the other and owns a reference of it.               *)
(*                                                                         *)
(* Threads that hold references of their own connect, disconnect and       *)
(* release endpoints at the same time.  disconnect looks for a peer        *)
(* without the common mutex and again under it; connect does not take it.  *)
(* What a thread still has to do is a sequence of steps, so a call inside  *)
(* another one puts its steps before those of the caller.                  *)
(***************************************************************************)
EXTENDS Naturals, FiniteSets, Sequences

CONSTANTS Endpoints, Threads, Null

ASSUME NullAssumption == Null \notin Endpoints \cup Threads

VARIABLES
    peer,    \* m_peer
    refs,    \* m_refcount
    owned,   \* the endpoints whose creator has not released them
    freed,   \* the endpoints that were deleted
    mutex,   \* the thread that has s_mutex, Null for none
    todo,    \* the steps a thread still has to do
    torn     \* history: a pointer was overwritten that was not looked at

vars == <<peer, refs, owned, freed, mutex, todo, torn>>

Step(at, e, p) == [at |-> at, e |-> e, with |-> p]
Steps == [at : {"check", "peerref", "point", "setpeer", "look", "lock", "clear",
                "deref", "free"},
          e : Endpoints, with : Endpoints \cup {Null}]

AtStep(t, at) == todo[t] # <<>> /\ Head(todo[t]).at = at

\* The thread does these steps in place of the one it is at.
Goes(t, steps) == todo' = [todo EXCEPT ![t] = steps \o Tail(@)]

\* An assignment to e's pointer takes it for the one that was seen before.
Tear(e, before) == torn' = (torn \/ peer[e] # before)

Alive(e) == refs[e] > 0
Ref(e) == refs' = [refs EXCEPT ![e] = @ + 1]

-----------------------------------------------------------------------------
(* The callers: each has references of the endpoints it works on *)

Connect(t, a, b) ==
    /\ todo[t] = <<>> /\ a # b /\ Alive(a) /\ Alive(b)
    /\ refs' = [refs EXCEPT ![a] = @ + 1, ![b] = @ + 1]
    /\ todo' = [todo EXCEPT ![t] =
                  <<Step("check", a, b), Step("deref", a, Null), Step("deref", b, Null)>>]
    /\ UNCHANGED <<peer, owned, freed, mutex, torn>>

Disconnect(t, e) ==
    /\ todo[t] = <<>> /\ Alive(e)
    /\ Ref(e)
    /\ todo' = [todo EXCEPT ![t] = <<Step("look", e, Null), Step("deref", e, Null)>>]
    /\ UNCHANGED <<peer, owned, freed, mutex, torn>>

Release(t, e) ==
    /\ todo[t] = <<>> /\ e \in owned
    /\ owned' = owned \ {e}
    /\ todo' = [todo EXCEPT ![t] = <<Step("deref", e, Null)>>]
    /\ UNCHANGED <<peer, refs, freed, mutex, torn>>

-----------------------------------------------------------------------------
(* CallEndpoint::connect *)

Check(t) ==
    LET a == Head(todo[t]).e  b == Head(todo[t]).with
    IN  /\ AtStep(t, "check")
        /\ IF peer[a] = b \/ ~ Alive(a) THEN Goes(t, <<>>) /\ UNCHANGED refs
           ELSE /\ Goes(t, <<Step("look", a, Null), Step("peerref", a, b)>>)
                /\ Ref(a)
        /\ UNCHANGED <<peer, owned, freed, mutex, torn>>

\* Faulty variant: the new peer is taken without a reference.
PeerRef_None(t) ==
    LET a == Head(todo[t]).e  b == Head(todo[t]).with
    IN  /\ AtStep(t, "peerref")
        /\ Goes(t, <<Step("look", b, Null), Step("point", a, b)>>)
        /\ UNCHANGED <<peer, refs, owned, freed, mutex, torn>>

PeerRef(t) ==
    LET a == Head(todo[t]).e  b == Head(todo[t]).with
    IN  /\ AtStep(t, "peerref")
        /\ IF Alive(b)
           THEN Goes(t, <<Step("look", b, Null), Step("point", a, b)>>) /\ Ref(b)
           ELSE Goes(t, <<Step("deref", a, Null)>>) /\ UNCHANGED refs
        /\ UNCHANGED <<peer, owned, freed, mutex, torn>>

PointAtPeer(t) ==
    LET a == Head(todo[t]).e  b == Head(todo[t]).with
    IN  /\ AtStep(t, "point")
        /\ peer' = [peer EXCEPT ![a] = b] /\ Tear(a, Null)
        /\ Goes(t, <<Step("setpeer", a, b)>>)
        /\ UNCHANGED <<refs, owned, freed, mutex>>

SetPeer(t) ==
    LET a == Head(todo[t]).e  b == Head(todo[t]).with
    IN  /\ AtStep(t, "setpeer")
        /\ peer' = [peer EXCEPT ![b] = a] /\ Tear(b, Null)
        /\ Goes(t, <<>>)
        /\ UNCHANGED <<refs, owned, freed, mutex>>

-----------------------------------------------------------------------------
(* CallEndpoint::disconnect *)

Look(t) ==
    LET e == Head(todo[t]).e
    IN  /\ AtStep(t, "look")
        /\ Goes(t, IF peer[e] = Null THEN <<>> ELSE <<Step("lock", e, Null)>>)
        /\ UNCHANGED <<peer, refs, owned, freed, mutex, torn>>

\* under the mutex the peer may have gone meanwhile
TakePeer(t) ==
    LET e == Head(todo[t]).e
    IN  /\ AtStep(t, "lock") /\ mutex = Null
        /\ IF peer[e] = Null THEN Goes(t, <<>>) /\ UNCHANGED mutex
           ELSE Goes(t, <<Step("clear", e, peer[e])>>) /\ mutex' = t
        /\ peer' = [peer EXCEPT ![e] = Null]
        /\ UNCHANGED <<refs, owned, freed, torn>>

\* Faulty variant: the peer goes on pointing here.
ClearPeer_OneSided(t) ==
    LET e == Head(todo[t]).e  p == Head(todo[t]).with
    IN  /\ AtStep(t, "clear")
        /\ mutex' = Null
        /\ Goes(t, <<Step("deref", p, Null), Step("deref", e, Null)>>)
        /\ UNCHANGED <<peer, refs, owned, freed, torn>>

\* Faulty variant: only the reference of the peer is given back.
ClearPeer_OneDeref(t) ==
    LET e == Head(todo[t]).e  p == Head(todo[t]).with
    IN  /\ AtStep(t, "clear")
        /\ peer' = [peer EXCEPT ![p] = Null] /\ Tear(p, e)
        /\ mutex' = Null
        /\ Goes(t, <<Step("deref", p, Null)>>)
        /\ UNCHANGED <<refs, owned, freed>>

\* Both references are given back without the mutex, the own one unless this
\* endpoint is being destroyed.
ClearPeer(t) ==
    LET e == Head(todo[t]).e  p == Head(todo[t]).with
    IN  /\ AtStep(t, "clear")
        /\ peer' = [peer EXCEPT ![p] = Null] /\ Tear(p, e)
        /\ mutex' = Null
        /\ Goes(t, IF Alive(e) THEN <<Step("deref", p, Null), Step("deref", e, Null)>>
                   ELSE <<Step("deref", p, Null)>>)
        /\ UNCHANGED <<refs, owned, freed>>

-----------------------------------------------------------------------------
(* RefObject *)

\* The last reference destroys the endpoint: zeroRefs, where it leaves its
\* driver, and destroyed, which disconnects it once more.
Deref(t) ==
    LET e == Head(todo[t]).e
    IN  /\ AtStep(t, "deref")
        /\ refs' = [refs EXCEPT ![e] = IF @ > 0 THEN @ - 1 ELSE 0]
        /\ Goes(t, IF refs[e] = 1 THEN <<Step("look", e, Null), Step("free", e, Null)>>
                   ELSE <<>>)
        /\ UNCHANGED <<peer, owned, freed, mutex, torn>>

Free(t) ==
    /\ AtStep(t, "free")
    /\ freed' = freed \cup {Head(todo[t]).e}
    /\ Goes(t, <<>>)
    /\ UNCHANGED <<peer, refs, owned, mutex, torn>>

-----------------------------------------------------------------------------
Init ==
    /\ peer = [e \in Endpoints |-> Null]
    /\ refs = [e \in Endpoints |-> 1]
    /\ owned = Endpoints /\ freed = {}
    /\ mutex = Null
    /\ todo = [t \in Threads |-> <<>>]
    /\ torn = FALSE

Caller(t) ==
    \/ \E a, b \in Endpoints : Connect(t, a, b)
    \/ \E e \in Endpoints : Disconnect(t, e) \/ Release(t, e)

Callee(t) ==
    \/ Check(t) \/ PeerRef(t) \/ PointAtPeer(t) \/ SetPeer(t)
    \/ Look(t) \/ TakePeer(t) \/ ClearPeer(t)
    \/ Deref(t) \/ Free(t)

Next == \E t \in Threads : Caller(t) \/ Callee(t)

Spec == Init /\ [][Next]_vars

-----------------------------------------------------------------------------
\* Every variable keeps its type, and a thread has the mutex only between the
\* two halves of a disconnect.
TypeOK ==
    /\ peer \in [Endpoints -> Endpoints \cup {Null}]
    /\ refs \in [Endpoints -> Nat]
    /\ owned \subseteq Endpoints
    /\ freed \subseteq {e \in Endpoints : refs[e] = 0}
    /\ torn \in BOOLEAN
    /\ \A t \in Threads :
         /\ \A k \in DOMAIN todo[t] : todo[t][k] \in Steps
         /\ mutex = t <=> AtStep(t, "clear")

\* The references of an endpoint that a step stands for.
Holds(s, e) ==
    \/ s.e = e /\ s.at \in {"deref", "peerref", "point", "setpeer"}
    \/ s.with = e /\ s.at \in {"point", "clear"}

Held(e) ==
    UNION {{<<t, k>> : k \in {k \in DOMAIN todo[t] : Holds(todo[t][k], e)}} : t \in Threads}

\* The counter of an endpoint is the number of its references: the creator's,
\* one of each endpoint that points to it, and those that running operations
\* are to give back or to hand on.  Only the overwriting of a pointer that
\* another thread set or cleared meanwhile can make it another number.
RefsAreCounted ==
    /\ TypeOK
    /\ ~ torn =>
         \A e \in Endpoints :
            refs[e] = (IF e \in owned THEN 1 ELSE 0)
                      + Cardinality({x \in Endpoints : peer[x] = e})
                      + Cardinality(Held(e))

\* A destroyed endpoint has no peer, is nobody's peer and is not worked on,
\* unless a pointer was overwritten: "disconnect called while dead" is never
\* logged.
DeadIsAlone ==
    ~ torn =>
        /\ \A e \in Endpoints :
             ~ Alive(e) => peer[e] = Null /\ e \notin {peer[x] : x \in Endpoints}
        /\ \A t \in Threads : \A k \in DOMAIN todo[t] :
             {todo[t][k].e, todo[t][k].with} \cap freed = {}

\* "this is to protect against two threads trying to (dis)connect a pair of
\* call endpoints at the same time": of two endpoints either both or none
\* points to the other, except while a thread is between the two pointers.
PeersAgree ==
    \A a, b \in Endpoints :
        peer[a] = b /\ peer[b] # a =>
            \E t \in Threads :
                /\ todo[t] # <<>>
                /\ Head(todo[t]) \in {Step("setpeer", a, b), Step("clear", b, a)}

\* However connects and disconnects of many threads interleave, the two
\* endpoints of a pair agree until a connect or a disconnect overwrites a
\* pointer that another thread set or cleared between its look at it and its
\* assignment.  Those three assignments are all that the mutex has to guard.
AgreeUntilTorn == torn \/ PeersAgree
=============================================================================
