-------------------------- MODULE MessageDispatcher --------------------------
(***************************************************************************)
(* The message hub of the Yate engine (src/yate/engine/Message.cpp): a     *)
(* list of handlers sorted by priority, threads that pass messages through *)
(* it and owners that install and uninstall their handlers meanwhile.      *)
(*                                                                         *)
(* The hub's mutex is held from one match to the next and dropped while a  *)
(* handler runs, so a step here is what happens between two releases of    *)
(* that mutex.  A handler that runs is marked by its m_unsafe counter.  A  *)
(* plain handler drops its mark after it ran, a relay before it calls its  *)
(* receiver: from then on the relay itself may be gone.                    *)
(*                                                                         *)
(* A handler is a number that stands for its sort key, the pair of its     *)
(* priority and its address: both are fixed while it exists.  A handler    *)
(* that is destroyed leaves its address to a later one, which may have     *)
(* another priority: Address tells which handlers can follow each other    *)
(* at one address.                                                         *)
(***************************************************************************)
EXTENDS Naturals, SequencesExt

CONSTANTS
    Handlers,    \* the handlers, as sort keys
    Address,     \* the address of each handler
    Relays,      \* those that are relays to a receiver
    Initial,     \* the handlers installed at the start, in order
    Lasting,     \* those that are never uninstalled
    Matches,     \* the sets of handlers that a message may match
    Threads,     \* the threads that dispatch messages
    MaxChanges   \* bound on the installs and uninstalls of a run

ASSUME ThreadsAssumption == IsFiniteSet(Threads)
ASSUME HandlersAssumption == Handlers \subseteq Nat \ {0}
ASSUME MatchesAssumption == Matches \subseteq SUBSET Handlers
ASSUME KindsAssumption == Relays \subseteq Handlers /\ Lasting \subseteq Handlers
Ascending(list) ==
    \A i, j \in DOMAIN list : i < j => list[i] < list[j]

ASSUME InitialAssumption ==
    /\ Initial \in Seq(Handlers)
    /\ Ascending(Initial)
    /\ \A i, j \in DOMAIN Initial :
         Address[Initial[i]] = Address[Initial[j]] => i = j
ASSUME MaxChangesAssumption == MaxChanges \in Nat

VARIABLES
    handlers,    \* m_handlers: the installed handlers in order
    changes,     \* m_changes
    unsafe,      \* the m_unsafe counter of each handler
    owner,       \* where the owner of a handler is: "out", "in", "leaving"
    pc,          \* where a thread is in dispatch
    msg,         \* the message of a thread: who matches it, its broadcast flag
    at,          \* l: the place in the list of the handler a thread called
    cur,         \* h: that handler
    seen,        \* c: m_changes when the thread called it
    retv,        \* whether a handler accepted the message
    called,      \* history: the handlers the message was passed to
    stayed       \* history: the handlers installed ever since dispatch began

vars == <<handlers, changes, unsafe, owner, pc, msg, at, cur, seen, retv,
          called, stayed>>
threadVars == <<pc, msg, at, cur, seen, retv, called>>

NoHandler == 0
Listed == {handlers[i] : i \in DOMAIN handlers}
NoMessage == [matches |-> {}, broadcast |-> FALSE]
Messages == [matches : Matches, broadcast : BOOLEAN]

(***************************************************************************)
(* install puts a handler before the first one that sorts after it.  It    *)
(* exists from then on at the latest, so no other one that is still the    *)
(* hub's or waits in uninstall has its address.                            *)
(***************************************************************************)
IsPlace(i, h) ==
    /\ \A j \in 1 .. i - 1 : handlers[j] < h
    /\ i \in DOMAIN handlers => handlers[i] > h

Install(h) ==
    /\ \A g \in Handlers : Address[g] = Address[h] => owner[g] = "out"
    /\ changes < MaxChanges
    /\ \E i \in 1 .. Len(handlers) + 1 :
         IsPlace(i, h) /\ handlers' = InsertAt(handlers, i, h)
    /\ changes' = changes + 1
    /\ owner' = [owner EXCEPT ![h] = "in"]
    /\ UNCHANGED <<unsafe, threadVars, stayed>>

Uninstall_NoWait(h) ==
    /\ owner[h] = "in"
    /\ h \notin Lasting
    /\ changes < MaxChanges
    /\ \E i \in DOMAIN handlers :
         handlers[i] = h /\ handlers' = RemoveAt(handlers, i)
    /\ changes' = changes + 1
    /\ owner' = [owner EXCEPT ![h] = "out"]
    /\ stayed' = [t \in Threads |-> stayed[t] \ {h}]
    /\ UNCHANGED <<unsafe, threadVars>>

\* a handler that is not marked is uninstalled at once, for another one the
\* owner waits
Uninstall(h) ==
    /\ owner[h] = "in"
    /\ h \notin Lasting
    /\ changes < MaxChanges
    /\ \E i \in DOMAIN handlers :
         handlers[i] = h /\ handlers' = RemoveAt(handlers, i)
    /\ changes' = changes + 1
    /\ owner' = [owner EXCEPT ![h] = IF unsafe[h] > 0 THEN "leaving" ELSE "out"]
    /\ stayed' = [t \in Threads |-> stayed[t] \ {h}]
    /\ UNCHANGED <<unsafe, threadVars>>

Uninstalled(h) ==
    /\ owner[h] = "leaving"
    /\ unsafe[h] = 0
    /\ owner' = [owner EXCEPT ![h] = "out"]
    /\ UNCHANGED <<handlers, changes, unsafe, threadVars, stayed>>

(***************************************************************************)
(* dispatch looks for the next match from a place of the list, marks that  *)
(* handler and drops the mutex; with no match left it is done.             *)
(***************************************************************************)
Matching(from, m) ==
    {i \in DOMAIN handlers : i >= from /\ handlers[i] \in m.matches}

Call(t, i) ==
    /\ pc' = [pc EXCEPT ![t] = "called"]
    /\ at' = [at EXCEPT ![t] = i]
    /\ cur' = [cur EXCEPT ![t] = handlers[i]]
    /\ seen' = [seen EXCEPT ![t] = changes]
    /\ called' = [called EXCEPT ![t] = Append(called[t], handlers[i])]
    /\ unsafe' = [unsafe EXCEPT ![handlers[i]] = @ + 1]

Advance(t, from, m) ==
    \/ \E i \in Matching(from, m) :
         /\ \A j \in Matching(from, m) : i <= j
         /\ Call(t, i)
    \/ /\ Matching(from, m) = {}
       /\ pc' = [pc EXCEPT ![t] = "dispatched"]
       /\ UNCHANGED <<at, cur, seen, called, unsafe>>

Dispatch(t) ==
    /\ pc[t] = "idle"
    /\ \E m \in Messages :
         /\ msg' = [msg EXCEPT ![t] = m]
         /\ stayed' = [stayed EXCEPT ![t] = Listed]
         /\ Advance(t, 1, m)
    /\ UNCHANGED <<handlers, changes, owner, retv>>

\* MessageHandler::receivedInternal: the handler runs, then drops its mark
Received(t) ==
    /\ pc[t] = "called"
    /\ cur[t] \notin Relays
    /\ \E ok \in BOOLEAN : retv' = [retv EXCEPT ![t] = ok \/ @]
    /\ unsafe' = [unsafe EXCEPT ![cur[t]] = @ - 1]
    /\ pc' = [pc EXCEPT ![t] = "returned"]
    /\ UNCHANGED <<handlers, changes, owner, msg, at, cur, seen, called, stayed>>

SafeNow_Twice(t) ==
    /\ pc[t] = "called"
    /\ cur[t] \in Relays
    /\ unsafe' = [unsafe EXCEPT ![cur[t]] = @ - 1]
    /\ UNCHANGED <<handlers, changes, owner, pc, msg, at, cur, seen, retv,
                   called, stayed>>

SafeNow_Unmarked(t) ==
    /\ pc[t] = "called"
    /\ cur[t] \in Relays
    /\ pc' = [pc EXCEPT ![t] = "relayed"]
    /\ UNCHANGED <<handlers, changes, unsafe, owner, msg, at, cur, seen, retv,
                   called, stayed>>

\* MessageRelay::receivedInternal: the relay drops its mark and then calls
\* its receiver
SafeNow(t) ==
    /\ pc[t] = "called"
    /\ cur[t] \in Relays
    /\ unsafe' = [unsafe EXCEPT ![cur[t]] = @ - 1]
    /\ pc' = [pc EXCEPT ![t] = "relayed"]
    /\ UNCHANGED <<handlers, changes, owner, msg, at, cur, seen, retv, called,
                   stayed>>

Relayed(t) ==
    /\ pc[t] = "relayed"
    /\ \E ok \in BOOLEAN : retv' = [retv EXCEPT ![t] = ok \/ @]
    /\ pc' = [pc EXCEPT ![t] = "returned"]
    /\ UNCHANGED <<handlers, changes, unsafe, owner, msg, at, cur, seen, called,
                   stayed>>

(***************************************************************************)
(* Where the search goes on after the handler at the thread's place        *)
(* returned.  If the list changed the place is looked up again: the walk   *)
(* stops at the handler itself, which it tells by the address alone, or    *)
(* at the first one that sorts after it and then steps back to the         *)
(* previous place.  The previous place of the first one is the first one,  *)
(* so that one is passed over.                                             *)
(***************************************************************************)
Stops(h) ==
    {i \in DOMAIN handlers : Address[handlers[i]] = Address[h] \/ handlers[i] > h}

IsAfterRescan_NoStepBack(i, h) ==
    \/ Stops(h) = {} /\ i = Len(handlers) + 1
    \/ \E k \in Stops(h) : (\A j \in Stops(h) : k <= j) /\ i = k + 1

IsAfterRescan_FromTheTop(i, h) == i = 1

IsAfterRescan(i, h) ==
    \/ Stops(h) = {} /\ i = Len(handlers) + 1
    \/ \E k \in Stops(h) :
         /\ \A j \in Stops(h) : k <= j
         /\ i = IF Address[handlers[k]] = Address[h] \/ k = 1 THEN k + 1 ELSE k

IsNextPlace_NoRescan(t, i) == i = at[t] + 1

IsNextPlace(t, i) ==
    IF seen[t] = changes THEN i = at[t] + 1 ELSE IsAfterRescan(i, cur[t])

Accepted(t) == retv[t] /\ ~msg[t].broadcast

GoOn(t) ==
    /\ pc[t] = "returned"
    /\ ~Accepted(t)
    /\ \E i \in 1 .. Len(handlers) + 1 :
         IsNextPlace(t, i) /\ Advance(t, i, msg[t])
    /\ UNCHANGED <<handlers, changes, owner, msg, retv, stayed>>

Stop(t) ==
    /\ pc[t] = "returned"
    /\ Accepted(t)
    /\ pc' = [pc EXCEPT ![t] = "dispatched"]
    /\ UNCHANGED <<handlers, changes, unsafe, owner, msg, at, cur, seen, retv,
                   called, stayed>>

\* dispatch returns: the message is notified and its sender goes on
Return(t) ==
    /\ pc[t] = "dispatched"
    /\ pc' = [pc EXCEPT ![t] = "idle"]
    /\ retv' = [retv EXCEPT ![t] = FALSE]
    /\ called' = [called EXCEPT ![t] = <<>>]
    /\ stayed' = [stayed EXCEPT ![t] = {}]
    /\ cur' = [cur EXCEPT ![t] = NoHandler]
    /\ at' = [at EXCEPT ![t] = 0]
    /\ seen' = [seen EXCEPT ![t] = 0]
    /\ msg' = [msg EXCEPT ![t] = NoMessage]
    /\ UNCHANGED <<handlers, changes, unsafe, owner>>

-----------------------------------------------------------------------------
Init ==
    /\ handlers = Initial
    /\ changes = 0
    /\ unsafe = [h \in Handlers |-> 0]
    /\ owner = [h \in Handlers |-> IF h \in Listed THEN "in" ELSE "out"]
    /\ pc = [t \in Threads |-> "idle"]
    /\ msg = [t \in Threads |-> NoMessage]
    /\ at = [t \in Threads |-> 0]
    /\ cur = [t \in Threads |-> NoHandler]
    /\ seen = [t \in Threads |-> 0]
    /\ retv = [t \in Threads |-> FALSE]
    /\ called = [t \in Threads |-> <<>>]
    /\ stayed = [t \in Threads |-> {}]

Owner(h) == Install(h) \/ Uninstall(h) \/ Uninstalled(h)

Thread(t) ==
    \/ Dispatch(t) \/ Received(t) \/ SafeNow(t) \/ Relayed(t)
    \/ GoOn(t) \/ Stop(t) \/ Return(t)

Next == (\E h \in Handlers : Owner(h)) \/ (\E t \in Threads : Thread(t))

Spec == Init /\ [][Next]_vars

(***************************************************************************)
(* A handler returns and a thread that runs goes on; an owner that waits   *)
(* polls the mark.  Nobody has to dispatch, to install or to uninstall.    *)
(***************************************************************************)
Fairness ==
    /\ \A t \in Threads : WF_vars(pc[t] # "idle" /\ Thread(t))
    /\ \A h \in Handlers : WF_vars(Uninstalled(h))

FairSpec == Spec /\ Fairness

-----------------------------------------------------------------------------
TypeOK ==
    /\ handlers \in Seq(Handlers)
    /\ changes \in 0 .. MaxChanges
    /\ unsafe \in [Handlers -> Nat]
    /\ owner \in [Handlers -> {"out", "in", "leaving"}]
    /\ pc \in [Threads ->
               {"idle", "called", "relayed", "returned", "dispatched"}]
    /\ msg \in [Threads -> Messages \cup {NoMessage}]
    /\ at \in [Threads -> Nat]
    /\ cur \in [Threads -> Handlers \cup {NoHandler}]
    /\ seen \in [Threads -> Nat]
    /\ retv \in [Threads -> BOOLEAN]
    /\ called \in [Threads -> Seq(Handlers)]
    /\ stayed \in [Threads -> SUBSET Handlers]

\* No thread runs a handler whose owner was told that it is uninstalled and
\* may destroy it: uninstall waits for the mark of every thread (the relays'
\* receivers, which live on their own, excepted).
NeverRunsUninstalled ==
    \A t \in Threads : pc[t] = "called" => owner[cur[t]] # "out"

\* A dispatch goes on with handlers that sort after the one it called, or
\* after one that was installed since it began at the address of that one:
\* the exact match of the rescan cannot tell the two.  Only then may it pass
\* its message to a handler once more or out of order.
ResumesInOrder ==
    [][\A t \in Threads :
          pc[t] = "returned" /\ pc'[t] = "called" =>
             \/ cur[t] < cur'[t]
             \/ \E g \in Listed \ stayed[t] :
                  Address[g] = Address[cur[t]] /\ g < cur'[t]]_vars

\* A message that no handler accepted, or a broadcast one, was passed to
\* every matching handler that was installed during the whole dispatch.
StayedAreServed ==
    \A t \in Threads :
        pc[t] = "dispatched" /\ ~Accepted(t)
            => stayed[t] \cap msg[t].matches \subseteq ToSet(called[t])

\* The owner that waits in uninstall for a running handler gets its answer.
UninstallReturns ==
    \A h \in Handlers : owner[h] = "leaving" ~> owner[h] = "out"

\* A dispatch ends although handlers come and go while it walks the list.
DispatchReturns ==
    \A t \in Threads : pc[t] # "idle" ~> pc[t] = "idle"
=============================================================================
