----------------------------- MODULE Timeouter -----------------------------
(***************************************************************************)
(* The module that drops calls which last too long                         *)
(* (yate/modules/timeouter.cpp).  Its post-hook of call.execute records    *)
(* every connected call with the time, and on that occasion, under its     *)
(* lock, asks the engine to drop the recorded calls older than Limit.      *)
(*                                                                         *)
(* Time is counted in units of which Limit make the 360 seconds of the     *)
(* code; it is bounded by MaxTime.                                         *)
(***************************************************************************)
EXTENDS Integers

CONSTANTS Calls,      \* ids of the incoming calls, never reused
          Limit, MaxTime

ASSUME LimitAssumption == Limit \in Nat
ASSUME TimeAssumption == MaxTime \in Nat

VARIABLES now,          \* time(NULL)
          connections,  \* recorded pairs <<time, id>>
          dropping,     \* call.drop messages the engine has not handled
          up,           \* calls that are connected
          started,      \* time a call was recorded, or -1
          lastExecute   \* time of the latest call.execute, or -1

tvars == <<now, connections, dropping, up, started, lastExecute>>

Age(p) == now - p[1]

\* Faulty variant: one time unit too early.
Overdue_OffByOne(p) == Age(p) >= Limit
Overdue(p) == Age(p) > Limit

TInit == /\ now = 0
         /\ connections = {}
         /\ dropping = {}
         /\ up = {}
         /\ started = [c \in Calls |-> -1]
         /\ lastExecute = -1

Tick == /\ now < MaxTime
        /\ now' = now + 1
        /\ UNCHANGED <<connections, dropping, up, started, lastExecute>>

\* A handler of call.execute connects the call ...
Connect(c) == /\ c \notin up /\ started[c] = -1
              /\ up' = up \cup {c}
              /\ UNCHANGED <<now, connections, dropping, started, lastExecute>>

\* Faulty variant: the record erased without dropping the call.
Execute_Forgets(c) ==
  LET recorded == connections \cup {<<now, c>>}
  IN /\ started[c] = -1
     /\ started' = [started EXCEPT ![c] = now]
     /\ lastExecute' = now
     /\ connections' = {p \in recorded : ~ Overdue(p)}
     /\ UNCHANGED <<now, dropping, up>>

\* ... and the post-hook runs later; meanwhile the call may have ended.  The
\* loop of MessageWatcher stops at the first record that is not overdue;
\* records are sorted by time, so all overdue ones are gone.
Execute(c) ==
  LET recorded == connections \cup {<<now, c>>}
      overdue  == {p \in recorded : Overdue(p)}
  IN /\ started[c] = -1
     /\ started' = [started EXCEPT ![c] = now]
     /\ lastExecute' = now
     /\ connections' = recorded \ overdue
     /\ dropping' = dropping \cup {p[2] : p \in overdue}
     /\ UNCHANGED <<now, up>>

\* The engine handles call.drop; the call may have ended already.
Drop(c) == /\ c \in dropping
           /\ dropping' = dropping \ {c}
           /\ up' = up \ {c}
           /\ UNCHANGED <<now, connections, started, lastExecute>>

\* A call ends by itself; its record stays.
Hangup(c) == /\ c \in up
             /\ up' = up \ {c}
             /\ UNCHANGED <<now, connections, dropping, started, lastExecute>>

TNext == Tick \/ \E c \in Calls : Connect(c) \/ Execute(c) \/ Drop(c) \/ Hangup(c)

TSpec == TInit /\ [][TNext]_tvars

-----------------------------------------------------------------------------
\* Every variable keeps its type.
TimeouterTypeOK ==
  /\ now \in 0 .. MaxTime
  /\ connections \subseteq (0 .. MaxTime) \X Calls
  /\ dropping \subseteq Calls
  /\ up \subseteq Calls
  /\ started \in [Calls -> -1 .. MaxTime]
  /\ lastExecute \in -1 .. MaxTime

\* No call is dropped before its time is up, and a call that is still
\* connected is not forgotten: it is on record or about to be dropped.
NeverTooEarly ==
  \A c \in dropping : now - started[c] > Limit
Remembered ==
  \A c \in up : started[c] # -1 => <<started[c], c>> \in connections \/ c \in dropping

\* The record is bounded by the calls of one Limit: none that was overdue
\* at the latest call.execute is left.
RecordIsRecent ==
  \A p \in connections : lastExecute - p[1] <= Limit
=============================================================================
