------------------------------ MODULE Helpline ------------------------------
(***************************************************************************)
(* The cryptocurrency helpline (yate/modules/cryptocurrencies.cpp): one    *)
(* IVR session per incoming call, driven by the DTMF keys of the caller.   *)
(*                                                                         *)
(* Engine messages wait in one FIFO queue and are handled by Workers, the  *)
(* dispatching threads of the engine; call.route, call.execute and its     *)
(* post-hook run in the router thread of each call.  The DTMF handler      *)
(* copies the session under the lock s_mutex, works on the copy, and       *)
(* stores the whole copy back under the lock, so every section that holds  *)
(* s_mutex is one action and everything between two sections interleaves.  *)
(*                                                                         *)
(* Keys and states are the character codes the code compares; a typed      *)
(* text is a sequence of keys.  The bounds MaxKeys (keys a caller presses) *)
(* and MaxQueue (the queue length beyond which the callers hold back) cap  *)
(* the environment only.                                                   *)
(***************************************************************************)
EXTENDS Integers, Sequences

CONSTANTS Calls,        \* the incoming calls (ids of the SIP channels)
          Workers,      \* message dispatching threads of the engine
          Keys,         \* character codes of the keys a caller may press
          BufSize,      \* sizeof(buf), 77 in the code
          DbMayFail,    \* whether SQLite may report an error
          Tables,       \* tables the database file may hold at the start
          MaxKeys, MaxQueue,
          NoSession,    \* the value of an absent map entry
          Idle          \* a worker without a message

STATE_SUPPORT  == 65
STATE_SUP_ID   == 97
STATE_INIT     == 98
STATE_HODL     == 99
STATE_BUY      == 100
STATE_PHONE    == 101
STATE_KNOWN    == 102
STATE_CREDIT   == 103
STATE_UPDATE   == 104
STATE_CALLBACK == 105
STATE_BYE      == 108

Hash == 35              \* '#'
Zero == 48              \* '0'
One == 49
Two == 50
Three == 51

CALLER_STATE == {STATE_SUPPORT, STATE_SUP_ID, STATE_INIT, STATE_HODL,
                 STATE_BUY, STATE_PHONE, STATE_KNOWN, STATE_CREDIT,
                 STATE_UPDATE, STATE_CALLBACK, STATE_BYE}

\* The keypad has no lower-case letters, so a key is never the code of a
\* state other than STATE_SUPPORT.
ASSUME KeysAssumption == Keys \subseteq 35 .. 68
ASSUME BufAssumption == BufSize \in Nat \ {0}
ASSUME SentinelAssumption == NoSession \notin [state : Int, buf : Seq(Keys),
                    number : Seq(Keys), secret : Seq(Keys), dumb : BOOLEAN]
ASSUME DbAssumption ==
  /\ DbMayFail \in BOOLEAN
  /\ Tables \subseteq Seq([number : Seq(Keys), creditcard : Seq(Keys)])
  /\ \A t \in Tables : \A u \in DOMAIN t : Len(t[u].creditcard) < BufSize
  /\ \A t \in Tables : \A u, v \in DOMAIN t : t[u].number = t[v].number => u = v
ASSUME BoundAssumption == MaxKeys \in Nat /\ MaxQueue \in Nat

VARIABLES
  clients,    \* session of every call, or NoSession
  db,         \* rows of table cryptohelp; the uid of a row is its position
  queue,      \* messages waiting in the engine
  pc,         \* step the worker is at
  job,        \* message the worker handles
  cur,        \* the copy cur_state of the DTMF handler, or the one of notify
  newfile,    \* prompt the DTMF handler is about to attach
  router,     \* step the router thread of the call is at
  chan,       \* life of the caller's channel
  playing,    \* prompt attached to the dumb channel of the call
  pressed,    \* number of keys the caller of a channel has pressed
  replies,    \* DTMF texts handed to sender threads
  written     \* history: <<number, creditcard>> pairs ever stored

vars == <<clients, db, queue, pc, job, cur, newfile, router, chan, playing,
          pressed, replies, written>>
worker == <<pc, job, cur, newfile>>
line   == <<router, chan, playing, pressed>>
store  == <<db, replies, written>>

-----------------------------------------------------------------------------
(* Data *)

Text == Seq(Keys)
State == CALLER_STATE \cup Keys

\* struct client_state.  offset is Len(buf); uid is never read; dumb says
\* whether dumbchan_id has been set.
Session == [state : State, buf : Text, number : Text, secret : Text,
            dumb : BOOLEAN]

Row == [number : Text, creditcard : Text]

\* What the switch asks to be played: nothing, a file, or a file repeated for
\* ever (autorepeat).
Newfile == {"none", "file", "loop"}

\* A prompt on the dumb channel: one that does not report (nor does silence),
\* one that reports with chan.notify when it ends, and one that repeats and
\* reports when it is replaced.
Prompt == {"plain", "once", "loop"}

Dtmf(c, k)      == [type |-> "chan.dtmf", call |-> c, key |-> k]
Attach(c, p)    == [type |-> "chan.attach", call |-> c, prompt |-> p]
Notify(c)       == [type |-> "chan.notify", call |-> c]
Hangup(c)       == [type |-> "chan.hangup", call |-> c]

Message == [type : {"chan.dtmf"}, call : Calls, key : Keys]
           \cup [type : {"chan.attach"}, call : Calls, prompt : Prompt]
           \cup [type : {"chan.notify", "chan.hangup"}, call : Calls]

ASSUME IdleAssumption == Idle \notin Message

\* uid as the decimal text SQLite and to_string print
Decimal[n \in Nat] == IF n < 10 THEN <<Zero + n>>
                      ELSE Append(Decimal[n \div 10], Zero + (n % 10))

\* number and secret hold at most sizeof - 1 characters
Truncate(t) == IF Len(t) < BufSize THEN t ELSE SubSeq(t, 1, BufSize - 1)

\* The keypad has no LIKE wildcard, so LIKE is equality on what is typed.
RowsWithNumber(n) == {u \in DOMAIN db : db[u].number = n}
\* (faulty variant: uids counted from 0)
RowsWithUid_FromZero(t) == {u \in DOMAIN db : Decimal[u - 1] = t}
RowsWithUid(t)    == {u \in DOMAIN db : Decimal[u] = t}

\* Faulty variant: the state byte stays 0.
FreshSession_NoState == [state |-> 0, buf |-> <<>>, number |-> <<>>,
                         secret |-> <<>>, dumb |-> FALSE]

\* The session RouteHandler stores: the zeroed struct in state INIT.
FreshSession == [state |-> STATE_INIT, buf |-> <<>>, number |-> <<>>,
                 secret |-> <<>>, dumb |-> FALSE]

-----------------------------------------------------------------------------
(* The engine: queue, workers, and the steps a handler is made of *)

Post(m) == queue' = Append(queue, m)

\* A worker takes the oldest message; its handler then runs step by step.
Dequeue(w) ==
  /\ pc[w] = "idle"
  /\ queue # <<>>
  /\ job' = [job EXCEPT ![w] = Head(queue)]
  /\ queue' = Tail(queue)
  /\ pc' = [pc EXCEPT ![w] = Head(queue).type]
  /\ UNCHANGED <<clients, cur, newfile, line, store>>

\* The handler returns, with nothing left behind in the thread.
Return(w) ==
  /\ pc' = [pc EXCEPT ![w] = "idle"]
  /\ job' = [job EXCEPT ![w] = Idle]
  /\ cur' = [cur EXCEPT ![w] = NoSession]
  /\ newfile' = [newfile EXCEPT ![w] = "none"]

\* The switch ends with the copy being s and the prompt f.
Continue(w, s, f) ==
  /\ cur' = [cur EXCEPT ![w] = s]
  /\ newfile' = [newfile EXCEPT ![w] = f]
  /\ pc' = [pc EXCEPT ![w] = IF f = "none" THEN "store" ELSE "attach"]
  /\ UNCHANGED job

Goto(s, st)  == [s EXCEPT !.state = st]
Enter(s, st) == [s EXCEPT !.state = st, !.buf = <<>>]
Fail(w)      == Continue(w, Goto(cur[w], STATE_BYE), "file")

\* Faulty variant: no limit.
Collect_NoLimit(s, k) == [s EXCEPT !.buf = Append(@, k)]

\* if(offset < sizeof(buf)) buf[offset++] = text[0]
Collect(s, k) == IF Len(s.buf) < BufSize THEN [s EXCEPT !.buf = Append(@, k)] ELSE s

\* send_dtmf: a sender thread of its own plays text to the caller.
Send(w, kind, about, text) ==
  replies' = replies \cup {[call |-> job[w].call, kind |-> kind,
                            about |-> about, text |-> text]}

-----------------------------------------------------------------------------
(* DtmfHandler *)

\* Faulty variant: indexing the map makes a session for an unknown call.
DtmfCopy_Creates(w) ==
  /\ pc[w] = "chan.dtmf"
  /\ clients' = IF clients[job[w].call] # NoSession THEN clients
                ELSE [clients EXCEPT ![job[w].call] = FreshSession]
  /\ cur' = [cur EXCEPT ![w] = clients'[job[w].call]]
  /\ pc' = [pc EXCEPT ![w] = "switch"]
  /\ UNCHANGED <<job, newfile, queue, line, store>>

\* First locked section: copy the session, or ignore an unknown call.
DtmfCopy(w) ==
  /\ pc[w] = "chan.dtmf"
  /\ IF clients[job[w].call] = NoSession
     THEN Return(w)
     ELSE /\ cur' = [cur EXCEPT ![w] = clients[job[w].call]]
          /\ pc' = [pc EXCEPT ![w] = "switch"]
          /\ UNCHANGED <<job, newfile>>
  /\ UNCHANGED <<clients, queue, line, store>>

In(w, st) == pc[w] = "switch" /\ cur[w].state = st
Key(w) == job[w].key

OnInit(w) ==
  /\ In(w, STATE_INIT)
  /\ IF Key(w) = One THEN Continue(w, Goto(cur[w], STATE_HODL), "file")
                     ELSE Continue(w, Goto(cur[w], STATE_BUY), "file")
  /\ UNCHANGED store

OnHodl(w) ==
  /\ In(w, STATE_HODL)
  /\ IF Key(w) - Zero < 3
     THEN Continue(w, Goto(cur[w], STATE_BUY), "file")
     ELSE Continue(w, Enter(cur[w], STATE_PHONE), "file")
  /\ UNCHANGED store

OnBuy(w) ==
  /\ In(w, STATE_BUY)
  /\ IF Key(w) = One THEN Continue(w, Enter(cur[w], STATE_PHONE), "file")
                     ELSE Continue(w, Goto(cur[w], STATE_BYE), "file")
  /\ UNCHANGED store

\* Faulty variant: the number is looked up but not kept in the session.
Lookup_KeepsOldNumber(w) ==
  LET n == Truncate(cur[w].buf)
  IN \/ \E u \in RowsWithNumber(n) :
          Continue(w, [Goto(cur[w], STATE_KNOWN) EXCEPT
                         !.secret = Truncate(db[u].creditcard)], "file")
     \/ RowsWithNumber(n) = {} /\ Continue(w, Enter(cur[w], STATE_CREDIT), "file")

\* The typed number is looked up: its owner is asked what to do, anybody
\* else for a credit card.
Lookup(w) ==
  LET n     == Truncate(cur[w].buf)
      named == [cur[w] EXCEPT !.number = n]
  IN \/ /\ RowsWithNumber(n) # {}
        /\ \E u \in RowsWithNumber(n) :
             Continue(w, [Goto(named, STATE_KNOWN) EXCEPT
                            !.secret = Truncate(db[u].creditcard)], "file")
     \/ /\ RowsWithNumber(n) = {} \/ DbMayFail
        /\ Continue(w, Enter(named, STATE_CREDIT), "file")
     \/ DbMayFail /\ Continue(w, Goto(named, STATE_BYE), "file")

OnPhone(w) ==
  /\ In(w, STATE_PHONE)
  /\ IF Key(w) = Hash THEN Lookup(w) ELSE Continue(w, Collect(cur[w], Key(w)), "none")
  /\ UNCHANGED store

\* Faulty variant: key 2 reads out what was typed last.
OnKnown_SendsBuf(w) ==
  /\ In(w, STATE_KNOWN)
  /\ \/ Key(w) = Two /\ Send(w, "secret", cur[w].number, cur[w].buf) /\ Continue(w, cur[w], "none")
     \/ Key(w) # Two /\ Continue(w, Enter(cur[w], STATE_UPDATE), "file") /\ UNCHANGED replies
  /\ UNCHANGED <<db, written>>

OnKnown(w) ==
  /\ In(w, STATE_KNOWN)
  /\ \/ Key(w) = One /\ Continue(w, Goto(cur[w], STATE_BYE), "loop") /\ UNCHANGED replies
     \/ /\ Key(w) = Two
        /\ Send(w, "secret", cur[w].number, cur[w].secret)
        /\ Continue(w, cur[w], "none")
     \/ Key(w) = Three /\ Continue(w, Enter(cur[w], STATE_UPDATE), "file") /\ UNCHANGED replies
     \/ Key(w) \notin {One, Two, Three} /\ Continue(w, cur[w], "file") /\ UNCHANGED replies
  /\ UNCHANGED <<db, written>>

\* The new card is stored for the number of the session.
ChangeCard(w) ==
  LET card  == Truncate(cur[w].buf)
      named == [cur[w] EXCEPT !.secret = card]
      n     == cur[w].number
  IN \/ /\ db' = [u \in DOMAIN db |->
                    IF db[u].number = n THEN [db[u] EXCEPT !.creditcard = card] ELSE db[u]]
        /\ written' = written \cup {<<n, card>> : u \in RowsWithNumber(n)}
        /\ Continue(w, Enter(named, STATE_KNOWN), "file")
     \/ DbMayFail /\ Return(w) /\ UNCHANGED <<db, written>>
     \/ DbMayFail /\ Continue(w, Goto(named, STATE_BYE), "file") /\ UNCHANGED <<db, written>>

OnUpdate(w) ==
  /\ In(w, STATE_UPDATE)
  /\ IF Key(w) = Hash
     THEN ChangeCard(w)
     ELSE Continue(w, Collect(cur[w], Key(w)), "none") /\ UNCHANGED <<db, written>>
  /\ UNCHANGED replies

\* The test is offset <= sizeof(buf): the key after the last byte of buf is
\* stored into state, the member that follows it.
CollectCredit(s, k) ==
  IF Len(s.buf) < BufSize THEN [s EXCEPT !.buf = Append(@, k)]
  ELSE IF Len(s.buf) = BufSize THEN [s EXCEPT !.buf = Append(@, k), !.state = k]
  ELSE s

\* Faulty variants: no UNIQUE column; the row id read before the insertion.
Register_NotUnique(w) ==
  LET n == cur[w].number
  IN /\ db' = Append(db, [number |-> n, creditcard |-> Truncate(cur[w].buf)])
     /\ written' = written \cup {<<n, Truncate(cur[w].buf)>>}
     /\ Send(w, "uid", n, Append(Decimal[Len(db) + 1], Hash))
     /\ Continue(w, Enter(cur[w], STATE_CALLBACK), "file")

Register_ReadsUidFirst(w) ==
  LET n == cur[w].number
  IN /\ RowsWithNumber(n) = {}
     /\ db' = Append(db, [number |-> n, creditcard |-> Truncate(cur[w].buf)])
     /\ written' = written \cup {<<n, Truncate(cur[w].buf)>>}
     /\ Send(w, "uid", n, Append(Decimal[Len(db)], Hash))
     /\ Continue(w, Enter(cur[w], STATE_CALLBACK), "file")

\* A new row; column number is UNIQUE, so the insertion of a number another
\* call has registered meanwhile fails.
Register(w) ==
  LET card  == Truncate(cur[w].buf)
      named == [cur[w] EXCEPT !.secret = card]
      n     == cur[w].number
  IN \/ /\ RowsWithNumber(n) = {}
        /\ db' = Append(db, [number |-> n, creditcard |-> card])
        /\ written' = written \cup {<<n, card>>}
        /\ Send(w, "uid", n, Append(Decimal[Len(db) + 1], Hash))
        /\ Continue(w, Enter(named, STATE_CALLBACK), "file")
     \/ /\ RowsWithNumber(n) # {} \/ DbMayFail
        /\ Continue(w, Goto(named, STATE_BYE), "file")
        /\ UNCHANGED store
     \/ DbMayFail /\ Return(w) /\ UNCHANGED store

OnCredit(w) ==
  /\ In(w, STATE_CREDIT)
  /\ IF Key(w) = Hash
     THEN Register(w)
     ELSE Continue(w, CollectCredit(cur[w], Key(w)), "none") /\ UNCHANGED store

OnCallback(w) ==
  /\ In(w, STATE_CALLBACK)
  /\ Continue(w, Goto(cur[w], STATE_BYE), IF Key(w) = Two THEN "loop" ELSE "file")
  /\ UNCHANGED store

\* STATE_BYE and every value that is no state: nothing is stored back.
OnBye(w) ==
  /\ pc[w] = "switch"
  /\ cur[w].state \notin CALLER_STATE \ {STATE_BYE}
  /\ Return(w)
  /\ UNCHANGED store

\* The count is read from column 1 of a result that has column 0 only, which
\* SQLite answers with 0.
OnSupport(w) ==
  /\ In(w, STATE_SUPPORT)
  /\ \/ /\ Key(w) = One
        /\ \/ Send(w, "count", Decimal[Len(db)], Decimal[0]) /\ Continue(w, cur[w], "file")
           \/ DbMayFail /\ Continue(w, cur[w], "file") /\ UNCHANGED replies
           \/ DbMayFail /\ Fail(w) /\ UNCHANGED replies
     \/ Key(w) = Two /\ Continue(w, Enter(cur[w], STATE_SUP_ID), "file") /\ UNCHANGED replies
     \/ Key(w) \notin {One, Two} /\ Continue(w, cur[w], "file") /\ UNCHANGED replies
  /\ UNCHANGED <<db, written>>

OnSupId(w) ==
  /\ In(w, STATE_SUP_ID)
  /\ \/ /\ Key(w) = Hash
        /\ \/ \E u \in RowsWithUid(cur[w].buf) :
                /\ Send(w, "card", cur[w].buf, db[u].creditcard)
                /\ Continue(w, Goto(cur[w], STATE_SUPPORT), "none")
           \/ /\ RowsWithUid(cur[w].buf) = {} \/ DbMayFail
              /\ Fail(w) /\ UNCHANGED replies
     \/ Key(w) # Hash /\ Continue(w, Collect(cur[w], Key(w)), "none") /\ UNCHANGED replies
  /\ UNCHANGED <<db, written>>

DtmfSwitch(w) ==
  /\ \/ OnInit(w) \/ OnHodl(w) \/ OnBuy(w) \/ OnPhone(w) \/ OnKnown(w)
     \/ OnUpdate(w) \/ OnCredit(w) \/ OnCallback(w) \/ OnBye(w)
     \/ OnSupport(w) \/ OnSupId(w)
  /\ UNCHANGED <<clients, queue, line>>

\* Faulty variant: notify is never asked for.
DtmfAttach_NoNotify(w) ==
  /\ pc[w] = "attach"
  /\ Post(Attach(job[w].call, "plain"))
  /\ pc' = [pc EXCEPT ![w] = "store"]
  /\ UNCHANGED <<clients, job, cur, newfile, line, store>>

\* The prompt is enqueued before the session is stored.
DtmfAttach(w) ==
  /\ pc[w] = "attach"
  /\ Post(Attach(job[w].call, IF cur[w].state # STATE_BYE THEN "plain"
                               ELSE IF newfile[w] = "loop" THEN "loop" ELSE "once"))
  /\ pc' = [pc EXCEPT ![w] = "store"]
  /\ UNCHANGED <<clients, job, cur, newfile, line, store>>

\* Faulty variant: the session is not stored back.
DtmfStore_Forgets(w) ==
  /\ pc[w] = "store"
  /\ Return(w)
  /\ UNCHANGED <<clients, queue, line, store>>

\* Last locked section: the whole copy replaces the session, whatever has
\* happened to it since the copy was made.
DtmfStore(w) ==
  /\ pc[w] = "store"
  /\ clients' = [clients EXCEPT ![job[w].call] = cur[w]]
  /\ Return(w)
  /\ UNCHANGED <<queue, line, store>>

-----------------------------------------------------------------------------
(* The other handlers, and what the engine does for them *)

\* HangupHandler
HandleHangup(w) ==
  /\ pc[w] = "chan.hangup"
  /\ clients' = [clients EXCEPT ![job[w].call] = NoSession]
  /\ Return(w)
  /\ UNCHANGED <<queue, line, store>>

\* NotifyHandler, locked section: copy the session the prompt belonged to.
NotifyCopy(w) ==
  /\ pc[w] = "chan.notify"
  /\ IF clients[job[w].call] = NoSession
     THEN Return(w)
     ELSE /\ cur' = [cur EXCEPT ![w] = clients[job[w].call]]
          /\ pc' = [pc EXCEPT ![w] = "drop"]
          /\ UNCHANGED <<job, newfile>>
  /\ UNCHANGED <<clients, queue, line, store>>

\* call.drop names a channel; with an empty id every driver drops all its
\* channels.
Dropped(c, s) == IF s.dumb THEN {c} ELSE Calls

NotifyDrop(w) ==
  /\ pc[w] = "drop"
  /\ chan' = IF cur[w].state = STATE_BYE
             THEN [c \in Calls |-> IF c \in Dropped(job[w].call, cur[w]) /\ chan[c] = "up"
                                   THEN "ending" ELSE chan[c]]
             ELSE chan
  /\ Return(w)
  /\ UNCHANGED <<clients, queue, router, playing, pressed, store>>

\* A masqueraded chan.attach: the wave file starts to play on the dumb
\* channel; the source it replaces reports to the module if asked to.  A
\* file that cannot be opened reports at once.
HandleAttach(w) ==
  LET c   == job[w].call
      p   == job[w].prompt
      Report(q) == IF q = "plain" THEN <<>> ELSE <<Notify(c)>>
  IN /\ pc[w] = "chan.attach"
     /\ \/ /\ chan[c] = "up"
           /\ playing' = [playing EXCEPT ![c] = p]
           /\ queue' = queue \o Report(playing[c])
        \/ /\ chan[c] = "up"
           /\ playing' = [playing EXCEPT ![c] = "plain"]
           /\ queue' = queue \o Report(playing[c]) \o Report(p)
        \/ chan[c] # "up" /\ UNCHANGED <<playing, queue>>
     /\ Return(w)
     /\ UNCHANGED <<clients, router, chan, pressed, store>>

\* A reporting prompt ends at the end of its file, unless it repeats, or when
\* its channel is gone.
PromptEnds(c) ==
  /\ playing[c] = "once" \/ (playing[c] = "loop" /\ chan[c] # "up")
  /\ playing' = [playing EXCEPT ![c] = "plain"]
  /\ Post(Notify(c))
  /\ UNCHANGED <<clients, worker, router, chan, pressed, store>>

-----------------------------------------------------------------------------
(* The caller, and the router thread of its call *)

IncomingCall(c) ==
  /\ chan[c] = "none"
  /\ chan' = [chan EXCEPT ![c] = "up"]
  /\ router' = [router EXCEPT ![c] = "route"]
  /\ UNCHANGED <<clients, queue, worker, playing, pressed, store>>

RouterGoto(c, s) == router' = [router EXCEPT ![c] = s]

\* RouteHandler on call.route
Route(c) ==
  /\ router[c] = "route"
  /\ clients' = [clients EXCEPT ![c] = FreshSession]
  /\ RouterGoto(c, "execute")
  /\ UNCHANGED <<queue, worker, chan, playing, pressed, store>>

\* call.execute connects a dumb channel; it may be refused, and the channel
\* may have vanished while it was routed.
Execute(c) ==
  /\ router[c] = "execute"
  /\ \/ RouterGoto(c, "hook") /\ UNCHANGED chan
     \/ RouterGoto(c, "done") /\ chan[c] # "up" /\ UNCHANGED chan
     \/ RouterGoto(c, "done") /\ chan' = [chan EXCEPT ![c] = IF @ = "up" THEN "ending" ELSE @]
  /\ UNCHANGED <<clients, queue, worker, playing, pressed, store>>

\* Faulty variant: the target of the call is not recorded.
HookTarget_Forgets(c) ==
  /\ router[c] = "hook"
  /\ RouterGoto(c, IF clients[c] = NoSession THEN "done" ELSE "answer")
  /\ UNCHANGED <<clients, queue, worker, chan, playing, pressed, store>>

\* MessageWatcher, the post-hook of call.execute: locked section
HookTarget(c) ==
  /\ router[c] = "hook"
  /\ IF clients[c] = NoSession
     THEN RouterGoto(c, "done") /\ UNCHANGED clients
     ELSE /\ clients' = [clients EXCEPT ![c].dumb = TRUE]
          /\ RouterGoto(c, "answer")
  /\ UNCHANGED <<queue, worker, chan, playing, pressed, store>>

\* MessageWatcher answers the call, which fails once the channel is gone.
HookAnswer(c) ==
  /\ router[c] = "answer"
  /\ \/ chan[c] = "up" /\ RouterGoto(c, "welcome")
     \/ chan[c] # "up" /\ \E s \in {"welcome", "done"} : RouterGoto(c, s)
  /\ UNCHANGED <<clients, queue, worker, chan, playing, pressed, store>>

HookWelcome(c) ==
  /\ router[c] = "welcome"
  /\ Post(Attach(c, "plain"))
  /\ RouterGoto(c, "done")
  /\ UNCHANGED <<clients, worker, chan, playing, pressed, store>>

\* The caller of an answered call presses a key.
Press(c, k) ==
  /\ chan[c] = "up"
  /\ router[c] \in {"welcome", "done"}
  /\ pressed[c] < MaxKeys
  /\ Len(queue) < MaxQueue
  /\ pressed' = [pressed EXCEPT ![c] = @ + 1]
  /\ Post(Dtmf(c, k))
  /\ UNCHANGED <<clients, worker, router, chan, playing, store>>

\* The caller, a timeout or a failure ends the call.
HangUp(c) ==
  /\ chan[c] = "up"
  /\ chan' = [chan EXCEPT ![c] = "ending"]
  /\ UNCHANGED <<clients, queue, worker, router, playing, pressed, store>>

\* The channel is destroyed and announces it; "cancelled" remembers that
\* call.route had not been handled yet.
ChannelDestroyed(c) ==
  /\ chan[c] = "ending"
  /\ Post(Hangup(c))
  /\ chan' = [chan EXCEPT ![c] = IF router[c] = "route" THEN "cancelled" ELSE "gone"]
  /\ pressed' = [pressed EXCEPT ![c] = 0]
  /\ UNCHANGED <<clients, worker, router, playing, store>>

-----------------------------------------------------------------------------
Init ==
  /\ clients = [c \in Calls |-> NoSession]
  /\ db \in Tables
  /\ queue = <<>>
  /\ pc = [w \in Workers |-> "idle"]
  /\ job = [w \in Workers |-> Idle]
  /\ cur = [w \in Workers |-> NoSession]
  /\ newfile = [w \in Workers |-> "none"]
  /\ router = [c \in Calls |-> "idle"]
  /\ chan = [c \in Calls |-> "none"]
  /\ playing = [c \in Calls |-> "plain"]
  /\ pressed = [c \in Calls |-> 0]
  /\ replies = {}
  /\ written = {<<db[u].number, db[u].creditcard>> : u \in DOMAIN db}

Handler(w) ==
  \/ DtmfCopy(w) \/ DtmfSwitch(w) \/ DtmfAttach(w) \/ DtmfStore(w)
  \/ HandleHangup(w) \/ NotifyCopy(w) \/ NotifyDrop(w) \/ HandleAttach(w)

Work(w) == Dequeue(w) \/ Handler(w)

RouterStep(c) == \/ Route(c) \/ Execute(c) \/ HookTarget(c) \/ HookAnswer(c)
                 \/ HookWelcome(c)

Line(c) == \/ IncomingCall(c) \/ HangUp(c) \/ \E k \in Keys : Press(c, k)

Next == \/ \E w \in Workers : Work(w)
        \/ \E c \in Calls : \/ Line(c) \/ RouterStep(c)
                            \/ PromptEnds(c) \/ ChannelDestroyed(c)

Spec == Init /\ [][Next]_vars

\* Threads run, files end and channels get destroyed; callers owe nothing.
Fairness == /\ \A w \in Workers : WF_vars(Work(w))
            /\ \A c \in Calls : /\ WF_vars(RouterStep(c))
                                /\ WF_vars(PromptEnds(c))
                                /\ WF_vars(ChannelDestroyed(c))
FairSpec == Spec /\ Fairness

(* What must hold, however the workers interleave *)

\* Every variable keeps its type; in particular the state byte is a state of
\* enum CALLER_STATE or a key.
WorkersOK ==
  /\ pc \in [Workers -> {"idle", "chan.dtmf", "chan.attach", "chan.notify",
                         "chan.hangup", "switch", "attach", "store", "drop"}]
  /\ job \in [Workers -> Message \cup {Idle}]
  /\ cur \in [Workers -> Session \cup {NoSession}]
  /\ newfile \in [Workers -> Newfile]

LinesOK ==
  /\ router \in [Calls -> {"idle", "route", "execute", "hook", "answer",
                           "welcome", "done"}]
  /\ chan \in [Calls -> {"none", "up", "ending", "cancelled", "gone"}]
  /\ playing \in [Calls -> Prompt]
  /\ pressed \in [Calls -> Nat]

StoreOK ==
  /\ db \in Seq(Row)
  /\ \A r \in replies : r.call \in Calls /\ r.kind \in {"secret", "uid", "count", "card"}
  /\ written \in SUBSET (Text \X Text)

TypeOK ==
  /\ clients \in [Calls -> Session \cup {NoSession}]
  /\ queue \in Seq(Message)
  /\ WorkersOK /\ LinesOK /\ StoreOK

\* P holds of every session in the map and of every copy a worker holds.
EverySession(P(_)) ==
  /\ \A c \in Calls : clients[c] # NoSession => P(clients[c])
  /\ \A w \in Workers : cur[w] # NoSession => P(cur[w])

\* Whoever is asked what to do with an account, or is changing its card, has
\* typed a number that is registered: the row found by PHONE cannot vanish
\* under a session copied before, nor can a failed INSERT lead there.
Registered(s) == s.state \in {STATE_KNOWN, STATE_UPDATE, STATE_CALLBACK} =>
                   RowsWithNumber(s.number) # {}
KnownIsRegistered == EverySession(Registered)

\* The three records of an account agree: the table, what was ever stored,
\* and the copies in the sessions, where an old card may survive but never
\* one of another number.
CardIsStored(s) == s.state \in {STATE_KNOWN, STATE_UPDATE} =>
                     <<s.number, s.secret>> \in written
RowsAreStored ==
  \A u \in DOMAIN db : /\ <<db[u].number, db[u].creditcard>> \in written
                       /\ Len(db[u].creditcard) < BufSize
AccountsAgree ==
  KnownIsRegistered /\ EverySession(CardIsStored) /\ RowsAreStored

\* The card a session reads out was stored for the number it was opened
\* with: no interleaving mixes the cards of two numbers.
SecretIsOwn ==
  \A r \in replies : r.kind = "secret" => <<r.about, r.text>> \in written

\* The uid a caller hears after registering is the row of its own number,
\* although the row id is asked for in a second call to the database.
UidIsOwn ==
  \A r \in replies : r.kind = "uid" =>
    \E u \in DOMAIN db : /\ r.text = Append(Decimal[u], Hash)
                         /\ db[u].number = r.about

\* A support query by uid reads out a card that was stored for that very row,
\* not for the one registered before or after it.
CardIsOfUid ==
  \A r \in replies : r.kind = "card" =>
    \E u \in DOMAIN db : /\ r.about = Decimal[u]
                         /\ <<db[u].number, r.text>> \in written

\* The user count a support caller hears is the highest uid.
CountIsUserCount ==
  \A r \in replies : r.kind = "count" => r.text = r.about

\* Two callers who type the same new number at the same time get one account.
OneAccountPerNumber ==
  \A u, v \in DOMAIN db : db[u].number = db[v].number => u = v

\* No key is stored beyond the byte that follows buf, and that byte only
\* once: a second overrun needs a state that collects keys again.
InBounds(s) == Len(s.buf) <= BufSize + 1
WritesStayInSession == EverySession(InBounds)

\* A step ends one call at most: the notify handler never sends call.drop
\* with the empty id that makes every driver drop all its channels.
Ends(c) == chan[c] = "up" /\ chan'[c] = "ending"
NeverDropsOthers == [][\A c, d \in Calls : Ends(c) /\ Ends(d) => c = d]_vars

=============================================================================
