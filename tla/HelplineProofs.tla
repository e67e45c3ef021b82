--------------------------- MODULE HelplineProofs ---------------------------
(* Theorems about Helpline, for any number of calls and workers.           *)
EXTENDS Helpline, SequenceTheorems, FiniteSetTheorems, WellFoundedInduction,
        TLAPS

USE DEF STATE_SUPPORT, STATE_SUP_ID, STATE_INIT, STATE_HODL, STATE_BUY,
        STATE_PHONE, STATE_KNOWN, STATE_CREDIT, STATE_UPDATE, STATE_CALLBACK,
        STATE_BYE

\* What the worker holds at each step of a handler.
Copied == {"switch", "attach", "store", "drop"}
Handled(w) ==
  /\ pc[w] # "idle" => job[w] \in Message
  /\ pc[w] \in Copied => cur[w] \in Session
  /\ pc[w] \in {"switch", "chan.dtmf"} => job[w].key \in Keys
  /\ pc[w] = "chan.attach" => job[w].prompt \in Prompt
HandledOK == \A w \in Workers : Handled(w)

TInv == TypeOK /\ HandledOK

-----------------------------------------------------------------------------
(* The operations on a session and on a text keep their types *)

\* Truncation yields a text, shorter than the buffer.
LEMMA TruncateType ==
  ASSUME NEW t \in Text
  PROVE  Truncate(t) \in Text /\ Len(Truncate(t)) < BufSize
BY BufAssumption, SMT DEF Truncate, Text

\* The state byte may be set to any state.
LEMMA GotoType ==
  ASSUME NEW s \in Session, NEW st \in State
  PROVE  Goto(s, st) \in Session
BY DEF Goto, Session

\* Entering a state that collects keys empties the buffer.
LEMMA EnterType ==
  ASSUME NEW s \in Session, NEW st \in State
  PROVE  Enter(s, st) \in Session
<1>1. <<>> \in Text
  BY DEF Text
<1>2. QED
  BY <1>1 DEF Enter, Session

\* Collecting a key keeps the session a session.
LEMMA CollectType ==
  ASSUME NEW s \in Session, NEW k \in Keys
  PROVE  Collect(s, k) \in Session
<1>1. Append(s.buf, k) \in Text
  BY DEF Session, Text
<1>2. QED
  BY <1>1 DEF Collect, Session

\* So does collecting a credit card, which may set the state byte to a key.
LEMMA CollectCreditType ==
  ASSUME NEW s \in Session, NEW k \in Keys
  PROVE  CollectCredit(s, k) \in Session
<1>1. Append(s.buf, k) \in Text
  BY DEF Session, Text
<1>2. k \in State
  BY DEF State
<1>3. QED
  BY <1>1, <1>2 DEF CollectCredit, Session

\* The number and the secret of a session are replaced by texts.
LEMMA NumberType ==
  ASSUME NEW s \in Session, NEW t \in Text
  PROVE  [s EXCEPT !.number = t] \in Session /\ [s EXCEPT !.secret = t] \in Session
BY DEF Session

-----------------------------------------------------------------------------
(* How a handler leaves or continues *)

\* A handler that returns leaves an idle worker.
LEMMA ReturnOK ==
  ASSUME NEW w \in Workers, WorkersOK, HandledOK, Return(w)
  PROVE  WorkersOK' /\ HandledOK'
<1>1. WorkersOK'
  BY DEF WorkersOK, Return, Newfile
<1>2. HandledOK'
  BY DEF HandledOK, Handled, WorkersOK, Return, Copied
<1>3. QED
  BY <1>1, <1>2

\* The switch ends with a session in the worker's hands.
LEMMA ContinueOK ==
  ASSUME NEW w \in Workers, NEW s \in Session, NEW f \in Newfile,
         WorkersOK, HandledOK, pc[w] = "switch", Continue(w, s, f)
  PROVE  WorkersOK' /\ HandledOK'
<1>1. WorkersOK'
  BY DEF WorkersOK, Continue
<1>2. HandledOK'
  BY DEF HandledOK, Handled, WorkersOK, Continue, Copied
<1>3. QED
  BY <1>1, <1>2

\* A message posted to the queue is a message.
LEMMA PostOK ==
  ASSUME queue \in Seq(Message), NEW m \in Message, Post(m)
  PROVE  queue' \in Seq(Message)
BY DEF Post

\* The messages of the module are messages.
LEMMA MessageType ==
  ASSUME NEW c \in Calls
  PROVE  /\ \A k \in Keys : Dtmf(c, k) \in Message
         /\ \A p \in Prompt : Attach(c, p) \in Message
         /\ Notify(c) \in Message
         /\ Hangup(c) \in Message
BY DEF Dtmf, Attach, Notify, Hangup, Message

\* A row of the table has a number and a card.
LEMMA RowType ==
  ASSUME NEW rows \in Seq(Row), NEW u \in DOMAIN rows
  PROVE  rows[u] \in Row /\ rows[u].number \in Text /\ rows[u].creditcard \in Text
<1>1. rows[u] \in Row
  OBVIOUS
<1>2. QED
  BY <1>1 DEF Row

\* Changing the card of some rows leaves a table of as many rows.
LEMMA CardChanged ==
  ASSUME NEW rows \in Seq(Row), NEW n, NEW card \in Text,
         NEW rows2, rows2 = [u \in DOMAIN rows |->
                               IF rows[u].number = n
                               THEN [rows[u] EXCEPT !.creditcard = card] ELSE rows[u]]
  PROVE  rows2 \in Seq(Row) /\ DOMAIN rows2 = DOMAIN rows
<1>1. \A u \in DOMAIN rows : rows2[u] \in Row
  BY RowType DEF Row
<1>2. DOMAIN rows = 1 .. Len(rows) /\ Len(rows) \in Nat
  OBVIOUS
<1>3. rows2 \in [1 .. Len(rows) -> Row]
  BY <1>1, <1>2
<1>4. QED
  BY <1>2, <1>3, SeqDef

\* Every message is about a call.
LEMMA MessageCall ==
  ASSUME NEW m \in Message
  PROVE  m.call \in Calls
BY DEF Message

\* A reply sent while a message is handled goes to a call.
LEMMA SendOK ==
  ASSUME NEW w \in Workers, job[w] \in Message, StoreOK,
         NEW kind \in {"secret", "uid", "count", "card"}, NEW about, NEW text,
         Send(w, kind, about, text)
  PROVE  \A r \in replies' : r.call \in Calls /\ r.kind \in {"secret", "uid", "count", "card"}
BY MessageCall DEF StoreOK, Send

-----------------------------------------------------------------------------
(* The switch of DtmfHandler *)

\* Every branch of the switch keeps the types.
LEMMA SwitchType ==
  ASSUME TInv, NEW w \in Workers, DtmfSwitch(w)
  PROVE  WorkersOK' /\ HandledOK' /\ StoreOK'
<1> DEFINE s == cur[w]
           k == job[w].key
<1>1. pc[w] = "switch"
  BY DEF DtmfSwitch, OnInit, OnHodl, OnBuy, OnPhone, OnKnown, OnUpdate,
         OnCredit, OnCallback, OnBye, OnSupport, OnSupId, In
<1>2. s \in Session /\ k \in Keys /\ job[w] \in Message
  BY <1>1 DEF TInv, HandledOK, Handled, Copied
<1>3. WorkersOK /\ HandledOK /\ StoreOK
  BY DEF TInv, TypeOK
<1>4. /\ \A st \in State : Goto(s, st) \in Session /\ Enter(s, st) \in Session
      /\ Collect(s, k) \in Session /\ CollectCredit(s, k) \in Session
  BY <1>2, GotoType, EnterType, CollectType, CollectCreditType
<1>5. CALLER_STATE \subseteq State /\ {"none", "file", "loop"} = Newfile
  BY DEF State, Newfile
<1>5a. /\ STATE_HODL \in State /\ STATE_BUY \in State /\ STATE_PHONE \in State
       /\ STATE_KNOWN \in State /\ STATE_CREDIT \in State /\ STATE_UPDATE \in State
       /\ STATE_CALLBACK \in State /\ STATE_BYE \in State /\ STATE_SUPPORT \in State
       /\ STATE_SUP_ID \in State
  BY <1>5 DEF CALLER_STATE
<1>6. ASSUME NEW t \in Session, NEW f \in Newfile, Continue(w, t, f)
      PROVE  WorkersOK' /\ HandledOK'
  BY <1>1, <1>3, <1>6, ContinueOK
<1>7. ASSUME Return(w) PROVE WorkersOK' /\ HandledOK'
  BY <1>3, <1>7, ReturnOK
<1>8. ASSUME UNCHANGED store PROVE StoreOK'
  BY <1>3, <1>8 DEF StoreOK, store
<1>9. ASSUME UNCHANGED <<db, written>>,
             \/ UNCHANGED replies
             \/ \E kind \in {"secret", "uid", "count", "card"} :
                  \E about, text : Send(w, kind, about, text)
      PROVE  StoreOK'
  <2>1. \A r \in replies' : r.call \in Calls /\ r.kind \in {"secret", "uid", "count", "card"}
    BY <1>2, <1>3, <1>9, SendOK DEF StoreOK
  <2>2. QED
    BY <1>3, <1>9, <2>1 DEF StoreOK
<1>10. Truncate(s.buf) \in Text
  BY <1>2, TruncateType DEF Session
<1>11. CASE OnInit(w)
  BY <1>11, <1>4, <1>5, <1>5a, <1>6, <1>8 DEF OnInit
<1>12. CASE OnHodl(w)
  BY <1>12, <1>4, <1>5, <1>5a, <1>6, <1>8 DEF OnHodl
<1>13. CASE OnBuy(w)
  BY <1>13, <1>4, <1>5, <1>5a, <1>6, <1>8 DEF OnBuy
<1>14. CASE OnPhone(w)
  <2>1. CASE Key(w) = Hash
    <3> DEFINE named == [s EXCEPT !.number = Truncate(s.buf)]
    <3>1. named \in Session
      BY <1>2, <1>10, NumberType
    <3>2. \A st \in State : Goto(named, st) \in Session /\ Enter(named, st) \in Session
      BY <3>1, GotoType, EnterType
    <3>3. ASSUME NEW u \in DOMAIN db
          PROVE  [Goto(named, STATE_KNOWN) EXCEPT !.secret = Truncate(db[u].creditcard)] \in Session
      <4>1. db[u].creditcard \in Text
        BY <1>3, RowType DEF StoreOK
      <4>2. QED
        BY <1>5a, <3>2, <4>1, TruncateType, NumberType
    <3>4. Lookup(w)
      BY <1>14, <2>1 DEF OnPhone
    <3>5. \E t \in Session : Continue(w, t, "file")
      BY <1>5a, <3>2, <3>3, <3>4 DEF Lookup, RowsWithNumber
    <3>6. QED
      BY <1>5, <1>6, <1>8, <1>14, <3>5 DEF OnPhone
  <2>2. CASE Key(w) # Hash
    BY <2>2, <1>14, <1>4, <1>5, <1>6, <1>8 DEF OnPhone, Key
  <2>3. QED
    BY <2>1, <2>2
<1>15. CASE OnKnown(w)
  BY <1>15, <1>2, <1>4, <1>5, <1>5a, <1>6, <1>9 DEF OnKnown
<1>16. CASE OnUpdate(w)
  <2>1. CASE Key(w) = Hash
    <3> DEFINE named == [s EXCEPT !.secret = Truncate(s.buf)]
    <3>1. named \in Session
      BY <1>2, <1>10, NumberType
    <3>2. /\ Enter(named, STATE_KNOWN) \in Session
          /\ Goto(named, STATE_BYE) \in Session
      BY <1>5a, <3>1, GotoType, EnterType
    <3>3. ChangeCard(w) /\ UNCHANGED replies
      BY <1>16, <2>1 DEF OnUpdate
    <3>4. WorkersOK' /\ HandledOK'
      BY <1>5, <1>6, <1>7, <3>2, <3>3 DEF ChangeCard
    <3>5. db' \in Seq(Row)
      <4>1. CASE db' = [u \in DOMAIN db |->
                   IF db[u].number = s.number
                   THEN [db[u] EXCEPT !.creditcard = Truncate(s.buf)] ELSE db[u]]
        BY <1>3, <1>10, <4>1, CardChanged DEF StoreOK
      <4>2. QED
        BY <1>3, <3>3, <4>1 DEF ChangeCard, StoreOK
    <3>6. written' \in SUBSET (Text \X Text)
      <4>1. s.number \in Text
        BY <1>2 DEF Session
      <4>2. QED
        BY <1>3, <1>10, <3>3, <4>1 DEF ChangeCard, StoreOK
    <3>7. QED
      BY <1>3, <3>3, <3>4, <3>5, <3>6 DEF StoreOK
  <2>2. CASE Key(w) # Hash
    BY <2>2, <1>16, <1>4, <1>5, <1>6, <1>9 DEF OnUpdate, Key
  <2>3. QED
    BY <2>1, <2>2
<1>17. CASE OnCredit(w)
  <2>1. CASE Key(w) = Hash
    <3> DEFINE named == [s EXCEPT !.secret = Truncate(s.buf)]
    <3>1. named \in Session
      BY <1>2, <1>10, NumberType
    <3>2. /\ Enter(named, STATE_CALLBACK) \in Session
          /\ Goto(named, STATE_BYE) \in Session
      BY <1>5a, <3>1, GotoType, EnterType
    <3>3. Register(w)
      BY <1>17, <2>1 DEF OnCredit
    <3>4. WorkersOK' /\ HandledOK'
      BY <1>5, <1>6, <1>7, <3>2, <3>3 DEF Register
    <3>5. s.number \in Text
      BY <1>2 DEF Session
    <3>6. StoreOK'
      <4>1. CASE UNCHANGED store
        BY <1>8, <4>1
      <4>2. CASE ~ UNCHANGED store
        <5>1. /\ db' = Append(db, [number |-> s.number, creditcard |-> Truncate(s.buf)])
              /\ written' = written \cup {<<s.number, Truncate(s.buf)>>}
              /\ \E about, text : Send(w, "uid", about, text)
          BY <3>3, <4>2 DEF Register
        <5>2. [number |-> s.number, creditcard |-> Truncate(s.buf)] \in Row
          BY <1>10, <3>5 DEF Row
        <5>3. db' \in Seq(Row)
          BY <1>3, <5>1, <5>2 DEF StoreOK
        <5>4. written' \in SUBSET (Text \X Text)
          BY <1>3, <1>10, <3>5, <5>1 DEF StoreOK
        <5>5. \A r \in replies' : r.call \in Calls /\ r.kind \in {"secret", "uid", "count", "card"}
          BY <1>2, <1>3, <5>1, SendOK
        <5>6. QED
          BY <5>3, <5>4, <5>5 DEF StoreOK
      <4>3. QED
        BY <4>1, <4>2
    <3>7. QED
      BY <3>4, <3>6
  <2>2. CASE Key(w) # Hash
    BY <2>2, <1>17, <1>4, <1>5, <1>6, <1>8 DEF OnCredit, Key
  <2>3. QED
    BY <2>1, <2>2
<1>18. CASE OnCallback(w)
  BY <1>18, <1>4, <1>5, <1>5a, <1>6, <1>8 DEF OnCallback
<1>19. CASE OnBye(w)
  BY <1>19, <1>7, <1>8 DEF OnBye
<1>20. CASE OnSupport(w)
  BY <1>20, <1>2, <1>4, <1>5, <1>5a, <1>6, <1>9 DEF OnSupport, Fail
<1>21. CASE OnSupId(w)
  BY <1>21, <1>2, <1>4, <1>5, <1>5a, <1>6, <1>9 DEF OnSupId, Fail, Key
<1>22. QED
  BY <1>11, <1>12, <1>13, <1>14, <1>15, <1>16, <1>17, <1>18, <1>19, <1>20,
     <1>21 DEF DtmfSwitch

-----------------------------------------------------------------------------
(* Type correctness *)

\* Init establishes the types.
LEMMA InitType == ASSUME Init PROVE TInv
<1>1. db \in Seq(Row)
  BY DbAssumption DEF Init, Row, Text
<1>2. \A u \in DOMAIN db : db[u].number \in Text /\ db[u].creditcard \in Text
  BY <1>1, RowType
<1>3. StoreOK
  BY <1>1, <1>2 DEF Init, StoreOK
<1>4. WorkersOK /\ HandledOK
  BY DEF Init, WorkersOK, HandledOK, Handled, Newfile, Copied
<1>5. LinesOK
  BY DEF Init, LinesOK, Prompt
<1>6. QED
  BY <1>3, <1>4, <1>5 DEF Init, TInv, TypeOK

\* Every step keeps them.
LEMMA NextType == ASSUME TInv, [Next]_vars PROVE TInv'
<1> USE DEF TInv, TypeOK
<1>0. FreshSession \in Session
  BY DEF FreshSession, Session, State, CALLER_STATE, Text
<1>1. ASSUME NEW w \in Workers, Dequeue(w) PROVE TInv'
  <2>1. Head(queue) \in Message /\ Tail(queue) \in Seq(Message)
    BY <1>1 DEF Dequeue
  <2>2. Head(queue).type \in {"chan.dtmf", "chan.attach", "chan.notify", "chan.hangup"}
    BY <2>1 DEF Message
  <2>3. /\ Head(queue).type = "chan.dtmf" => Head(queue).key \in Keys
        /\ Head(queue).type = "chan.attach" => Head(queue).prompt \in Prompt
    BY <2>1 DEF Message
  <2>4. WorkersOK'
    BY <1>1, <2>1, <2>2 DEF Dequeue, WorkersOK
  <2>5. HandledOK'
    BY <1>1, <2>1, <2>2, <2>3 DEF Dequeue, WorkersOK, HandledOK, Handled, Copied
  <2>6. QED
    BY <1>1, <2>1, <2>4, <2>5 DEF Dequeue, LinesOK, StoreOK, line, store
<1>2. ASSUME NEW w \in Workers, DtmfCopy(w) PROVE TInv'
  <2>1. job[w] \in Message /\ job[w].key \in Keys
    BY <1>2 DEF DtmfCopy, HandledOK, Handled
  <2>2. CASE clients[job[w].call] = NoSession
    BY <1>2, <2>2, ReturnOK DEF DtmfCopy, LinesOK, StoreOK, line, store
  <2>3. CASE clients[job[w].call] # NoSession
    <3>1. clients[job[w].call] \in Session
      BY <2>1, <2>3, MessageCall
    <3>2. WorkersOK' /\ HandledOK'
      BY <1>2, <2>1, <2>3, <3>1 DEF DtmfCopy, WorkersOK, HandledOK, Handled, Copied
    <3>3. QED
      BY <1>2, <3>2 DEF DtmfCopy, LinesOK, StoreOK, line, store
  <2>4. QED
    BY <2>2, <2>3
<1>3. ASSUME NEW w \in Workers, DtmfSwitch(w) PROVE TInv'
  <2>1. WorkersOK' /\ HandledOK' /\ StoreOK'
    BY <1>3, SwitchType
  <2>2. QED
    BY <1>3, <2>1 DEF DtmfSwitch, LinesOK, line
<1>4. ASSUME NEW w \in Workers, DtmfAttach(w) PROVE TInv'
  <2>1. job[w] \in Message /\ job[w].call \in Calls
    BY <1>4, MessageCall DEF DtmfAttach, HandledOK, Handled
  <2>2. queue' \in Seq(Message)
    BY <1>4, <2>1, MessageType, PostOK DEF DtmfAttach, Prompt
  <2>3. WorkersOK' /\ HandledOK'
    BY <1>4 DEF DtmfAttach, WorkersOK, HandledOK, Handled, Copied
  <2>4. QED
    BY <1>4, <2>2, <2>3 DEF DtmfAttach, LinesOK, StoreOK, line, store
<1>5. ASSUME NEW w \in Workers, DtmfStore(w) PROVE TInv'
  <2>1. cur[w] \in Session
    BY <1>5 DEF DtmfStore, HandledOK, Handled, Copied
  <2>2. QED
    BY <1>5, <2>1, ReturnOK DEF DtmfStore, LinesOK, StoreOK, line, store
<1>6. ASSUME NEW w \in Workers, HandleHangup(w) PROVE TInv'
  BY <1>6, ReturnOK DEF HandleHangup, LinesOK, StoreOK, line, store
<1>7. ASSUME NEW w \in Workers, NotifyCopy(w) PROVE TInv'
  <2>1. job[w] \in Message
    BY <1>7 DEF NotifyCopy, HandledOK, Handled
  <2>2. CASE clients[job[w].call] = NoSession
    BY <1>7, <2>2, ReturnOK DEF NotifyCopy, LinesOK, StoreOK, line, store
  <2>3. CASE clients[job[w].call] # NoSession
    <3>1. clients[job[w].call] \in Session
      BY <2>1, <2>3, MessageCall
    <3>2. WorkersOK' /\ HandledOK'
      BY <1>7, <2>1, <2>3, <3>1 DEF NotifyCopy, WorkersOK, HandledOK, Handled, Copied
    <3>3. QED
      BY <1>7, <3>2 DEF NotifyCopy, LinesOK, StoreOK, line, store
  <2>4. QED
    BY <2>2, <2>3
<1>8. ASSUME NEW w \in Workers, NotifyDrop(w) PROVE TInv'
  BY <1>8, ReturnOK DEF NotifyDrop, LinesOK, StoreOK, store
<1>9. ASSUME NEW w \in Workers, HandleAttach(w) PROVE TInv'
  <2> DEFINE c == job[w].call
  <2>1. job[w] \in Message /\ c \in Calls /\ job[w].prompt \in Prompt
    BY <1>9, MessageCall DEF HandleAttach, HandledOK, Handled
  <2>2. Notify(c) \in Message
    BY <2>1, MessageType
  <2>3. <<>> \in Seq(Message) /\ <<Notify(c)>> \in Seq(Message)
    BY <2>2
  <2>4. playing' \in [Calls -> Prompt]
    BY <1>9, <2>1 DEF HandleAttach, LinesOK, Prompt
  <2>5. queue' \in Seq(Message)
    <3>1. \A q, r \in Seq(Message) : q \o r \in Seq(Message)
      BY ConcatProperties
    <3>2. /\ \A q \in {<<>>, <<Notify(c)>>} : queue \o q \in Seq(Message)
          /\ \A q, r \in {<<>>, <<Notify(c)>>} : queue \o q \o r \in Seq(Message)
      BY <2>3, <3>1
    <3>3. \/ \E q \in {<<>>, <<Notify(c)>>} : queue' = queue \o q
          \/ \E q, r \in {<<>>, <<Notify(c)>>} : queue' = queue \o q \o r
          \/ queue' = queue
      BY <1>9 DEF HandleAttach
    <3>4. QED
      BY <3>2, <3>3
  <2>6. WorkersOK' /\ HandledOK'
    BY <1>9, ReturnOK DEF HandleAttach
  <2>7. QED
    BY <1>9, <2>4, <2>5, <2>6 DEF HandleAttach, LinesOK, StoreOK, store
<1>10. ASSUME NEW c \in Calls,
              IncomingCall(c) \/ Route(c) \/ Execute(c) \/ HookTarget(c) \/ HookAnswer(c) \/ HangUp(c)
       PROVE TInv'
  <2>1. clients' \in [Calls -> Session \cup {NoSession}]
    <3>1. CASE HookTarget(c) /\ clients[c] # NoSession
      <4>1. clients[c] \in Session
        BY <3>1
      <4>2. [clients[c] EXCEPT !.dumb = TRUE] \in Session
        BY <4>1 DEF Session
      <4>3. QED
        BY <3>1, <4>2 DEF HookTarget
    <3>2. CASE ~ (HookTarget(c) /\ clients[c] # NoSession)
      BY <1>0, <1>10, <3>2 DEF IncomingCall, Route, Execute, HookTarget, HookAnswer, HangUp
    <3>3. QED
      BY <3>1, <3>2
  <2>2. LinesOK'
    <3>1. CASE IncomingCall(c) \/ HangUp(c)
      BY <3>1 DEF IncomingCall, HangUp, LinesOK
    <3>2. CASE Route(c) \/ HookTarget(c)
      BY <3>2 DEF Route, HookTarget, RouterGoto, LinesOK
    <3>3. CASE Execute(c) \/ HookAnswer(c)
      BY <3>3 DEF Execute, HookAnswer, RouterGoto, LinesOK
    <3>4. QED
      BY <1>10, <3>1, <3>2, <3>3
  <2>3. UNCHANGED <<queue, worker, store>>
    BY <1>10 DEF IncomingCall, Route, Execute, HookTarget, HookAnswer, HangUp
  <2>4. QED
    BY <2>1, <2>2, <2>3 DEF WorkersOK, HandledOK, Handled, StoreOK, worker, store
<1>11. ASSUME NEW c \in Calls,
              \/ PromptEnds(c) \/ HookWelcome(c) \/ ChannelDestroyed(c)
              \/ \E k \in Keys : Press(c, k)
       PROVE TInv'
  <2>1. queue' \in Seq(Message)
    BY <1>11, MessageType, PostOK DEF PromptEnds, HookWelcome, ChannelDestroyed, Press, Prompt
  <2>2. LinesOK'
    <3>1. CASE PromptEnds(c)
      BY <3>1 DEF PromptEnds, LinesOK, Prompt
    <3>2. CASE HookWelcome(c)
      BY <3>2 DEF HookWelcome, RouterGoto, LinesOK
    <3>3. CASE ChannelDestroyed(c)
      BY <3>3 DEF ChannelDestroyed, LinesOK
    <3>4. CASE \E k \in Keys : Press(c, k)
      BY <3>4 DEF Press, LinesOK
    <3>5. QED
      BY <1>11, <3>1, <3>2, <3>3, <3>4
  <2>3. UNCHANGED <<clients, worker, store>>
    BY <1>11 DEF PromptEnds, HookWelcome, ChannelDestroyed, Press
  <2>4. QED
    BY <2>1, <2>2, <2>3 DEF WorkersOK, HandledOK, Handled, StoreOK, worker, store
<1>12. CASE UNCHANGED vars
  BY <1>12 DEF vars, WorkersOK, HandledOK, Handled, LinesOK, StoreOK
<1>13. QED
  BY <1>1, <1>2, <1>3, <1>4, <1>5, <1>6, <1>7, <1>8, <1>9, <1>10, <1>11, <1>12
  DEF Next, Work, Handler, Line, RouterStep

\* The variables of the helpline keep their types in every behaviour.
THEOREM TypeCorrect == Spec => []TypeOK
<1>1. Init => TInv
  BY InitType
<1>2. TInv /\ [Next]_vars => TInv'
  BY NextType
<1>3. TInv => TypeOK
  BY DEF TInv
<1>4. QED
  BY <1>1, <1>2, <1>3, PTL DEF Spec

-----------------------------------------------------------------------------
(* The accounts *)

AInv == /\ TInv
        /\ AccountsAgree
        /\ OneAccountPerNumber /\ SecretIsOwn /\ UidIsOwn /\ CardIsOfUid

Good(s) == Registered(s) /\ CardIsStored(s)

\* The table only grows: rows keep their numbers, and nothing that was ever
\* stored is forgotten.
Grows == /\ DOMAIN db \subseteq DOMAIN db'
         /\ \A u \in DOMAIN db : db'[u].number = db[u].number
         /\ written \subseteq written'

\* A session in good order stays so while the table grows.
LEMMA GoodStays ==
  ASSUME NEW s, Good(s), Grows
  PROVE  Good(s)'
BY DEF Good, Registered, CardIsStored, RowsWithNumber, Grows

\* The sessions of a state are those in the map and those in the workers'
\* hands.
LEMMA GoodSessions ==
  (\A c \in Calls : clients[c] # NoSession => Good(clients[c])) /\
  (\A w \in Workers : cur[w] # NoSession => Good(cur[w]))
  <=> KnownIsRegistered /\ EverySession(CardIsStored)
BY DEF Good, KnownIsRegistered, EverySession

\* Outside the switch the store is left alone and sessions are only moved.
LEMMA StepMoves ==
  ASSUME TInv, [Next]_vars, \A w \in Workers : ~ DtmfSwitch(w)
  PROVE  /\ UNCHANGED store
         /\ \A c \in Calls : \/ clients'[c] \in {NoSession, FreshSession, clients[c]}
                             \/ /\ clients[c] \in Session
                                /\ clients'[c] = [clients[c] EXCEPT !.dumb = TRUE]
                             \/ \E w \in Workers : clients'[c] = cur[w]
         /\ \A w \in Workers : \/ cur'[w] \in {NoSession, cur[w]}
                               \/ \E c \in Calls : cur'[w] = clients[c]
<1> USE DEF TInv, TypeOK
<1>1. ASSUME NEW w \in Workers,
             \/ Dequeue(w) \/ DtmfCopy(w) \/ DtmfAttach(w) \/ DtmfStore(w)
             \/ HandleHangup(w) \/ NotifyCopy(w) \/ NotifyDrop(w) \/ HandleAttach(w)
      PROVE  /\ UNCHANGED store
             /\ \A c \in Calls : \/ clients'[c] \in {NoSession, clients[c]}
                                 \/ clients'[c] = cur[w]
             /\ \A v \in Workers : \/ cur'[v] \in {NoSession, cur[v]}
                                   \/ \E c \in Calls : cur'[v] = clients[c]
  <2>1. pc[w] # "idle" => job[w].call \in Calls
    BY MessageCall DEF HandledOK, Handled
  <2>2. QED
    BY <1>1, <2>1 DEF Dequeue, DtmfCopy, DtmfAttach, DtmfStore, HandleHangup, NotifyCopy,
         NotifyDrop, HandleAttach, Return, WorkersOK
<1>2. ASSUME NEW d \in Calls,
             \/ IncomingCall(d) \/ Route(d) \/ Execute(d) \/ HookTarget(d) \/ HookAnswer(d)
             \/ HangUp(d) \/ PromptEnds(d) \/ HookWelcome(d) \/ ChannelDestroyed(d)
             \/ \E k \in Keys : Press(d, k)
      PROVE  /\ UNCHANGED <<store, cur>>
             /\ \A c \in Calls : \/ clients'[c] \in {NoSession, FreshSession, clients[c]}
                                 \/ /\ clients[c] \in Session
                                    /\ clients'[c] = [clients[c] EXCEPT !.dumb = TRUE]
  BY <1>2 DEF IncomingCall, Route, Execute, HookTarget, HookAnswer, HangUp, PromptEnds,
       HookWelcome, ChannelDestroyed, Press, worker
<1>3. CASE UNCHANGED vars
  BY <1>3 DEF vars, store
<1>4. QED
  BY <1>1, <1>2, <1>3 DEF Next, Work, Handler, Line, RouterStep

\* A session is never the sentinel.
LEMMA SessionIsNot == NoSession \notin Session
<1>1. State \subseteq Int
  BY KeysAssumption DEF State, CALLER_STATE
<1>2. Session \subseteq [state : Int, buf : Seq(Keys), number : Seq(Keys),
                         secret : Seq(Keys), dumb : BOOLEAN]
  BY <1>1 DEF Session, Text
<1>3. QED
  BY <1>2, SentinelAssumption

\* A session that does not name an account is in good order.
LEMMA Unnamed ==
  ASSUME NEW t, t.state \notin {STATE_KNOWN, STATE_UPDATE, STATE_CALLBACK}
  PROVE  Good(t) /\ Good(t)'
BY DEF Good, Registered, CardIsStored

\* A step that changes the copy of worker w only, to one in good order, and
\* lets the table grow, keeps every session in good order.
LEMMA SwitchSessions ==
  ASSUME TInv, AccountsAgree, Grows, UNCHANGED clients, NEW w \in Workers,
         NEW t, cur' = [cur EXCEPT ![w] = t], t = NoSession \/ Good(t)'
  PROVE  (KnownIsRegistered /\ EverySession(CardIsStored))'
<1>1. \A c \in Calls : clients'[c] # NoSession => Good(clients[c])'
  BY GoodStays, GoodSessions DEF AccountsAgree
<1>2. \A v \in Workers : cur'[v] = IF v = w THEN t ELSE cur[v]
  BY DEF TInv, TypeOK, WorkersOK
<1>3. \A v \in Workers : v # w /\ cur[v] # NoSession => Good(cur[v])'
  BY GoodStays, GoodSessions DEF AccountsAgree
<1>4. QED
  BY <1>1, <1>2, <1>3 DEF Good, KnownIsRegistered, EverySession

\* What the switch has to show of the store and of the copy it leaves.
Kept(w, t) == /\ cur' = [cur EXCEPT ![w] = t]
              /\ t = NoSession \/ Good(t)'
Records == RowsAreStored /\ OneAccountPerNumber /\ SecretIsOwn /\ UidIsOwn /\ CardIsOfUid

\* The replies already sent stay true while the table grows.
LEMMA RepliesStay ==
  ASSUME SecretIsOwn, UidIsOwn, CardIsOfUid, Grows, NEW r \in replies
  PROVE  /\ r.kind = "secret" => <<r.about, r.text>> \in written'
         /\ r.kind = "uid" => \E u \in DOMAIN db' : /\ r.text = Append(Decimal[u], Hash)
                                                    /\ db'[u].number = r.about
         /\ r.kind = "card" => \E u \in DOMAIN db' : /\ r.about = Decimal[u]
                                                     /\ <<db'[u].number, r.text>> \in written'
<1>1. r.kind = "secret" => <<r.about, r.text>> \in written'
  BY DEF SecretIsOwn, Grows
<1>2. ASSUME r.kind = "uid"
      PROVE  \E u \in DOMAIN db' : r.text = Append(Decimal[u], Hash) /\ db'[u].number = r.about
  <2>1. PICK u \in DOMAIN db : r.text = Append(Decimal[u], Hash) /\ db[u].number = r.about
    BY <1>2 DEF UidIsOwn
  <2>2. u \in DOMAIN db' /\ db'[u].number = r.about
    BY <2>1 DEF Grows
  <2>3. QED
    BY <2>1, <2>2
<1>3. ASSUME r.kind = "card"
      PROVE  \E u \in DOMAIN db' : r.about = Decimal[u] /\ <<db'[u].number, r.text>> \in written'
  <2>1. PICK u \in DOMAIN db : r.about = Decimal[u] /\ <<db[u].number, r.text>> \in written
    BY <1>3 DEF CardIsOfUid
  <2>2. u \in DOMAIN db' /\ <<db'[u].number, r.text>> \in written'
    BY <2>1 DEF Grows
  <2>3. QED
    BY <2>1, <2>2
<1>4. QED
  BY <1>1, <1>2, <1>3

\* A lookup opens an account only for the number that has it, with its card.
LEMMA LookupKept ==
  ASSUME AInv, NEW w \in Workers, cur[w] \in Session, Lookup(w), UNCHANGED store
  PROVE  \E t : Kept(w, t)
<1> DEFINE n == Truncate(cur[w].buf)
           named == [cur[w] EXCEPT !.number = n]
<1>1. named \in Session /\ n \in Text
  BY TruncateType, NumberType DEF Session
<1>2. ASSUME NEW u \in RowsWithNumber(n), NEW t,
             t = [Goto(named, STATE_KNOWN) EXCEPT !.secret = Truncate(db[u].creditcard)],
             Continue(w, t, "file")
      PROVE  Kept(w, t)
  <2>1. u \in DOMAIN db /\ db[u].number = n
    BY <1>2 DEF RowsWithNumber
  <2>2. Truncate(db[u].creditcard) = db[u].creditcard
    BY <2>1 DEF AInv, AccountsAgree, RowsAreStored, Truncate
  <2>3. t.state = STATE_KNOWN /\ t.number = n /\ t.secret = db[u].creditcard
    BY <1>1, <1>2, <2>2 DEF Goto, Session
  <2>4. <<db[u].number, db[u].creditcard>> \in written
    BY <2>1 DEF AInv, AccountsAgree, RowsAreStored
  <2>5. Good(t)
    BY <1>2, <2>1, <2>3, <2>4 DEF Good, Registered, CardIsStored
  <2>6. QED
    BY <1>2, <2>5, GoodStays DEF Grows, store, Kept, Continue
<1>3. ASSUME NEW t, t.state \in {STATE_CREDIT, STATE_BYE}, Continue(w, t, "file")
      PROVE  Kept(w, t)
  BY <1>3, Unnamed DEF Kept, Continue
<1>4. /\ Enter(named, STATE_CREDIT).state = STATE_CREDIT
      /\ Goto(named, STATE_BYE).state = STATE_BYE
  BY <1>1 DEF Enter, Goto, Session
<1>5. ASSUME NEW u \in RowsWithNumber(n),
             Continue(w, [Goto(named, STATE_KNOWN) EXCEPT
                            !.secret = Truncate(db[u].creditcard)], "file")
      PROVE  \E t : Kept(w, t)
  <2>1. PICK t : t = [Goto(named, STATE_KNOWN) EXCEPT !.secret = Truncate(db[u].creditcard)]
    OBVIOUS
  <2>2. QED
    BY <1>2, <1>5, <2>1
<1>6. CASE Continue(w, Enter(named, STATE_CREDIT), "file")
  <2>1. PICK t : t = Enter(named, STATE_CREDIT)
    OBVIOUS
  <2>2. QED
    BY <1>3, <1>4, <1>6, <2>1
<1>7. CASE Continue(w, Goto(named, STATE_BYE), "file")
  <2>1. PICK t : t = Goto(named, STATE_BYE)
    OBVIOUS
  <2>2. QED
    BY <1>3, <1>4, <1>7, <2>1
<1>8. QED
  BY <1>5, <1>6, <1>7 DEF Lookup

\* The records are untouched when the store is.
LEMMA RecordsKept ==
  ASSUME AInv, UNCHANGED store
  PROVE  Grows /\ Records'
BY DEF AInv, AccountsAgree, Records, RowsAreStored, OneAccountPerNumber, SecretIsOwn,
       UidIsOwn, CardIsOfUid, Grows, store

\* A new card is stored with the number of its row.
LEMMA ChangeCardKept ==
  ASSUME AInv, NEW w \in Workers, cur[w] \in Session, cur[w].state = STATE_UPDATE,
         ChangeCard(w), UNCHANGED replies
  PROVE  Grows /\ Records' /\ \E t : Kept(w, t)
<1> DEFINE card == Truncate(cur[w].buf)
           named == [cur[w] EXCEPT !.secret = card]
           n == cur[w].number
<1>1. card \in Text /\ Len(card) < BufSize /\ named \in Session
  BY TruncateType, NumberType DEF Session
<1>2. CASE Return(w) /\ UNCHANGED <<db, written>>
  <2>1. Grows /\ Records'
    BY <1>2, RecordsKept DEF store
  <2>2. Kept(w, NoSession)
    BY <1>2 DEF Kept, Return
  <2>3. QED
    BY <2>1, <2>2
<1>3. CASE Continue(w, Goto(named, STATE_BYE), "file") /\ UNCHANGED <<db, written>>
  <2>1. Grows /\ Records'
    BY <1>3, RecordsKept DEF store
  <2>2. PICK t : t = Goto(named, STATE_BYE)
    OBVIOUS
  <2>3. t.state = STATE_BYE
    BY <1>1, <2>2 DEF Goto, Session
  <2>4. Kept(w, t)
    BY <1>3, <2>2, <2>3, Unnamed DEF Kept, Continue
  <2>5. QED
    BY <2>1, <2>4
<1>4. CASE /\ db' = [u \in DOMAIN db |->
                       IF db[u].number = n THEN [db[u] EXCEPT !.creditcard = card] ELSE db[u]]
           /\ written' = written \cup {<<n, card>> : u \in RowsWithNumber(n)}
           /\ Continue(w, Enter(named, STATE_KNOWN), "file")
  <2>1. DOMAIN db' = DOMAIN db
    BY <1>4
  <2>2. \A u \in DOMAIN db : db[u] \in Row
    BY RowType DEF AInv, TInv, TypeOK, StoreOK
  <2>3. \A u \in DOMAIN db : /\ db'[u].number = db[u].number
                             /\ db'[u].creditcard = IF db[u].number = n THEN card ELSE db[u].creditcard
    BY <1>4, <2>2 DEF Row
  <2>4. Grows
    BY <1>4, <2>1, <2>3 DEF Grows
  <2>5. RowsAreStored'
    <3>1. ASSUME NEW u \in DOMAIN db
          PROVE  /\ <<db'[u].number, db'[u].creditcard>> \in written'
                 /\ Len(db'[u].creditcard) < BufSize
      <4>1. CASE db[u].number = n
        <5>1. u \in RowsWithNumber(n)
          BY <4>1 DEF RowsWithNumber
        <5>2. <<n, card>> \in written'
          BY <1>4, <5>1
        <5>3. QED
          BY <1>1, <2>3, <4>1, <5>2
      <4>2. CASE db[u].number # n
        BY <1>4, <2>3, <4>2 DEF AInv, AccountsAgree, RowsAreStored
      <4>3. QED
        BY <4>1, <4>2
    <3>2. QED
      BY <2>1, <3>1 DEF RowsAreStored
  <2>6. OneAccountPerNumber'
    BY <2>1, <2>3 DEF AInv, OneAccountPerNumber
  <2>7. (SecretIsOwn /\ UidIsOwn /\ CardIsOfUid)'
    BY <2>4, RepliesStay DEF AInv, SecretIsOwn, UidIsOwn, CardIsOfUid
  <2>8. PICK t : t = Enter(named, STATE_KNOWN)
    OBVIOUS
  <2>9. t.state = STATE_KNOWN /\ t.number = n /\ t.secret = card
    BY <1>1, <2>8 DEF Enter, Session
  <2>10. PICK u \in DOMAIN db : db[u].number = n
    <3>1. Good(cur[w])
      BY SessionIsNot, GoodSessions DEF AInv, AccountsAgree
    <3>2. QED
      BY <3>1 DEF Good, Registered, RowsWithNumber
  <2>11. Good(t)'
    BY <1>4, <2>1, <2>3, <2>9, <2>10 DEF Good, Registered, CardIsStored, RowsWithNumber
  <2>12. QED
    BY <1>4, <2>4, <2>5, <2>6, <2>7, <2>8, <2>11 DEF Kept, Continue, Records
<1>5. QED
  BY <1>2, <1>3, <1>4 DEF ChangeCard

\* A registration appends a row of its own for a number that had none, and
\* tells the caller its position.
LEMMA RegisterKept ==
  ASSUME AInv, NEW w \in Workers, cur[w] \in Session, Register(w)
  PROVE  Grows /\ Records' /\ \E t : Kept(w, t)
<1> DEFINE card == Truncate(cur[w].buf)
           named == [cur[w] EXCEPT !.secret = card]
           n == cur[w].number
           row == [number |-> n, creditcard |-> card]
<1>1. /\ card \in Text /\ Len(card) < BufSize /\ named \in Session /\ n \in Text
      /\ row \in Row /\ db \in Seq(Row)
  BY TruncateType, NumberType DEF Session, Row, AInv, TInv, TypeOK, StoreOK
<1>2. CASE Return(w) /\ UNCHANGED store
  <2>1. Grows /\ Records'
    BY <1>2, RecordsKept
  <2>2. Kept(w, NoSession)
    BY <1>2 DEF Kept, Return
  <2>3. QED
    BY <2>1, <2>2
<1>3. CASE Continue(w, Goto(named, STATE_BYE), "file") /\ UNCHANGED store
  <2>1. Grows /\ Records'
    BY <1>3, RecordsKept
  <2>2. PICK t : t = Goto(named, STATE_BYE)
    OBVIOUS
  <2>3. t.state = STATE_BYE
    BY <1>1, <2>2 DEF Goto, Session
  <2>4. Kept(w, t)
    BY <1>3, <2>2, <2>3, Unnamed DEF Kept, Continue
  <2>5. QED
    BY <2>1, <2>4
<1>4. CASE /\ RowsWithNumber(n) = {}
           /\ db' = Append(db, row)
           /\ written' = written \cup {<<n, card>>}
           /\ Send(w, "uid", n, Append(Decimal[Len(db) + 1], Hash))
           /\ Continue(w, Enter(named, STATE_CALLBACK), "file")
  <2>1. /\ DOMAIN db = 1 .. Len(db) /\ Len(db) \in Nat
        /\ DOMAIN db' = 1 .. Len(db) + 1
        /\ \A u \in DOMAIN db : db'[u] = db[u]
        /\ db'[Len(db) + 1] = row
    BY <1>1, <1>4
  <2>2. Grows
    BY <1>4, <2>1 DEF Grows
  <2>3. RowsAreStored'
    <3>1. ASSUME NEW u \in DOMAIN db'
          PROVE  /\ <<db'[u].number, db'[u].creditcard>> \in written'
                 /\ Len(db'[u].creditcard) < BufSize
      <4>1. CASE u = Len(db) + 1
        BY <1>1, <1>4, <2>1, <4>1
      <4>2. CASE u # Len(db) + 1
        <5>1. u \in DOMAIN db
          BY <2>1, <4>2
        <5>2. QED
          BY <1>4, <2>1, <5>1 DEF AInv, AccountsAgree, RowsAreStored
      <4>3. QED
        BY <4>1, <4>2
    <3>2. QED
      BY <3>1 DEF RowsAreStored
  <2>4. OneAccountPerNumber'
    <3>1. \A u \in DOMAIN db : db[u].number # n
      BY <1>4 DEF RowsWithNumber
    <3>2. \A u \in DOMAIN db' : u \in DOMAIN db \/ u = Len(db) + 1
      BY <2>1
    <3>3. \A u \in DOMAIN db : db'[u].number = db[u].number
      BY <2>1
    <3>4. db'[Len(db) + 1].number = n
      BY <2>1
    <3>5. QED
      BY <3>1, <3>2, <3>3, <3>4 DEF AInv, OneAccountPerNumber
  <2>5. ASSUME NEW r \in replies', r \notin replies
        PROVE  /\ r.kind = "uid" /\ r.about = n
               /\ r.text = Append(Decimal[Len(db) + 1], Hash)
    BY <1>4, <2>5 DEF Send
  <2>6. Len(db) + 1 \in DOMAIN db' /\ db'[Len(db) + 1].number = n
    BY <2>1
  <2>7. SecretIsOwn' /\ CardIsOfUid'
    BY <2>2, <2>5, RepliesStay DEF AInv, SecretIsOwn, CardIsOfUid
  <2>8. UidIsOwn'
    <3>1. ASSUME NEW r \in replies', r.kind = "uid"
          PROVE  \E u \in DOMAIN db' : r.text = Append(Decimal[u], Hash) /\ db'[u].number = r.about
      <4>1. CASE r \in replies
        BY <2>2, <3>1, <4>1, RepliesStay DEF AInv
      <4>2. CASE r \notin replies
        BY <2>5, <2>6, <4>2
      <4>3. QED
        BY <4>1, <4>2
    <3>2. QED
      BY <3>1 DEF UidIsOwn
  <2>9. PICK t : t = Enter(named, STATE_CALLBACK)
    OBVIOUS
  <2>10. t.state = STATE_CALLBACK /\ t.number = n
    BY <1>1, <2>9 DEF Enter, Session
  <2>11. Good(t)'
    BY <2>6, <2>10 DEF Good, Registered, CardIsStored, RowsWithNumber
  <2>12. QED
    BY <1>4, <2>2, <2>3, <2>4, <2>7, <2>8, <2>9, <2>11 DEF Kept, Continue, Records
<1>5. QED
  BY <1>2, <1>3, <1>4 DEF Register

\* A reply that is true of the store joins the others.
LEMMA ReplyKept ==
  ASSUME AInv, UNCHANGED <<db, written>>, NEW w \in Workers,
         NEW kind, NEW about, NEW text, Send(w, kind, about, text), kind # "uid",
         kind = "secret" => <<about, text>> \in written,
         kind = "card" => \E u \in DOMAIN db : /\ about = Decimal[u]
                                               /\ <<db[u].number, text>> \in written
  PROVE  Grows /\ Records'
<1>1. \A r \in replies' : r \in replies \/ (r.kind = kind /\ r.about = about /\ r.text = text)
  BY DEF Send
<1>2. Grows
  BY DEF Grows
<1>3. (RowsAreStored /\ OneAccountPerNumber)'
  BY DEF AInv, AccountsAgree, RowsAreStored, OneAccountPerNumber
<1>4. SecretIsOwn'
  BY <1>1 DEF AInv, SecretIsOwn
<1>5. UidIsOwn'
  BY <1>1 DEF AInv, UidIsOwn
<1>6. CardIsOfUid'
  BY <1>1 DEF AInv, CardIsOfUid
<1>7. QED
  BY <1>2, <1>3, <1>4, <1>5, <1>6 DEF Records

\* The branches of the switch that go to a state without an account.
LEMMA QuietKept ==
  ASSUME NEW w \in Workers, NEW f, cur[w] \in Session,
         NEW st \in State \ {STATE_KNOWN, STATE_UPDATE, STATE_CALLBACK},
         Continue(w, Goto(cur[w], st), f) \/ Continue(w, Enter(cur[w], st), f)
  PROVE  \E t : Kept(w, t)
<1>1. /\ Goto(cur[w], st).state = st
      /\ Enter(cur[w], st).state = st
  BY DEF Goto, Enter, Session
<1>2. CASE Continue(w, Goto(cur[w], st), f)
  <2>1. PICK t : t = Goto(cur[w], st)
    OBVIOUS
  <2>2. QED
    BY <1>1, <1>2, <2>1, Unnamed DEF Kept, Continue
<1>3. CASE Continue(w, Enter(cur[w], st), f)
  <2>1. PICK t : t = Enter(cur[w], st)
    OBVIOUS
  <2>2. QED
    BY <1>1, <1>3, <2>1, Unnamed DEF Kept, Continue
<1>4. QED
  BY <1>2, <1>3

\* The branches of the switch that keep the session or only fill its buffer.
LEMMA SameKept ==
  ASSUME NEW w \in Workers, NEW f, cur[w] \in Session, Good(cur[w]), Grows,
         NEW t, t.number = cur[w].number, t.secret = cur[w].secret,
         t.state \notin {STATE_KNOWN, STATE_UPDATE, STATE_CALLBACK} \/ t.state = cur[w].state
                \/ (t.state = STATE_UPDATE /\ cur[w].state = STATE_KNOWN),
         Continue(w, t, f)
  PROVE  Kept(w, t)
<1>1. Good(t)
  BY DEF Good, Registered, CardIsStored, RowsWithNumber
<1>2. QED
  BY <1>1, GoodStays DEF Kept, Continue

\* Collecting a key leaves the account of the session alone.
LEMMA CollectSame ==
  ASSUME NEW s \in Session, NEW k \in Keys
  PROVE  /\ Collect(s, k).number = s.number /\ Collect(s, k).secret = s.secret
         /\ Collect(s, k).state = s.state
         /\ CollectCredit(s, k).number = s.number /\ CollectCredit(s, k).secret = s.secret
         /\ CollectCredit(s, k).state \in {s.state, k}
         /\ k \notin {STATE_KNOWN, STATE_UPDATE, STATE_CALLBACK}
BY KeysAssumption DEF Collect, CollectCredit, Session

\* Every branch of the switch keeps the accounts.
LEMMA SwitchAccounts ==
  ASSUME AInv, NEW w \in Workers, DtmfSwitch(w)
  PROVE  Grows /\ Records' /\ \E t : Kept(w, t)
<1> DEFINE s == cur[w]
           k == job[w].key
<1>1. pc[w] = "switch"
  BY DEF DtmfSwitch, OnInit, OnHodl, OnBuy, OnPhone, OnKnown, OnUpdate,
         OnCredit, OnCallback, OnBye, OnSupport, OnSupId, In
<1>2. s \in Session /\ k \in Keys
  BY <1>1 DEF AInv, TInv, HandledOK, Handled, Copied
<1>3. Good(s)
  BY <1>2, SessionIsNot, GoodSessions DEF AInv, AccountsAgree
<1>4. UNCHANGED store => Grows /\ Records'
  BY RecordsKept
<1>5. {STATE_HODL, STATE_BUY, STATE_PHONE, STATE_CREDIT, STATE_BYE, STATE_SUPPORT, STATE_SUP_ID}
        \subseteq State \ {STATE_KNOWN, STATE_UPDATE, STATE_CALLBACK}
  BY DEF State, CALLER_STATE
<1>6. ASSUME NEW f,
             NEW st \in {STATE_HODL, STATE_BUY, STATE_PHONE, STATE_CREDIT, STATE_BYE,
                         STATE_SUPPORT, STATE_SUP_ID},
             Continue(w, Goto(s, st), f) \/ Continue(w, Enter(s, st), f)
      PROVE  \E t : Kept(w, t)
  BY <1>2, <1>5, <1>6, QuietKept
<1>7. ASSUME Grows, NEW f, Continue(w, s, f) \/ Continue(w, Collect(s, k), f)
      PROVE  \E t : Kept(w, t)
  <2>1. CASE Continue(w, s, f)
    <3>1. PICK t : t = s
      OBVIOUS
    <3>2. QED
      BY <1>2, <1>3, <1>7, <2>1, <3>1, SameKept
  <2>2. CASE Continue(w, Collect(s, k), f)
    <3>1. PICK t : t = Collect(s, k)
      OBVIOUS
    <3>2. QED
      BY <1>2, <1>3, <1>7, <2>2, <3>1, SameKept, CollectSame
  <2>3. QED
    BY <1>7, <2>1, <2>2
<1>8. ASSUME Grows, NEW f, Continue(w, CollectCredit(s, k), f), s.state = STATE_CREDIT
      PROVE  \E t : Kept(w, t)
  <2>1. PICK t : t = CollectCredit(s, k)
    OBVIOUS
  <2>2. QED
    BY <1>2, <1>3, <1>8, <2>1, SameKept, CollectSame
<1>9. CASE OnInit(w)
  BY <1>4, <1>6, <1>9 DEF OnInit
<1>10. CASE OnHodl(w)
  BY <1>4, <1>6, <1>10 DEF OnHodl
<1>11. CASE OnBuy(w)
  BY <1>4, <1>6, <1>11 DEF OnBuy
<1>12. CASE OnPhone(w)
  BY <1>2, <1>4, <1>7, <1>12, LookupKept DEF OnPhone, Key
<1>13. CASE OnKnown(w)
  <2>1. s.state = STATE_KNOWN /\ UNCHANGED <<db, written>>
    BY <1>13 DEF OnKnown, In
  <2>2. CASE Key(w) = Two
    <3>1. Send(w, "secret", s.number, s.secret) /\ Continue(w, s, "none")
      BY <1>13, <2>2 DEF OnKnown, One, Two, Three
    <3>2. <<s.number, s.secret>> \in written
      BY <1>3, <2>1 DEF Good, CardIsStored
    <3>3. Grows /\ Records'
      BY <2>1, <3>1, <3>2, ReplyKept
    <3>4. QED
      BY <1>7, <3>1, <3>3
  <2>3. CASE Key(w) # Two
    <3>1. UNCHANGED store
      BY <1>13, <2>3 DEF OnKnown, store
    <3>2. CASE Continue(w, Goto(s, STATE_BYE), "loop")
      BY <1>4, <1>6, <3>1, <3>2
    <3>3. CASE Continue(w, Enter(s, STATE_UPDATE), "file")
      <4>1. PICK t : t = Enter(s, STATE_UPDATE)
        OBVIOUS
      <4>2. t.state = STATE_UPDATE /\ t.number = s.number /\ t.secret = s.secret
        BY <1>2, <4>1 DEF Enter, Session
      <4>3. QED
        BY <1>2, <1>3, <1>4, <2>1, <3>1, <3>3, <4>1, <4>2, SameKept
    <3>4. CASE Continue(w, s, "file")
      BY <1>4, <1>7, <3>1, <3>4
    <3>5. QED
      BY <1>13, <2>3, <3>2, <3>3, <3>4 DEF OnKnown
  <2>4. QED
    BY <2>2, <2>3
<1>14. CASE OnUpdate(w)
  <2>1. CASE Key(w) = Hash
    BY <1>2, <1>14, <2>1, ChangeCardKept DEF OnUpdate, In
  <2>2. CASE Key(w) # Hash
    <3>1. UNCHANGED store /\ Continue(w, Collect(s, k), "none")
      BY <1>14, <2>2 DEF OnUpdate, store, Key
    <3>2. QED
      BY <1>4, <1>7, <3>1
  <2>3. QED
    BY <2>1, <2>2
<1>15. CASE OnCredit(w)
  BY <1>2, <1>4, <1>8, <1>15, RegisterKept DEF OnCredit, Key, In
<1>16. CASE OnCallback(w)
  BY <1>4, <1>6, <1>16 DEF OnCallback
<1>17. CASE OnBye(w)
  <2>1. Kept(w, NoSession)
    BY <1>17 DEF OnBye, Return, Kept
  <2>2. QED
    BY <1>4, <1>17, <2>1 DEF OnBye
<1>18. CASE OnSupport(w)
  <2>1. CASE \E about, text : Send(w, "count", about, text) /\ Continue(w, s, "file")
    <3>1. Grows /\ Records'
      BY <1>18, <2>1, ReplyKept DEF OnSupport
    <3>2. QED
      BY <1>7, <2>1, <3>1
  <2>2. CASE UNCHANGED replies
    <3>1. UNCHANGED store
      BY <1>18, <2>2 DEF OnSupport, store
    <3>2. \/ Continue(w, s, "file")
          \/ Continue(w, Goto(s, STATE_BYE), "file")
          \/ Continue(w, Enter(s, STATE_SUP_ID), "file")
      BY <1>18 DEF OnSupport, Fail
    <3>3. QED
      BY <1>4, <1>6, <1>7, <3>1, <3>2
  <2>3. QED
    BY <1>18, <2>1, <2>2 DEF OnSupport
<1>19. CASE OnSupId(w)
  <2>1. CASE \E u \in RowsWithUid(s.buf) :
               /\ Send(w, "card", s.buf, db[u].creditcard)
               /\ Continue(w, Goto(s, STATE_SUPPORT), "none")
    <3>1. PICK u \in RowsWithUid(s.buf) :
               /\ Send(w, "card", s.buf, db[u].creditcard)
               /\ Continue(w, Goto(s, STATE_SUPPORT), "none")
      BY <2>1
    <3>2. u \in DOMAIN db /\ s.buf = Decimal[u] /\ <<db[u].number, db[u].creditcard>> \in written
      BY <3>1 DEF RowsWithUid, AInv, AccountsAgree, RowsAreStored
    <3>3. Grows /\ Records'
      BY <1>19, <3>1, <3>2, ReplyKept DEF OnSupId
    <3>4. QED
      BY <1>6, <3>1, <3>3
  <2>2. CASE UNCHANGED replies
    <3>1. UNCHANGED store
      BY <1>19, <2>2 DEF OnSupId, store
    <3>2. \/ Continue(w, Collect(s, k), "none")
          \/ Continue(w, Goto(s, STATE_BYE), "file")
          \/ Continue(w, Goto(s, STATE_SUPPORT), "none")
      BY <1>19 DEF OnSupId, Fail, Key
    <3>3. QED
      BY <1>4, <1>6, <1>7, <3>1, <3>2
  <2>3. QED
    BY <1>19, <2>1, <2>2 DEF OnSupId
<1>20. QED
  BY <1>9, <1>10, <1>11, <1>12, <1>13, <1>14, <1>15, <1>16, <1>17, <1>18, <1>19
  DEF DtmfSwitch

\* Init has only what the table brings along.
LEMMA InitAccounts == ASSUME Init PROVE AInv
<1>1. TInv
  BY InitType
<1>2. RowsAreStored /\ OneAccountPerNumber
  BY DbAssumption DEF Init, RowsAreStored, OneAccountPerNumber
<1>3. QED
  BY <1>1, <1>2 DEF Init, AInv, AccountsAgree, KnownIsRegistered, EverySession,
     SecretIsOwn, UidIsOwn, CardIsOfUid

\* Every step keeps the accounts.
LEMMA NextAccounts == ASSUME AInv, [Next]_vars PROVE AInv'
<1>1. TInv'
  BY NextType DEF AInv
<1>2. ASSUME NEW w \in Workers, DtmfSwitch(w)
      PROVE  AInv'
  <2>1. PICK t : Grows /\ Records' /\ Kept(w, t)
    BY <1>2, SwitchAccounts
  <2>2. UNCHANGED clients
    BY <1>2 DEF DtmfSwitch
  <2>3. (KnownIsRegistered /\ EverySession(CardIsStored))'
    BY <2>1, <2>2, SwitchSessions DEF AInv, Kept
  <2>4. QED
    BY <1>1, <2>1, <2>3 DEF AInv, AccountsAgree, Records
<1>3. ASSUME \A w \in Workers : ~ DtmfSwitch(w)
      PROVE  AInv'
  <2>1. TInv /\ AccountsAgree
    BY DEF AInv
  <2>2. UNCHANGED store
    BY <1>3, <2>1, StepMoves
  <2>3. Grows /\ Records'
    BY <2>2, RecordsKept
  <2>4. /\ \A c \in Calls : clients[c] # NoSession => Good(clients[c])
        /\ \A w \in Workers : cur[w] # NoSession => Good(cur[w])
    BY <2>1, GoodSessions DEF AccountsAgree
  <2>5. ASSUME NEW s, s # NoSession,
               \/ \E c \in Calls : s = clients[c] \/ (/\ clients[c] \in Session
                                                      /\ s = [clients[c] EXCEPT !.dumb = TRUE])
               \/ \E w \in Workers : s = cur[w]
               \/ s = FreshSession
        PROVE  Good(s)'
    <3>1. Good(s)
      <4>1. CASE \E c \in Calls : clients[c] \in Session /\ s = [clients[c] EXCEPT !.dumb = TRUE]
        <5>1. PICK c \in Calls : clients[c] \in Session /\ s = [clients[c] EXCEPT !.dumb = TRUE]
          BY <4>1
        <5>2. Good(clients[c])
          BY <2>4, <5>1, SessionIsNot
        <5>3. s.state = clients[c].state /\ s.number = clients[c].number /\ s.secret = clients[c].secret
          BY <5>1 DEF Session
        <5>4. QED
          BY <5>2, <5>3 DEF Good, Registered, CardIsStored, RowsWithNumber
      <4>2. CASE s = FreshSession
        BY <4>2, Unnamed DEF FreshSession
      <4>3. QED
        BY <2>4, <2>5, <4>1, <4>2
    <3>2. QED
      BY <2>3, <3>1, GoodStays
  <2>6. \A c \in Calls : clients'[c] # NoSession => Good(clients[c])'
    <3>1. SUFFICES ASSUME NEW c \in Calls, NEW s, s = clients'[c], s # NoSession
                   PROVE  Good(s)'
      BY DEF Good, Registered, CardIsStored, RowsWithNumber
    <3>2. QED
      BY <1>3, <2>1, <2>5, <3>1, StepMoves
  <2>7. \A w \in Workers : cur'[w] # NoSession => Good(cur[w])'
    <3>1. SUFFICES ASSUME NEW w \in Workers, NEW s, s = cur'[w], s # NoSession
                   PROVE  Good(s)'
      BY DEF Good, Registered, CardIsStored, RowsWithNumber
    <3>2. QED
      BY <1>3, <2>1, <2>5, <3>1, StepMoves
  <2>8. (KnownIsRegistered /\ EverySession(CardIsStored))'
    BY <2>6, <2>7 DEF Good, KnownIsRegistered, EverySession
  <2>9. QED
    BY <1>1, <2>3, <2>8 DEF AInv, AccountsAgree, Records
<1>4. QED
  BY <1>2, <1>3

\* The table, the history of stored cards and the copies in the sessions
\* agree, and every number has one account, however many workers interleave.
THEOREM AccountsCorrect == Spec => [](AccountsAgree /\ OneAccountPerNumber)
<1>1. Init => AInv
  BY InitAccounts
<1>2. AInv /\ [Next]_vars => AInv'
  BY NextAccounts
<1>3. AInv => AccountsAgree /\ OneAccountPerNumber
  BY DEF AInv
<1>4. QED
  BY <1>1, <1>2, <1>3, PTL DEF Spec

\* Whatever a caller is told is true: the card read out was stored for the
\* number or the uid asked about, and the uid is that of the caller's row.
THEOREM RepliesCorrect == Spec => [](SecretIsOwn /\ UidIsOwn /\ CardIsOfUid)
<1>1. Init => AInv
  BY InitAccounts
<1>2. AInv /\ [Next]_vars => AInv'
  BY NextAccounts
<1>3. AInv => SecretIsOwn /\ UidIsOwn /\ CardIsOfUid
  BY DEF AInv
<1>4. QED
  BY <1>1, <1>2, <1>3, PTL DEF Spec

\* No two rows of the table have one number, although the look-up and the
\* insertion of a registration are two steps.
THEOREM OneAccountPerNumberHolds == Spec => []OneAccountPerNumber
BY AccountsCorrect, PTL

\* The uid read out is that of the caller's own row.
THEOREM UidIsOwnHolds == Spec => []UidIsOwn
BY RepliesCorrect, PTL

\* A support caller hears the card of the uid it typed.
THEOREM CardIsOfUidHolds == Spec => []CardIsOfUid
BY RepliesCorrect, PTL

-----------------------------------------------------------------------------
(* What the switch does to a session, and that only calls in the state BYE *)
(* that know their dumb channel are ended by the notify handler            *)

HIDE DEF STATE_SUPPORT, STATE_SUP_ID, STATE_INIT, STATE_HODL, STATE_BUY,
         STATE_PHONE, STATE_KNOWN, STATE_CREDIT, STATE_UPDATE, STATE_CALLBACK,
         STATE_BYE

\* The switch leaves no copy, or one of the same call that knows its dumb
\* channel if that was known, with a buffer that has not grown too far.
Follows(s, t) ==
  /\ t.dumb = s.dumb
  /\ InBounds(s) => InBounds(t)

Leaves(w) ==
  \/ Return(w)
  \/ \E t \in Session, f \in Newfile : Continue(w, t, f) /\ Follows(cur[w], t)

\* Going to another state, with or without an empty buffer.
LEMMA GotoFollows ==
  ASSUME NEW s \in Session, NEW st \in State
  PROVE  /\ Goto(s, st) \in Session /\ Follows(s, Goto(s, st))
         /\ Enter(s, st) \in Session /\ Follows(s, Enter(s, st))
<1>1. /\ Goto(s, st).dumb = s.dumb /\ Goto(s, st).buf = s.buf
      /\ Enter(s, st).dumb = s.dumb /\ Enter(s, st).buf = <<>>
  BY DEF Goto, Enter, Session
<1>2. Len(<<>>) = 0 /\ BufSize \in Nat
  BY BufAssumption
<1>3. QED
  BY <1>1, <1>2, GotoType, EnterType DEF Follows, InBounds

\* Collecting a key stops at the end of the buffer, or one byte behind it.
LEMMA CollectFollows ==
  ASSUME NEW s \in Session, NEW k \in Keys
  PROVE  /\ Collect(s, k) \in Session /\ Follows(s, Collect(s, k))
         /\ CollectCredit(s, k) \in Session /\ Follows(s, CollectCredit(s, k))
<1>1. s.buf \in Seq(Keys) /\ BufSize \in Nat /\ Len(s.buf) \in Nat
  BY BufAssumption DEF Session, Text
<1>2. Len(Append(s.buf, k)) = Len(s.buf) + 1
  BY <1>1
<1>3. Follows(s, Collect(s, k))
  <2>1. Collect(s, k).dumb = s.dumb
    BY DEF Collect, Session
  <2>2. Collect(s, k).buf = IF Len(s.buf) < BufSize THEN Append(s.buf, k) ELSE s.buf
    BY DEF Collect, Session
  <2>3. QED
    BY <1>1, <1>2, <2>1, <2>2 DEF Follows, InBounds
<1>4. Follows(s, CollectCredit(s, k))
  <2>1. CollectCredit(s, k).dumb = s.dumb
    BY DEF CollectCredit, Session
  <2>2. CollectCredit(s, k).buf = IF Len(s.buf) <= BufSize THEN Append(s.buf, k) ELSE s.buf
    BY <1>1 DEF CollectCredit, Session
  <2>3. QED
    BY <1>1, <1>2, <2>1, <2>2 DEF Follows, InBounds
<1>5. QED
  BY <1>3, <1>4, CollectType, CollectCreditType

\* A copy that stays, or whose number or card is set, follows.
LEMMA NamedFollows ==
  ASSUME NEW s \in Session, NEW n \in Text, NEW t \in Session,
         \/ t = s
         \/ t = [s EXCEPT !.number = n]
         \/ t = [s EXCEPT !.secret = n]
  PROVE  t.dumb = s.dumb /\ t.buf = s.buf /\ Follows(s, t)
BY DEF Follows, InBounds, Session

\* What follows a session with another number or card follows the session.
LEMMA FollowsOn ==
  ASSUME NEW s, NEW t, NEW u, t.dumb = s.dumb, t.buf = s.buf, Follows(t, u)
  PROVE  Follows(s, u)
BY DEF Follows, InBounds

\* Every branch of the switch ends with a copy that follows the one it was
\* given, or with none.
LEMMA SwitchLeaves ==
  ASSUME TInv, NEW w \in Workers, DtmfSwitch(w)
  PROVE  Leaves(w)
<1> DEFINE s == cur[w]
           k == job[w].key
           After == {t \in Session : Follows(s, t)}
<1>1. pc[w] = "switch"
  BY DEF DtmfSwitch, OnInit, OnHodl, OnBuy, OnPhone, OnKnown, OnUpdate,
         OnCredit, OnCallback, OnBye, OnSupport, OnSupId, In
<1>2. s \in Session /\ k \in Keys
  BY <1>1 DEF TInv, HandledOK, Handled, Copied
<1>3. /\ \A st \in State : Goto(s, st) \in After /\ Enter(s, st) \in After
      /\ Collect(s, k) \in After /\ CollectCredit(s, k) \in After
  BY <1>2, GotoFollows, CollectFollows
<1>4. s \in After
  BY <1>2 DEF Follows
<1>5. Truncate(s.buf) \in Text /\ {"none", "file", "loop"} = Newfile
  BY <1>2, TruncateType DEF Session, Newfile
<1>6. /\ STATE_HODL \in State /\ STATE_BUY \in State /\ STATE_PHONE \in State
      /\ STATE_KNOWN \in State /\ STATE_CREDIT \in State /\ STATE_UPDATE \in State
      /\ STATE_CALLBACK \in State /\ STATE_BYE \in State /\ STATE_SUPPORT \in State
      /\ STATE_SUP_ID \in State
  BY DEF State, CALLER_STATE
<1>7. ASSUME NEW named \in Session, \/ named = [s EXCEPT !.number = Truncate(s.buf)]
                                   \/ named = [s EXCEPT !.secret = Truncate(s.buf)]
      PROVE  \A st \in State : Goto(named, st) \in After /\ Enter(named, st) \in After
  <2>1. named.dumb = s.dumb /\ named.buf = s.buf
    BY <1>2, <1>5, <1>7, NamedFollows
  <2>2. \A st \in State : /\ Goto(named, st) \in Session /\ Follows(named, Goto(named, st))
                          /\ Enter(named, st) \in Session /\ Follows(named, Enter(named, st))
    BY <1>7, GotoFollows
  <2>3. QED
    BY <2>1, <2>2, FollowsOn
<1>8. SUFFICES \/ Return(w)
               \/ \E t \in After, f \in Newfile : Continue(w, t, f)
  BY DEF Leaves
<1>11. CASE OnInit(w) \/ OnHodl(w) \/ OnBuy(w)
  BY <1>11, <1>3, <1>5, <1>6 DEF OnInit, OnHodl, OnBuy
<1>12. CASE OnPhone(w)
  <2>1. CASE Key(w) = Hash
    <3> DEFINE named == [s EXCEPT !.number = Truncate(s.buf)]
    <3>1. named \in Session
      BY <1>2, <1>5, NumberType
    <3>2. \A st \in State : Goto(named, st) \in After /\ Enter(named, st) \in After
      BY <1>7, <3>1
    <3>3. ASSUME NEW u \in DOMAIN db
          PROVE  [Goto(named, STATE_KNOWN) EXCEPT !.secret = Truncate(db[u].creditcard)] \in After
      <4> DEFINE g == Goto(named, STATE_KNOWN)
                 t == [g EXCEPT !.secret = Truncate(db[u].creditcard)]
      <4>1. db[u].creditcard \in Text
        BY RowType DEF TInv, TypeOK, StoreOK
      <4>2. g \in Session /\ Follows(s, g)
        BY <1>6, <3>2
      <4>3. Truncate(db[u].creditcard) \in Text
        BY <4>1, TruncateType
      <4>4. t \in Session
        BY <4>2, <4>3, NumberType
      <4>5. t.dumb = g.dumb /\ t.buf = g.buf
        BY <4>2, <4>3, <4>4, NamedFollows
      <4>6. Follows(s, t)
        BY <4>2, <4>5 DEF Follows, InBounds
      <4>7. QED
        BY <4>4, <4>6
    <3>4. Lookup(w)
      BY <1>12, <2>1 DEF OnPhone
    <3>5. QED
      BY <1>5, <1>6, <3>2, <3>3, <3>4 DEF Lookup, RowsWithNumber
  <2>2. CASE Key(w) # Hash
    BY <1>12, <1>3, <1>5, <2>2 DEF OnPhone, Key
  <2>3. QED
    BY <2>1, <2>2
<1>13. CASE OnKnown(w)
  BY <1>13, <1>3, <1>4, <1>5, <1>6 DEF OnKnown
<1>14. CASE OnUpdate(w) \/ OnCredit(w)
  <2>1. CASE Key(w) = Hash
    <3> DEFINE named == [s EXCEPT !.secret = Truncate(s.buf)]
    <3>1. named \in Session
      BY <1>2, <1>5, NumberType
    <3>2. \A st \in State : Goto(named, st) \in After /\ Enter(named, st) \in After
      BY <1>7, <3>1
    <3>3. ChangeCard(w) \/ Register(w)
      BY <1>14, <2>1 DEF OnUpdate, OnCredit
    <3>4. QED
      BY <1>5, <1>6, <3>2, <3>3 DEF ChangeCard, Register
  <2>2. CASE Key(w) # Hash
    BY <1>14, <1>3, <1>5, <2>2 DEF OnUpdate, OnCredit, Key
  <2>3. QED
    BY <2>1, <2>2
<1>15. CASE OnCallback(w)
  BY <1>15, <1>3, <1>5, <1>6 DEF OnCallback
<1>16. CASE OnBye(w)
  BY <1>16 DEF OnBye
<1>17. CASE OnSupport(w)
  BY <1>17, <1>3, <1>4, <1>5, <1>6 DEF OnSupport, Fail
<1>18. CASE OnSupId(w)
  BY <1>18, <1>3, <1>5, <1>6 DEF OnSupId, Fail, Key
<1>19. QED
  BY <1>11, <1>12, <1>13, <1>14, <1>15, <1>16, <1>17, <1>18 DEF DtmfSwitch

-----------------------------------------------------------------------------
(* The buffer *)

BInv == TInv /\ WritesStayInSession

\* Sessions are moved or follow the one they were made from.
LEMMA NextBounds == ASSUME BInv, [Next]_vars PROVE BInv'
<1>1. TInv'
  BY NextType DEF BInv
<1>2. InBounds(FreshSession)
  BY BufAssumption DEF FreshSession, InBounds
<1>3. CASE \A w \in Workers : ~ DtmfSwitch(w)
  <2>1. /\ \A c \in Calls : \/ clients'[c] \in {NoSession, FreshSession, clients[c]}
                             \/ /\ clients[c] \in Session
                                /\ clients'[c] = [clients[c] EXCEPT !.dumb = TRUE]
                             \/ \E w \in Workers : clients'[c] = cur[w]
        /\ \A w \in Workers : \/ cur'[w] \in {NoSession, cur[w]}
                              \/ \E c \in Calls : cur'[w] = clients[c]
    BY <1>3, StepMoves DEF BInv
  <2>2. \A t \in Session : [t EXCEPT !.dumb = TRUE].buf = t.buf
    BY DEF Session
  <2>3. ASSUME NEW c \in Calls, clients'[c] # NoSession
        PROVE  InBounds(clients'[c])
    <3>1. CASE clients'[c] \in {NoSession, FreshSession, clients[c]}
      BY <1>2, <2>3, <3>1 DEF BInv, WritesStayInSession, EverySession
    <3>2. CASE /\ clients[c] \in Session
               /\ clients'[c] = [clients[c] EXCEPT !.dumb = TRUE]
      <4>1. InBounds(clients[c])
        BY <3>2, SessionIsNot DEF BInv, WritesStayInSession, EverySession
      <4>2. QED
        BY <2>2, <3>2, <4>1 DEF InBounds
    <3>3. CASE \E w \in Workers : clients'[c] = cur[w]
      BY <2>3, <3>3 DEF BInv, WritesStayInSession, EverySession
    <3>4. QED
      BY <2>1, <3>1, <3>2, <3>3
  <2>4. ASSUME NEW w \in Workers, cur'[w] # NoSession
        PROVE  InBounds(cur'[w])
    BY <2>1, <2>4 DEF BInv, WritesStayInSession, EverySession
  <2>5. WritesStayInSession'
    BY <2>3, <2>4 DEF WritesStayInSession, EverySession, InBounds
  <2>6. QED
    BY <1>1, <2>5 DEF BInv
<1>4. ASSUME NEW w \in Workers, DtmfSwitch(w)
      PROVE  BInv'
  <2>1. Leaves(w) /\ clients' = clients
    BY <1>4, SwitchLeaves DEF BInv, DtmfSwitch
  <2>2. cur[w] \in Session
    BY <1>4 DEF BInv, TInv, HandledOK, Handled, Copied, DtmfSwitch, OnInit, OnHodl, OnBuy,
       OnPhone, OnKnown, OnUpdate, OnCredit, OnCallback, OnBye, OnSupport, OnSupId, In
  <2>3. InBounds(cur[w])
    BY <2>2, SessionIsNot DEF BInv, WritesStayInSession, EverySession
  <2>4. PICK t : cur' = [cur EXCEPT ![w] = t] /\ (t = NoSession \/ InBounds(t))
    BY <2>1, <2>3 DEF Leaves, Return, Continue, Follows
  <2>5. \A v \in Workers : cur'[v] = IF v = w THEN t ELSE cur[v]
    BY <2>4 DEF BInv, TInv, TypeOK, WorkersOK
  <2>6. WritesStayInSession'
    BY <2>1, <2>4, <2>5 DEF BInv, WritesStayInSession, EverySession, InBounds
  <2>7. QED
    BY <1>1, <2>6 DEF BInv
<1>5. QED
  BY <1>3, <1>4

\* No key is stored beyond the byte that follows the buffer.
THEOREM WritesHold == Spec => []WritesStayInSession
<1>1. Init => BInv
  BY InitType DEF Init, BInv, WritesStayInSession, EverySession
<1>2. BInv /\ [Next]_vars => BInv'
  BY NextBounds
<1>3. BInv => WritesStayInSession
  BY DEF BInv
<1>4. QED
  BY <1>1, <1>2, <1>3, PTL DEF Spec

-----------------------------------------------------------------------------
(* The dumb channel *)

\* A key of the call may be waiting: it was connected, so its session, if it
\* has one, knows the dumb channel.
Keyed(c) ==
  /\ router[c] \in {"welcome", "done"}
  /\ clients[c] # NoSession => clients[c].dumb

Waiting == {queue[i] : i \in DOMAIN queue}

\* A call that has not come in has no router thread yet; one that is up and
\* was connected knows its dumb channel; nobody is told goodbye before.
LinesKnow ==
  /\ \A c \in Calls : chan[c] = "none" => router[c] = "idle"
  /\ \A c \in Calls : /\ chan[c] = "up" /\ router[c] \in {"answer", "welcome", "done"}
                      /\ clients[c] # NoSession
                      => clients[c].dumb
  /\ \A c \in Calls : clients[c] # NoSession /\ clients[c].state = STATE_BYE
                      => clients[c].dumb
KeysKnow ==
  /\ \A m \in Waiting : m.type = "chan.dtmf" => Keyed(m.call)
  /\ \A w \in Workers : pc[w] = "chan.dtmf" => Keyed(job[w].call)
CopiesKnow ==
  \A w \in Workers : /\ pc[w] \in {"switch", "attach", "store"} => cur[w].dumb
                     /\ pc[w] = "drop" /\ cur[w].state = STATE_BYE => cur[w].dumb

DumbInv == TInv /\ LinesKnow /\ KeysKnow /\ CopiesKnow

\* The steps of workers that change a session store a copy that knows its dumb
\* channel, or remove one.
LEMMA WorkLines ==
  ASSUME DumbInv, NEW w \in Workers, Work(w)
  PROVE  LinesKnow' /\ \A c \in Calls : Keyed(c) => Keyed(c)'
<1> USE DEF DumbInv, TInv, TypeOK
<1>1. CASE DtmfStore(w)
  <2>1. cur[w].dumb
    BY <1>1 DEF CopiesKnow, DtmfStore
  <2>2. \A c \in Calls : clients'[c] \in {clients[c], cur[w]}
    BY <1>1 DEF DtmfStore
  <2>3. UNCHANGED <<router, chan>>
    BY <1>1 DEF DtmfStore, line
  <2>4. QED
    BY <2>1, <2>2, <2>3 DEF LinesKnow, Keyed
<1>2. CASE HandleHangup(w)
  <2>1. \A c \in Calls : clients'[c] \in {clients[c], NoSession}
    BY <1>2 DEF HandleHangup
  <2>2. UNCHANGED <<router, chan>>
    BY <1>2 DEF HandleHangup, line
  <2>3. QED
    BY <2>1, <2>2 DEF LinesKnow, Keyed
<1>3. CASE NotifyDrop(w)
  <2>1. UNCHANGED <<clients, router>>
    BY <1>3 DEF NotifyDrop
  <2>2. \A c \in Calls : chan'[c] # chan[c] => chan[c] = "up" /\ chan'[c] = "ending"
    BY <1>3 DEF NotifyDrop, LinesOK
  <2>3. QED
    BY <2>1, <2>2 DEF LinesKnow, Keyed
<1>4. CASE \/ Dequeue(w) \/ DtmfCopy(w) \/ DtmfSwitch(w) \/ DtmfAttach(w)
           \/ NotifyCopy(w) \/ HandleAttach(w)
  <2>1. UNCHANGED <<clients, router, chan>>
    BY <1>4 DEF Dequeue, DtmfCopy, DtmfSwitch, DtmfAttach, NotifyCopy, HandleAttach, line
  <2>2. QED
    BY <2>1 DEF LinesKnow, Keyed
<1>5. QED
  BY <1>1, <1>2, <1>3, <1>4 DEF Work, Handler

\* The router thread of a call records the dumb channel before the call is
\* answered, so before a key can be pressed.
LEMMA CallLines ==
  ASSUME DumbInv, NEW d \in Calls,
         Line(d) \/ RouterStep(d) \/ PromptEnds(d) \/ ChannelDestroyed(d)
  PROVE  LinesKnow' /\ \A c \in Calls : Keyed(c) => Keyed(c)'
<1> USE DEF DumbInv, TInv, TypeOK, LinesOK
<1>1. CASE IncomingCall(d)
  BY <1>1 DEF IncomingCall, LinesKnow, Keyed
<1>2. CASE Route(d)
  <2>1. /\ router[d] = "route" /\ UNCHANGED chan
        /\ clients' = [clients EXCEPT ![d] = FreshSession]
        /\ router' = [router EXCEPT ![d] = "execute"]
    BY <1>2 DEF Route, RouterGoto
  <2>2. FreshSession.state # STATE_BYE
    BY DEF FreshSession, STATE_INIT, STATE_BYE, CALLER_STATE
  <2>3. /\ \A c \in Calls \ {d} : clients'[c] = clients[c] /\ router'[c] = router[c]
        /\ clients'[d] = FreshSession /\ router'[d] = "execute"
    BY <2>1
  <2>4. chan[d] # "none" /\ ~ Keyed(d)
    BY <2>1 DEF LinesKnow, Keyed
  <2>5. \A c \in Calls : Keyed(c) => Keyed(c)'
    BY <2>1, <2>3, <2>4 DEF Keyed
  <2>6. LinesKnow'
    BY <2>1, <2>2, <2>3, <2>4 DEF LinesKnow
  <2>7. QED
    BY <2>5, <2>6
<1>3. CASE Execute(d)
  <2>1. /\ router[d] = "execute" /\ clients' = clients
        /\ \A c \in Calls \ {d} : router'[c] = router[c] /\ chan'[c] = chan[c]
    BY <1>3 DEF Execute, RouterGoto
  <2>2. /\ chan'[d] \in {chan[d], "ending"} /\ router'[d] \in {"hook", "done"}
        /\ router'[d] = "done" => chan'[d] # "up"
    BY <1>3 DEF Execute, RouterGoto
  <2>3. chan[d] # "none" /\ ~ Keyed(d)
    BY <2>1 DEF LinesKnow, Keyed
  <2>4. \A c \in Calls : Keyed(c) => Keyed(c)'
    BY <2>1, <2>3 DEF Keyed
  <2>5. LinesKnow'
    BY <2>1, <2>2, <2>3 DEF LinesKnow
  <2>6. QED
    BY <2>4, <2>5
<1>4. CASE HookTarget(d)
  <2>1. /\ router[d] = "hook" /\ UNCHANGED chan
        /\ \A c \in Calls \ {d} : clients'[c] = clients[c] /\ router'[c] = router[c]
    BY <1>4 DEF HookTarget, RouterGoto
  <2>2. router'[d] \in {"answer", "done"}
    BY <1>4 DEF HookTarget, RouterGoto
  <2>3. clients'[d] # NoSession => clients'[d].dumb
    <3>1. CASE clients[d] = NoSession
      BY <1>4, <3>1 DEF HookTarget
    <3>2. CASE clients[d] # NoSession
      BY <1>4, <3>2 DEF HookTarget, Session
    <3>3. QED
      BY <3>1, <3>2
  <2>4. chan[d] # "none" /\ ~ Keyed(d)
    BY <2>1 DEF LinesKnow, Keyed
  <2>5. \A c \in Calls : Keyed(c) => Keyed(c)'
    BY <2>1, <2>4 DEF Keyed
  <2>6. LinesKnow'
    BY <2>1, <2>2, <2>3, <2>4 DEF LinesKnow
  <2>7. QED
    BY <2>5, <2>6
<1>5. CASE HookAnswer(d) \/ HookWelcome(d)
  <2>1. /\ UNCHANGED <<clients, chan>>
        /\ router[d] \in {"answer", "welcome"} /\ router'[d] \in {"welcome", "done"}
        /\ \A c \in Calls \ {d} : router'[c] = router[c]
    BY <1>5 DEF HookAnswer, HookWelcome, RouterGoto
  <2>2. QED
    BY <2>1 DEF LinesKnow, Keyed
<1>6. CASE HangUp(d) \/ ChannelDestroyed(d)
  <2>1. /\ UNCHANGED <<clients, router>>
        /\ \A c \in Calls : chan'[c] # chan[c] => chan'[c] \in {"ending", "cancelled", "gone"}
    BY <1>6 DEF HangUp, ChannelDestroyed
  <2>2. QED
    BY <2>1 DEF LinesKnow, Keyed
<1>7. CASE PromptEnds(d) \/ \E k \in Keys : Press(d, k)
  <2>1. UNCHANGED <<clients, router, chan>>
    BY <1>7 DEF PromptEnds, Press
  <2>2. QED
    BY <2>1 DEF LinesKnow, Keyed
<1>8. QED
  BY <1>1, <1>2, <1>3, <1>4, <1>5, <1>6, <1>7 DEF Line, RouterStep

-----------------------------------------------------------------------------
(* The keys that wait, and the copies *)

\* A message is posted behind the others.
LEMMA WaitingPosted ==
  ASSUME queue \in Seq(Message), NEW m \in Message, Post(m)
  PROVE  Waiting' = Waiting \cup {m}
<1>1. DOMAIN queue' = DOMAIN queue \cup {Len(queue) + 1}
  BY DEF Post
<1>2. /\ \A i \in DOMAIN queue : queue'[i] = queue[i]
      /\ queue'[Len(queue) + 1] = m
  BY DEF Post
<1>3. QED
  BY <1>1, <1>2 DEF Waiting

\* The first message is taken.
LEMMA WaitingTaken ==
  ASSUME queue \in Seq(Message), queue # <<>>, queue' = Tail(queue)
  PROVE  Head(queue) \in Waiting /\ Waiting' \subseteq Waiting
<1>1. Head(queue) = queue[1] /\ 1 \in DOMAIN queue
  OBVIOUS
<1>2. \A i \in DOMAIN queue' : queue'[i] = queue[i + 1] /\ i + 1 \in DOMAIN queue
  OBVIOUS
<1>3. QED
  BY <1>1, <1>2 DEF Waiting

\* Reports of prompts are appended.
LEMMA WaitingReported ==
  ASSUME queue \in Seq(Message), NEW c \in Calls, NEW r \in Seq({Notify(c)}),
         queue' = queue \o r
  PROVE  Waiting' \subseteq Waiting \cup {Notify(c)}
<1>1. Notify(c) \in Message
  BY MessageType
<1>2. r \in Seq(Message)
  BY <1>1
<1>3. \A i \in DOMAIN queue' : queue'[i] = IF i <= Len(queue) THEN queue[i] ELSE r[i - Len(queue)]
  BY <1>2, ConcatProperties
<1>4. DOMAIN queue' = 1 .. Len(queue) + Len(r)
  BY <1>2, ConcatProperties
<1>5. ASSUME NEW i \in DOMAIN queue'
      PROVE  queue'[i] \in Waiting \cup {Notify(c)}
  <2>1. CASE i <= Len(queue)
    BY <1>3, <1>4, <2>1 DEF Waiting
  <2>2. CASE i > Len(queue)
    <3>1. i - Len(queue) \in 1 .. Len(r)
      BY <1>4, <2>2
    <3>2. r[i - Len(queue)] = Notify(c)
      BY <3>1
    <3>3. QED
      BY <1>3, <2>2, <3>2
  <2>3. QED
    BY <1>4, <2>1, <2>2
<1>6. QED
  BY <1>5 DEF Waiting

\* A worker that attaches a prompt posts nothing but reports of prompts.
LEMMA AttachReports ==
  ASSUME queue \in Seq(Message), NEW w \in Workers, NEW c \in Calls, c = job[w].call,
         HandleAttach(w)
  PROVE  \E r \in Seq({Notify(c)}) : queue' = queue \o r
<1> DEFINE S == Seq({Notify(c)})
<1>1. <<>> \in S /\ <<Notify(c)>> \in S /\ \A q, r \in S : q \o r \in S
  BY ConcatProperties
<1>2. /\ \A q, r \in {<<>>, <<Notify(c)>>} : (queue \o q) \o r = queue \o (q \o r)
      /\ queue \o <<>> = queue
  <2>1. Notify(c) \in Message
    BY MessageType
  <2>2. <<>> \in Seq(Message) /\ <<Notify(c)>> \in Seq(Message)
    BY <2>1
  <2>3. \A q, r, t \in Seq(Message) : (q \o r) \o t = q \o (r \o t)
    BY ConcatAssociative, SMTT(20)
  <2>4. queue \o <<>> = queue
    OBVIOUS
  <2>5. QED
    BY <2>2, <2>3, <2>4
<1>3. \/ \E q \in {<<>>, <<Notify(c)>>} : queue' = queue \o q
      \/ \E q, r \in {<<>>, <<Notify(c)>>} : queue' = queue \o q \o r
      \/ queue' = queue
  BY DEF HandleAttach
<1>4. \A q, r \in {<<>>, <<Notify(c)>>} : q \in S /\ q \o r \in S
  BY <1>1
<1>5. CASE \E q \in {<<>>, <<Notify(c)>>} : queue' = queue \o q
  BY <1>4, <1>5
<1>6. CASE \E q, r \in {<<>>, <<Notify(c)>>} : queue' = queue \o q \o r
  <2>1. PICK q \in {<<>>, <<Notify(c)>>}, r \in {<<>>, <<Notify(c)>>} :
          queue' = (queue \o q) \o r
    BY <1>6
  <2>2. queue' = queue \o (q \o r) /\ q \o r \in S
    BY <1>2, <1>4, <2>1
  <2>3. QED
    BY <2>2
<1>7. CASE queue' = queue
  BY <1>1, <1>2, <1>7
<1>8. QED
  BY <1>3, <1>5, <1>6, <1>7

\* A key is posted for a call that was connected and is up; a worker takes it,
\* and with it the session that knows the dumb channel.
LEMMA WorkKeys ==
  ASSUME DumbInv, NEW w \in Workers, Work(w)
  PROVE  KeysKnow' /\ CopiesKnow'
<1> USE DEF DumbInv, TInv, TypeOK, WorkersOK
<1>0. \A c \in Calls : Keyed(c) => Keyed(c)'
  BY WorkLines
<1>1. pc[w] # "idle" => job[w] \in Message /\ job[w].call \in Calls
  BY MessageCall DEF HandledOK, Handled
<1>2. \A m \in Waiting : m \in Message /\ m.call \in Calls
  <2>1. \A i \in DOMAIN queue : queue[i] \in Message
    OBVIOUS
  <2>2. QED
    BY <2>1, MessageCall DEF Waiting
<1>3. \A v \in Workers : pc[v] = "chan.dtmf" => job[v].call \in Calls
  BY MessageCall DEF HandledOK, Handled
<1>4. ASSUME \A m \in Waiting' : m \in Waiting \/ m.type # "chan.dtmf",
             \A v \in Workers \ {w} : /\ pc'[v] = pc[v] /\ job'[v] = job[v] /\ cur'[v] = cur[v],
             pc'[w] # "chan.dtmf"
      PROVE  KeysKnow'
  BY <1>0, <1>2, <1>3, <1>4 DEF KeysKnow
<1>5. ASSUME \A v \in Workers \ {w} : pc'[v] = pc[v] /\ cur'[v] = cur[v],
             pc'[w] \in {"switch", "attach", "store"} => cur'[w].dumb,
             pc'[w] = "drop" /\ cur'[w].state = STATE_BYE => cur'[w].dumb
      PROVE  CopiesKnow'
  BY <1>5 DEF CopiesKnow
<1>6. CASE Dequeue(w)
  <2>0. PICK m : m = Head(queue)
    OBVIOUS
  <2>1. m \in Waiting /\ Waiting' \subseteq Waiting /\ m \in Message
    BY <1>2, <1>6, <2>0, WaitingTaken DEF Dequeue
  <2>2. /\ pc'[w] = m.type /\ job'[w] = m
        /\ \A v \in Workers \ {w} : pc'[v] = pc[v] /\ job'[v] = job[v] /\ cur'[v] = cur[v]
    BY <1>6, <2>0 DEF Dequeue
  <2>3. m.type \in {"chan.dtmf", "chan.attach", "chan.notify", "chan.hangup"}
    BY <2>1 DEF Message
  <2>4. m.type = "chan.dtmf" => Keyed(m.call)'
    BY <1>0, <1>2, <2>1 DEF KeysKnow
  <2>5. KeysKnow'
    BY <1>0, <1>2, <1>3, <2>1, <2>2, <2>4 DEF KeysKnow
  <2>6. CopiesKnow'
    BY <1>5, <2>2, <2>3
  <2>7. QED
    BY <2>5, <2>6
<1>7. CASE Return(w) /\ UNCHANGED queue
  <2>1. /\ pc'[w] = "idle"
        /\ \A v \in Workers \ {w} : pc'[v] = pc[v] /\ job'[v] = job[v] /\ cur'[v] = cur[v]
    BY <1>7 DEF Return
  <2>2. Waiting' = Waiting
    BY <1>7 DEF Waiting
  <2>3. QED
    BY <1>4, <1>5, <2>1, <2>2
<1>8. CASE DtmfCopy(w) \/ NotifyCopy(w)
  <2>1. CASE clients[job[w].call] = NoSession
    BY <1>7, <1>8, <2>1 DEF DtmfCopy, NotifyCopy
  <2>2. CASE clients[job[w].call] # NoSession
    <3>1. /\ cur'[w] = clients[job[w].call] /\ pc'[w] \in {"switch", "drop"}
          /\ pc'[w] = "switch" => pc[w] = "chan.dtmf"
          /\ pc[w] # "idle" /\ UNCHANGED queue
          /\ \A v \in Workers \ {w} : pc'[v] = pc[v] /\ job'[v] = job[v] /\ cur'[v] = cur[v]
      BY <1>8, <2>2 DEF DtmfCopy, NotifyCopy
    <3>2. pc'[w] = "switch" => cur'[w].dumb
      BY <2>2, <3>1 DEF KeysKnow, Keyed
    <3>3. pc'[w] = "drop" /\ cur'[w].state = STATE_BYE => cur'[w].dumb
      BY <1>1, <2>2, <3>1 DEF LinesKnow
    <3>4. Waiting' = Waiting
      BY <3>1 DEF Waiting
    <3>5. QED
      BY <1>4, <1>5, <3>1, <3>2, <3>3, <3>4
  <2>3. QED
    BY <2>1, <2>2
<1>9. CASE DtmfSwitch(w)
  <2>1. Leaves(w) /\ UNCHANGED queue /\ pc[w] = "switch"
    BY <1>9, SwitchLeaves DEF DtmfSwitch, OnInit, OnHodl, OnBuy, OnPhone, OnKnown, OnUpdate,
       OnCredit, OnCallback, OnBye, OnSupport, OnSupId, In
  <2>2. CASE Return(w)
    BY <1>7, <2>1, <2>2
  <2>3. CASE \E t \in Session, f \in Newfile : Continue(w, t, f) /\ Follows(cur[w], t)
    <3>1. /\ cur'[w].dumb = cur[w].dumb /\ pc'[w] \in {"attach", "store"}
          /\ \A v \in Workers \ {w} : pc'[v] = pc[v] /\ job'[v] = job[v] /\ cur'[v] = cur[v]
      BY <2>3 DEF Continue, Follows
    <3>2. cur[w].dumb
      BY <2>1 DEF CopiesKnow
    <3>3. Waiting' = Waiting
      BY <2>1 DEF Waiting
    <3>4. QED
      BY <1>4, <1>5, <3>1, <3>2, <3>3
  <2>4. QED
    BY <2>1, <2>2, <2>3 DEF Leaves
<1>10. CASE DtmfAttach(w)
  <2>1. PICK p \in Prompt : Post(Attach(job[w].call, p))
    BY <1>10 DEF DtmfAttach, Prompt
  <2>2. pc[w] = "attach" /\ job[w].call \in Calls
    BY <1>1, <1>10 DEF DtmfAttach
  <2>3. Waiting' = Waiting \cup {Attach(job[w].call, p)}
    BY <2>1, <2>2, MessageType, WaitingPosted
  <2>4. Attach(job[w].call, p).type # "chan.dtmf"
    BY DEF Attach
  <2>5. /\ pc'[w] = "store" /\ cur' = cur /\ job' = job
        /\ \A v \in Workers \ {w} : pc'[v] = pc[v]
    BY <1>10 DEF DtmfAttach
  <2>6. cur[w].dumb
    BY <2>2 DEF CopiesKnow
  <2>7. QED
    BY <1>4, <1>5, <2>3, <2>4, <2>5, <2>6
<1>11. CASE DtmfStore(w) \/ HandleHangup(w) \/ NotifyDrop(w)
  BY <1>7, <1>11 DEF DtmfStore, HandleHangup, NotifyDrop
<1>12. CASE HandleAttach(w)
  <2> DEFINE c == job[w].call
  <2>1. c \in Calls /\ Return(w)
    BY <1>1, <1>12 DEF HandleAttach
  <2>2. PICK r \in Seq({Notify(c)}) : queue' = queue \o r
    BY <1>12, <2>1, AttachReports
  <2>3. Waiting' \subseteq Waiting \cup {Notify(c)}
    BY <2>1, <2>2, WaitingReported
  <2>4. Notify(c).type # "chan.dtmf"
    BY DEF Notify
  <2>5. /\ pc'[w] = "idle"
        /\ \A v \in Workers \ {w} : pc'[v] = pc[v] /\ job'[v] = job[v] /\ cur'[v] = cur[v]
    BY <2>1 DEF Return
  <2>6. QED
    BY <1>4, <1>5, <2>3, <2>4, <2>5
<1>13. QED
  BY <1>6, <1>8, <1>9, <1>10, <1>11, <1>12 DEF Work, Handler

\* Calls post keys only when they are up and connected.
LEMMA CallKeys ==
  ASSUME DumbInv, NEW d \in Calls,
         Line(d) \/ RouterStep(d) \/ PromptEnds(d) \/ ChannelDestroyed(d)
  PROVE  KeysKnow' /\ CopiesKnow'
<1> USE DEF DumbInv, TInv, TypeOK, WorkersOK
<1>0. \A c \in Calls : Keyed(c) => Keyed(c)'
  BY CallLines
<1>1. UNCHANGED <<pc, job, cur>>
  BY DEF Line, RouterStep, IncomingCall, HangUp, Press, Route, Execute, HookTarget,
     HookAnswer, HookWelcome, PromptEnds, ChannelDestroyed, worker
<1>2. CopiesKnow'
  BY <1>1 DEF CopiesKnow
<1>3. \A m \in Waiting : m.call \in Calls
  <2>1. \A i \in DOMAIN queue : queue[i] \in Message
    OBVIOUS
  <2>2. QED
    BY <2>1, MessageCall DEF Waiting
<1>4. \A w \in Workers : pc[w] = "chan.dtmf" => job[w].call \in Calls
  BY MessageCall DEF HandledOK, Handled
<1>5. \A m \in Waiting' : \/ m \in Waiting \/ m.type # "chan.dtmf"
                          \/ m.call = d /\ Keyed(d)
  <2>1. CASE UNCHANGED queue
    BY <2>1 DEF Waiting
  <2>2. CASE PromptEnds(d)
    <3>1. Waiting' = Waiting \cup {Notify(d)}
      BY <2>2, MessageType, WaitingPosted DEF PromptEnds
    <3>2. QED
      BY <3>1 DEF Notify
  <2>3. CASE HookWelcome(d)
    <3>1. Waiting' = Waiting \cup {Attach(d, "plain")}
      BY <2>3, MessageType, WaitingPosted DEF HookWelcome, Prompt
    <3>2. QED
      BY <3>1 DEF Attach
  <2>4. CASE ChannelDestroyed(d)
    <3>1. Waiting' = Waiting \cup {Hangup(d)}
      BY <2>4, MessageType, WaitingPosted DEF ChannelDestroyed
    <3>2. QED
      BY <3>1 DEF Hangup
  <2>5. CASE \E k \in Keys : Press(d, k)
    <3>1. PICK k \in Keys : Press(d, k)
      BY <2>5
    <3>2. Waiting' = Waiting \cup {Dtmf(d, k)}
      BY <3>1, MessageType, WaitingPosted DEF Press
    <3>3. Keyed(d)
      BY <3>1 DEF Press, LinesKnow, Keyed
    <3>4. QED
      BY <3>2, <3>3 DEF Dtmf
  <2>6. QED
    BY <2>1, <2>2, <2>3, <2>4, <2>5
    DEF Line, RouterStep, IncomingCall, HangUp, Route, Execute, HookTarget, HookAnswer
<1>6. KeysKnow'
  BY <1>0, <1>1, <1>3, <1>4, <1>5 DEF KeysKnow
<1>7. QED
  BY <1>2, <1>6

\* The service starts without calls, keys or copies.
LEMMA DumbInit == ASSUME Init PROVE DumbInv
<1>1. TInv
  BY InitType
<1>2. Waiting = {}
  BY DEF Init, Waiting
<1>3. QED
  BY <1>1, <1>2 DEF Init, DumbInv, LinesKnow, KeysKnow, CopiesKnow

\* Every step keeps what is known of lines, keys and copies.
LEMMA DumbNext == ASSUME DumbInv, [Next]_vars PROVE DumbInv'
<1>1. TInv'
  BY NextType DEF DumbInv
<1>2. CASE UNCHANGED vars
  <2>1. LinesKnow' /\ KeysKnow' /\ CopiesKnow'
    BY <1>2 DEF vars, DumbInv, LinesKnow, KeysKnow, Keyed, Waiting, CopiesKnow
  <2>2. QED
    BY <1>1, <2>1 DEF DumbInv
<1>3. CASE Next
  BY <1>1, <1>3, WorkLines, CallLines, WorkKeys, CallKeys DEF Next, DumbInv
<1>4. QED
  BY <1>2, <1>3

\* A call is ended one at a time: a session in the state BYE knows the dumb
\* channel that call.drop names.
LEMMA OneEnds ==
  ASSUME DumbInv, [Next]_vars, NEW c \in Calls, NEW d \in Calls, Ends(c), Ends(d)
  PROVE  c = d
<1>1. ASSUME NEW w \in Workers, Work(w) PROVE c = d
  <2>1. NotifyDrop(w) \/ UNCHANGED chan
    BY <1>1 DEF Work, Handler, Dequeue, DtmfCopy, DtmfSwitch, DtmfAttach, DtmfStore,
       HandleHangup, NotifyCopy, HandleAttach, line
  <2>2. CASE NotifyDrop(w)
    <3>1. cur[w].state = STATE_BYE => cur[w].dumb
      BY <2>2 DEF NotifyDrop, DumbInv, CopiesKnow
    <3>2. \A e \in Calls : Ends(e) => e = job[w].call
      BY <2>2, <3>1 DEF NotifyDrop, Dropped, Ends
    <3>3. QED
      BY <3>2
  <2>3. QED
    BY <2>1, <2>2 DEF Ends
<1>2. ASSUME NEW e \in Calls,
             Line(e) \/ RouterStep(e) \/ PromptEnds(e) \/ ChannelDestroyed(e)
      PROVE  c = d
  <2>1. CASE IncomingCall(e)
    BY <2>1 DEF IncomingCall, Ends
  <2>2. CASE HangUp(e)
    BY <2>2 DEF HangUp, Ends, DumbInv, TInv, TypeOK, LinesOK
  <2>3. CASE ChannelDestroyed(e)
    BY <2>3 DEF ChannelDestroyed, Ends
  <2>4. CASE Execute(e)
    BY <2>4 DEF Execute, Ends, DumbInv, TInv, TypeOK, LinesOK
  <2>5. CASE \/ Route(e) \/ HookTarget(e) \/ HookAnswer(e) \/ HookWelcome(e)
             \/ PromptEnds(e) \/ \E k \in Keys : Press(e, k)
    <3>1. UNCHANGED chan
      BY <2>5 DEF Press, Route, HookTarget, HookAnswer, HookWelcome, PromptEnds
    <3>2. QED
      BY <3>1 DEF Ends
  <2>6. QED
    BY <1>2, <2>1, <2>2, <2>3, <2>4, <2>5 DEF Line, RouterStep
<1>3. CASE UNCHANGED vars
  BY <1>3 DEF vars, Ends
<1>4. QED
  BY <1>1, <1>2, <1>3 DEF Next

\* The handler of chan.notify never sends a call.drop that ends other calls.
THEOREM NeverDropsOthersHolds == Spec => NeverDropsOthers
<1>1. Init => DumbInv
  BY DumbInit
<1>2. DumbInv /\ [Next]_vars => DumbInv'
  BY DumbNext
<1>3. DumbInv /\ [Next]_vars
      => [\A c, d \in Calls : Ends(c) /\ Ends(d) => c = d]_vars
  BY OneEnds
<1>4. QED
  BY <1>1, <1>2, <1>3, PTL DEF Spec, NeverDropsOthers

-----------------------------------------------------------------------------
(* A uid names one row *)

\* A set of numbers has a least one; what follows by induction is proved with
\* the least counterexample.
LEMMA LeastNumber ==
    ASSUME NEW T, T \subseteq Nat, T # {}
    PROVE  \E x \in T : \A y \in T : x <= y
<1> DEFINE Below == {0 .. n : n \in T}
<1>1. ASSUME NEW b \in Below
      PROVE  b \in FiniteSubsetsOf(Nat)
  <2>1. PICK n \in T : b = 0 .. n
    OBVIOUS
  <2>2. IsFiniteSet(b)
    BY <2>1, FS_Interval
  <2>3. b \subseteq Nat
    BY <2>1
  <2> QED
    BY <2>2, <2>3 DEF FiniteSubsetsOf
<1>2. Below # {}
  OBVIOUS
<1>3. PICK b \in Below : \A a \in Below : <<a, b>> \notin StrictSubsetOrdering(Nat)
  <2> HIDE DEF Below
  <2> QED
    BY <1>1, <1>2, FS_StrictSubsetOrderingWellFounded, WFMin
<1>4. PICK x \in T : b = 0 .. x
  OBVIOUS
<1>5. ASSUME NEW y \in T
      PROVE  x <= y
  <2>1. <<0 .. y, 0 .. x>> \notin StrictSubsetOrdering(Nat)
    BY <1>3, <1>4
  <2>2. 0 .. y \in SUBSET Nat /\ 0 .. x \in SUBSET Nat
    OBVIOUS
  <2>3. ~ (0 .. y \subseteq 0 .. x) \/ 0 .. y = 0 .. x
    BY <2>1, <2>2 DEF StrictSubsetOrdering
  <2>4. x \in Nat /\ y \in Nat
    OBVIOUS
  <2>5. y < x => 0 .. y \subseteq 0 .. x /\ x \in 0 .. x /\ x \notin 0 .. y
    BY <2>4
  <2> QED
    BY <2>3, <2>4, <2>5
<1> QED
  BY <1>5

\* The digits of the numbers up to one.
DigitsTo(f, m) ==
  f = [n \in 0 .. m |-> IF n < 10 THEN <<Zero + n>>
                        ELSE Append(f[n \div 10], Zero + (n % 10))]

\* A number without its last digit is a smaller one.
LEMMA FewerDigits ==
  ASSUME NEW n \in Nat, ~ n < 10
  PROVE  n \div 10 \in Nat /\ n \div 10 < n /\ n \div 10 >= 1 /\ n % 10 \in 0 .. 9
         /\ n = 10 * (n \div 10) + (n % 10)
<1>1. n \div 10 \in Int /\ n % 10 \in 0 .. 9 /\ n = 10 * (n \div 10) + (n % 10)
  OBVIOUS
<1>2. PICK q \in Int : q = n \div 10
  BY <1>1
<1>3. PICK r \in 0 .. 9 : r = n % 10
  BY <1>1
<1>4. n = 10 * q + r
  BY <1>1, <1>2, <1>3
<1>5. q >= 1 /\ q < n
  BY <1>4
<1> QED
  BY <1>1, <1>2, <1>3, <1>4, <1>5

\* What they say of a number.
LEMMA DigitsAt ==
  ASSUME NEW f, NEW m \in Nat, DigitsTo(f, m), NEW n \in 0 .. m
  PROVE  f[n] = IF n < 10 THEN <<Zero + n>> ELSE Append(f[n \div 10], Zero + (n % 10))
BY DEF DigitsTo

\* There is one way to write a number.
LEMMA DigitsAgree ==
  ASSUME NEW f, NEW g, NEW l \in Nat, NEW m \in Nat, DigitsTo(f, l), DigitsTo(g, m),
         NEW n \in Nat, n <= l, n <= m
  PROVE  f[n] = g[n]
<1> DEFINE bad == {k \in Nat : k <= l /\ k <= m /\ f[k] # g[k]}
<1>1. SUFFICES ASSUME n \in bad PROVE FALSE
  OBVIOUS
<1>2. PICK k \in bad : \A y \in bad : k <= y
  <2>1. bad \subseteq Nat /\ bad # {}
    BY <1>1
  <2> HIDE DEF bad
  <2> QED
    BY <2>1, LeastNumber
<1>3. k \in 0 .. l /\ k \in 0 .. m /\ f[k] # g[k] /\ k \in Nat
  BY <1>2
<1>4. CASE k < 10
  <2>1. f[k] = <<Zero + k>> /\ g[k] = <<Zero + k>>
    BY <1>3, <1>4, DigitsAt
  <2> QED
    BY <1>3, <2>1
<1>5. CASE ~ k < 10
  <2>1. PICK j \in Nat : j = k \div 10 /\ j < k
    BY <1>3, <1>5, FewerDigits
  <2>2. j \notin bad
    BY <1>2, <1>3, <2>1
  <2>3. f[j] = g[j]
    BY <1>3, <2>1, <2>2
  <2>4. f[k] = Append(f[j], Zero + (k % 10)) /\ g[k] = Append(g[j], Zero + (k % 10))
    BY <1>3, <1>5, <2>1, DigitsAt
  <2> QED
    BY <1>3, <2>3, <2>4
<1> QED
  BY <1>4, <1>5

\* Every number can be written.
LEMMA DigitsExist ==
  ASSUME NEW l \in Nat
  PROVE  \E f : DigitsTo(f, l)
<1> DEFINE bad == {m \in Nat : ~ \E f : DigitsTo(f, m)}
<1>1. SUFFICES ASSUME l \in bad PROVE FALSE
  OBVIOUS
<1>2. PICK m \in bad : \A y \in bad : m <= y
  <2>1. bad \subseteq Nat /\ bad # {}
    BY <1>1
  <2> HIDE DEF bad
  <2> QED
    BY <2>1, LeastNumber
<1>3. m \in Nat /\ ~ \E f : DigitsTo(f, m)
  BY <1>2
<1>4. \E g : m > 0 => DigitsTo(g, m - 1)
  <2>1. CASE m = 0
    BY <2>1
  <2>2. CASE m # 0
    <3>1. m - 1 \in Nat /\ m - 1 \notin bad
      <4>1. m - 1 \in Nat /\ ~ m <= m - 1
        BY <1>3, <2>2
      <4> HIDE DEF bad
      <4> QED
        BY <1>2, <4>1
    <3> QED
      BY <3>1
  <2> QED
    BY <2>1, <2>2
<1> HIDE DEF bad
<1>5. PICK g : m > 0 => DigitsTo(g, m - 1)
  BY <1>4
<1> DEFINE last == IF m < 10 THEN <<Zero + m>> ELSE Append(g[m \div 10], Zero + (m % 10))
           f == [n \in 0 .. m |-> IF n = m THEN last ELSE g[n]]
<1>6. f[m] = last /\ \A n \in 0 .. m : n # m => f[n] = g[n]
  BY <1>3
<1>7. f = [n \in 0 .. m |-> f[n]]
  OBVIOUS
<1> HIDE DEF f
<1>8. ASSUME NEW n \in 0 .. m
      PROVE  f[n] = IF n < 10 THEN <<Zero + n>> ELSE Append(f[n \div 10], Zero + (n % 10))
  <2>1. CASE n < 10 /\ n = m
    BY <1>6, <2>1
  <2>2. CASE ~ n < 10 /\ n = m
    <3>1. PICK j \in Nat : j = m \div 10 /\ j < m
      BY <1>3, <2>2, FewerDigits
    <3>2. f[j] = g[j]
      BY <1>3, <1>6, <3>1
    <3> QED
      BY <1>6, <2>2, <3>1, <3>2
  <2>3. CASE n # m
    <3>1. n \in 0 .. m - 1 /\ m > 0 /\ m - 1 \in Nat /\ n \in Nat
      BY <1>3, <2>3
    <3>2. f[n] = g[n]
      BY <1>6, <2>3
    <3>3. g[n] = IF n < 10 THEN <<Zero + n>> ELSE Append(g[n \div 10], Zero + (n % 10))
      BY <1>5, <3>1, DigitsAt
    <3>4. CASE n < 10
      BY <3>2, <3>3, <3>4
    <3>5. CASE ~ n < 10
      <4>1. PICK j \in Nat : j = n \div 10 /\ j < n
        BY <3>1, <3>5, FewerDigits
      <4>2. f[j] = g[j]
        BY <1>3, <1>6, <3>1, <4>1
      <4> QED
        BY <3>2, <3>3, <3>5, <4>1, <4>2
    <3> QED
      BY <3>4, <3>5
  <2> QED
    BY <2>1, <2>2, <2>3
<1>9. DigitsTo(f, m)
  BY <1>7, <1>8 DEF DigitsTo
<1> QED
  BY <1>3, <1>9

\* The recursive definition defines the digits of every number.
LEMMA DecimalDef ==
  ASSUME NEW n \in Nat
  PROVE  Decimal[n] = IF n < 10 THEN <<Zero + n>>
                      ELSE Append(Decimal[n \div 10], Zero + (n % 10))
<1> DEFINE D(f) == f = [k \in Nat |-> IF k < 10 THEN <<Zero + k>>
                                      ELSE Append(f[k \div 10], Zero + (k % 10))]
           some(k) == CHOOSE f : DigitsTo(f, k)
           all == [k \in Nat |-> some(k)[k]]
<1>1. \A k \in Nat : DigitsTo(some(k), k)
  BY DigitsExist
<1>2. \A k \in Nat : all[k] = some(k)[k]
  OBVIOUS
<1>3. all = [k \in Nat |-> all[k]]
  OBVIOUS
<1> HIDE DEF some, all
<1>4. ASSUME NEW k \in Nat
      PROVE  all[k] = IF k < 10 THEN <<Zero + k>> ELSE Append(all[k \div 10], Zero + (k % 10))
  <2>1. PICK f : f = some(k)
    OBVIOUS
  <2>2. DigitsTo(f, k) /\ all[k] = f[k] /\ k \in 0 .. k
    BY <1>1, <1>2, <2>1
  <2>3. f[k] = IF k < 10 THEN <<Zero + k>> ELSE Append(f[k \div 10], Zero + (k % 10))
    BY <2>2, DigitsAt
  <2>4. CASE k < 10
    BY <2>2, <2>3, <2>4
  <2>5. CASE ~ k < 10
    <3>1. PICK j \in Nat : j = k \div 10 /\ j < k
      BY <2>5, FewerDigits
    <3>2. PICK g : g = some(j)
      OBVIOUS
    <3>3. DigitsTo(g, j) /\ all[j] = g[j]
      BY <1>1, <1>2, <3>2
    <3>4. f[j] = g[j]
      BY <2>2, <3>1, <3>3, DigitsAgree
    <3> QED
      BY <2>2, <2>3, <2>5, <3>1, <3>3, <3>4
  <2> QED
    BY <2>4, <2>5
<1>5. D(all)
  BY <1>3, <1>4
<1>6. Decimal = CHOOSE f : D(f)
  BY DEF Decimal
<1>7. D(Decimal)
  <2> HIDE DEF D
  <2> QED
    BY <1>5, <1>6
<1> QED
  BY <1>7

\* A digit more makes a longer text.
LEMMA DecimalType ==
  ASSUME NEW n \in Nat
  PROVE  /\ Decimal[n] \in Seq(Nat)
         /\ n < 10 => Len(Decimal[n]) = 1
         /\ ~ n < 10 => Len(Decimal[n]) >= 2
<1> DEFINE Ok(t, k) == /\ t \in Seq(Nat) /\ Len(t) >= 1
                       /\ k < 10 => Len(t) = 1
                       /\ ~ k < 10 => Len(t) >= 2
           bad == {k \in Nat : ~ Ok(Decimal[k], k)}
<1>1. CASE n \notin bad
  BY <1>1
<1>2. CASE n \in bad
  <2>1. PICK k \in bad : \A y \in bad : k <= y
    <3>1. bad \subseteq Nat /\ bad # {}
      BY <1>2
    <3> HIDE DEF bad
    <3> QED
      BY <3>1, LeastNumber
  <2>2. k \in Nat /\ ~ Ok(Decimal[k], k)
    BY <2>1
  <2>3. CASE k < 10
    <3>1. PICK d \in Nat : d = Zero + k
      BY <2>2 DEF Zero
    <3>2. Decimal[k] = <<d>>
      BY <2>2, <2>3, <3>1, DecimalDef
    <3> QED
      BY <2>2, <2>3, <3>2
  <2>4. CASE ~ k < 10
    <3>1. PICK j \in Nat : j = k \div 10 /\ j < k
      BY <2>2, <2>4, FewerDigits
    <3>2. j \notin bad
      BY <2>1, <2>2, <3>1
    <3>3. Decimal[j] \in Seq(Nat) /\ Len(Decimal[j]) >= 1
      BY <3>2
    <3>4. PICK d \in Nat : d = Zero + (k % 10)
      BY <2>2, <2>4, FewerDigits DEF Zero
    <3>5. PICK s \in Seq(Nat) : s = Decimal[j] /\ Len(s) >= 1
      BY <3>3
    <3>6. Decimal[k] = Append(s, d)
      BY <2>2, <2>4, <3>1, <3>4, <3>5, DecimalDef
    <3>7. Append(s, d) \in Seq(Nat) /\ Len(Append(s, d)) = Len(s) + 1 /\ Len(s) \in Nat
      BY AppendProperties, LenProperties
    <3> QED
      BY <2>2, <2>4, <3>5, <3>6, <3>7
  <2> QED
    BY <2>3, <2>4
<1> QED
  BY <1>1, <1>2

\* Two texts that end in a digit are the same only if both parts are.
LEMMA SameDigits ==
  ASSUME NEW s \in Seq(Nat), NEW t \in Seq(Nat), NEW d \in Nat, NEW e \in Nat,
         Append(s, d) = Append(t, e)
  PROVE  s = t /\ d = e
<1>1. PICK a : a = Append(s, d)
  OBVIOUS
<1>2. ASSUME NEW u \in Seq(Nat), NEW c \in Nat, a = Append(u, c)
      PROVE  /\ Len(u) \in Nat /\ Len(a) = Len(u) + 1 /\ a[Len(u) + 1] = c
             /\ \A i \in 1 .. Len(u) : a[i] = u[i]
  BY <1>2, AppendProperties, LenProperties
<1>3. /\ Len(s) \in Nat /\ Len(a) = Len(s) + 1 /\ a[Len(s) + 1] = d
      /\ \A i \in 1 .. Len(s) : a[i] = s[i]
  BY <1>1, <1>2
<1>4. a = Append(t, e)
  BY <1>1
<1>5. /\ Len(t) \in Nat /\ Len(a) = Len(t) + 1 /\ a[Len(t) + 1] = e
      /\ \A i \in 1 .. Len(t) : a[i] = t[i]
  BY <1>2, <1>4
<1>6. Len(s) = Len(t)
  BY <1>3, <1>5
<1>7. s = t
  BY <1>3, <1>5, <1>6, SeqEqual
<1> QED
  BY <1>3, <1>5, <1>6, <1>7

\* Different uids are written differently, for any number of users: what a
\* caller hears or types as a uid is the uid of one row at most.
THEOREM UidsDiffer ==
  \A m, n \in Nat : Decimal[m] = Decimal[n] => m = n
<1> DEFINE bad == {m \in Nat : \E n \in Nat : n # m /\ Decimal[m] = Decimal[n]}
<1>1. CASE bad = {}
  BY <1>1
<1>2. CASE bad # {}
  <2>1. PICK m \in bad : \A y \in bad : m <= y
    <3>1. bad \subseteq Nat
      OBVIOUS
    <3> HIDE DEF bad
    <3> QED
      BY <1>2, <3>1, LeastNumber
  <2>2. PICK n \in Nat : m \in Nat /\ n # m /\ Decimal[m] = Decimal[n]
    BY <2>1
  <2>3. (m < 10) <=> (n < 10)
    <3>1. PICK l : l = Len(Decimal[m]) /\ l = Len(Decimal[n])
      BY <2>2
    <3>2. (m < 10 => l = 1) /\ (~ m < 10 => l >= 2)
      BY <2>2, <3>1, DecimalType
    <3>3. (n < 10 => l = 1) /\ (~ n < 10 => l >= 2)
      BY <2>2, <3>1, DecimalType
    <3> QED
      BY <3>2, <3>3
  <2>4. CASE m < 10
    <3>1. Decimal[m] = <<Zero + m>> /\ Decimal[n] = <<Zero + n>>
      BY <2>2, <2>3, <2>4, DecimalDef
    <3>2. <<Zero + m>>[1] = <<Zero + n>>[1]
      BY <2>2, <3>1
    <3>3. Zero + m = Zero + n
      BY <3>2
    <3> QED
      BY <2>2, <3>3 DEF Zero
  <2>5. CASE ~ m < 10
    <3>1. PICK i \in Nat : i = m \div 10 /\ i < m
      BY <2>2, <2>5, FewerDigits
    <3>2. PICK j \in Nat : j = n \div 10
      BY <2>2, <2>3, <2>5, FewerDigits
    <3>3. PICK d \in Nat : d = Zero + (m % 10)
      BY <2>2, <2>5, FewerDigits DEF Zero
    <3>4. PICK e \in Nat : e = Zero + (n % 10)
      BY <2>2, <2>3, <2>5, FewerDigits DEF Zero
    <3>5. Decimal[m] = Append(Decimal[i], d) /\ Decimal[n] = Append(Decimal[j], e)
      BY <2>2, <2>3, <2>5, <3>1, <3>2, <3>3, <3>4, DecimalDef
    <3>6. PICK s \in Seq(Nat) : s = Decimal[i]
      BY DecimalType
    <3>7. PICK t \in Seq(Nat) : t = Decimal[j]
      BY DecimalType
    <3>8. s = t /\ d = e
      <4>1. Append(s, d) = Append(t, e)
        BY <2>2, <3>5, <3>6, <3>7
      <4> QED
        BY <4>1, SameDigits
    <3>9. i \notin bad
      BY <2>1, <2>2, <3>1
    <3>10. i = j
      BY <3>6, <3>7, <3>8, <3>9
    <3>11. m % 10 = n % 10
      <4>1. m % 10 \in Nat /\ n % 10 \in Nat
        BY <2>2, <2>3, <2>5, FewerDigits
      <4> QED
        BY <3>3, <3>4, <3>8, <4>1 DEF Zero
    <3>12. m = 10 * i + (m % 10) /\ n = 10 * j + (n % 10)
      BY <2>2, <2>3, <2>5, <3>1, <3>2, FewerDigits
    <3> QED
      BY <2>2, <3>10, <3>11, <3>12
  <2> QED
    BY <2>4, <2>5
<1> QED
  BY <1>1, <1>2

\* No two accounts are told the same uid at registration, whichever calls
\* registered them and when: the uid a caller hears is the key by which the
\* support menu later finds its card.
THEOREM UidsAreNotShared ==
  Spec => [](\A r, q \in replies : /\ r.kind = "uid" /\ q.kind = "uid"
                                   /\ r.text = q.text
                                   => r.about = q.about)
<1> DEFINE Shared == \A r, q \in replies : /\ r.kind = "uid" /\ q.kind = "uid"
                                           /\ r.text = q.text
                                           => r.about = q.about
<1>1. TypeOK /\ UidIsOwn => Shared
  <2>1. SUFFICES ASSUME TypeOK, UidIsOwn,
                        NEW r \in replies, NEW q \in replies,
                        r.kind = "uid", q.kind = "uid", r.text = q.text
                 PROVE  r.about = q.about
    OBVIOUS
  <2>2. PICK u \in DOMAIN db : r.text = Append(Decimal[u], Hash) /\ db[u].number = r.about
    BY <2>1 DEF UidIsOwn
  <2>3. PICK v \in DOMAIN db : q.text = Append(Decimal[v], Hash) /\ db[v].number = q.about
    BY <2>1 DEF UidIsOwn
  <2>4. u \in Nat /\ v \in Nat
    BY <2>1 DEF TypeOK
  <2>5. Decimal[u] \in Seq(Nat) /\ Decimal[v] \in Seq(Nat)
    BY <2>4, DecimalType
  <2>6. Hash \in Nat
    BY DEF Hash
  <2>7. Append(Decimal[u], Hash) = Append(Decimal[v], Hash)
    BY <2>1, <2>2, <2>3
  <2>8. PICK s \in Seq(Nat) : s = Decimal[u]
    BY <2>5
  <2>9. PICK t \in Seq(Nat) : t = Decimal[v]
    BY <2>5
  <2>10. Append(s, Hash) = Append(t, Hash)
    BY <2>7, <2>8, <2>9
  <2>11. s = t
    BY <2>6, <2>10, SameDigits
  <2>12. u = v
    BY <2>4, <2>8, <2>9, <2>11, UidsDiffer
  <2> QED
    BY <2>2, <2>3, <2>12
<1>2. QED
  BY <1>1, TypeCorrect, UidIsOwnHolds, PTL
=============================================================================
