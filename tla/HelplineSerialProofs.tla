------------------------ MODULE HelplineSerialProofs ------------------------
(* Theorems about the helpline for any number of workers and calls, whose   *)
(* messages any of them may handle at the same time: unless a race over its *)
(* session was recorded, no session is left of a call that is over, and the *)
(* call walks through the menu of HelplineSessions.                         *)
EXTENDS HelplineSerial, HelplineProofs

(* What a worker's step leaves alone *)

\* The other workers.
Others(w) == \A v \in Workers \ {w} : pc'[v] = pc[v] /\ job'[v] = job[v] /\ cur'[v] = cur[v]

\* Only the worker that takes a step goes on.
LEMMA WorkOthers ==
  ASSUME TInv, NEW w \in Workers, Work(w)
  PROVE  Others(w)
<1> USE DEF TInv, TypeOK, WorkersOK
<1>1. CASE DtmfSwitch(w)
  <2>1. Leaves(w)
    BY <1>1, SwitchLeaves
  <2>2. QED
    BY <2>1 DEF Leaves, Return, Continue, Others
<1>2. CASE ~ DtmfSwitch(w)
  BY <1>2 DEF Work, Handler, Dequeue, DtmfCopy, DtmfAttach, DtmfStore, HandleHangup, NotifyCopy,
     NotifyDrop, HandleAttach, Return, Others
<1>3. QED
  BY <1>1, <1>2

\* The calls and their threads leave the workers alone.
LEMMA CallWorkers ==
  ASSUME NEW d \in Calls,
         Line(d) \/ RouterStep(d) \/ PromptEnds(d) \/ ChannelDestroyed(d)
  PROVE  UNCHANGED <<pc, job, cur, db>>
BY DEF Line, RouterStep, IncomingCall, HangUp, Press, Route, Execute, HookTarget,
   HookAnswer, HookWelcome, PromptEnds, ChannelDestroyed, worker, store

\* A step of a worker races on the call of its message only, and only if it
\* enters a locked section.
LEMMA RaceOne ==
  ASSUME TInv, NEW w \in Workers, Work(w)
  PROVE  /\ Races \subseteq {c \in Calls : c = job[w].call /\ Enters(w, c)}
         /\ \A c \in Calls \ Races : Enters(w, c) => \A v \in Workers : ~ HasCopy(v, c)
<1>1. \A v \in Workers : \A c \in Calls : Enters(v, c) => v = w
  BY WorkOthers DEF Others, Enters
<1>2. QED
  BY <1>1 DEF Races, Enters

\* A step of a call races on none.
LEMMA NoRace ==
  ASSUME UNCHANGED pc
  PROVE  Races = {}
BY DEF Races, Enters

-----------------------------------------------------------------------------
(* Keys and hang-ups *)

IsKey(m, c) == m.type = "chan.dtmf" /\ m.call = c
IsHangup(m, c) == m.type = "chan.hangup" /\ m.call = c
OfKey == {"chan.dtmf", "switch", "attach", "store"}

\* The hang-up of the call is not handled yet; a key of it is not.
HungUp(c) == \/ \E m \in Waiting : IsHangup(m, c)
             \/ \E w \in Workers : pc[w] = "chan.hangup" /\ job[w].call = c
KeyLeft(c) == \/ \E m \in Waiting : IsKey(m, c)
              \/ \E w \in Workers : pc[w] \in OfKey /\ job[w].call = c

\* The message that is taken was the first one of those that wait.
LEMMA AllTaken ==
  ASSUME queue \in Seq(Message), queue # <<>>, queue' = Tail(queue)
  PROVE  Waiting = Waiting' \cup {Head(queue)}
<1>1. Head(queue) = queue[1] /\ 1 \in DOMAIN queue
  OBVIOUS
<1>2. \A i \in DOMAIN queue : i = 1 \/ (i - 1 \in DOMAIN queue' /\ queue'[i - 1] = queue[i])
  <2>1. /\ DOMAIN queue = 1 .. Len(queue) /\ Len(queue) \in Nat
        /\ DOMAIN queue' = 1 .. (Len(queue) - 1)
    OBVIOUS
  <2>2. \A i \in 1 .. (Len(queue) - 1) : queue'[i] = queue[i + 1]
    BY <2>1
  <2>3. QED
    BY <2>1, <2>2
<1>3. ASSUME NEW i \in DOMAIN queue
      PROVE  queue[i] \in Waiting' \cup {Head(queue)}
  <2>1. CASE i = 1
    BY <1>1, <2>1
  <2>2. CASE i - 1 \in DOMAIN queue' /\ queue'[i - 1] = queue[i]
    BY <2>2 DEF Waiting
  <2>3. QED
    BY <1>2, <2>1, <2>2
<1>4. Head(queue) \in Waiting /\ Waiting' \subseteq Waiting
  BY WaitingTaken
<1>5. QED
  BY <1>3, <1>4 DEF Waiting

\* Reports of prompts leave those that wait.
LEMMA AllWait ==
  ASSUME queue \in Seq(Message), NEW c \in Calls, NEW r \in Seq({Notify(c)}),
         queue' = queue \o r
  PROVE  Waiting \subseteq Waiting'
<1>1. r \in Seq(Message)
  BY MessageType
<1>2. /\ DOMAIN queue' = 1 .. Len(queue) + Len(r) /\ Len(r) \in Nat
      /\ \A i \in DOMAIN queue' : queue'[i] = IF i <= Len(queue) THEN queue[i] ELSE r[i - Len(queue)]
  BY <1>1, ConcatProperties
<1>3. \A i \in DOMAIN queue : i \in DOMAIN queue' /\ queue'[i] = queue[i]
  BY <1>2
<1>4. QED
  BY <1>3 DEF Waiting

-----------------------------------------------------------------------------
(* The invariant *)

\* A session is created when the call is routed.  Once the hang-up has been
\* handled there is none, unless a worker had a copy of it then; a call that is
\* cancelled before it is routed never has a key.
CallsEnd ==
  /\ \A c \in Calls : chan[c] # "none" => router[c] # "idle"
  /\ \A c \in Calls : chan[c] = "gone" => router[c] # "route"
  /\ \A c \in Calls : router[c] \in {"idle", "route"} => clients[c] = NoSession
  /\ \A c \in Calls : HungUp(c) => chan[c] \in {"cancelled", "gone"}
  /\ \A c \in Calls : chan[c] = "gone" /\ ~ HungUp(c) /\ c \notin raced => clients[c] = NoSession
  /\ \A c \in Calls : chan[c] = "cancelled"
                      => ~ KeyLeft(c) /\ clients[c] \in MayStay(c) \cup {NoSession}

\* What a key finds when it is copied is still there when the copy is changed
\* and when it is stored, and nobody else has a copy.
Handling ==
  /\ \A w \in Workers : \A c \in Calls : pc[w] \in OfKey /\ job[w].call = c => Keyed(c)
  /\ \A w \in Workers : \A c \in Calls \ raced :
       HasCopy(w, c) => /\ clients[c] # NoSession
                        /\ pc[w] = "switch" => clients[c] = cur[w]
                        /\ \A v \in Workers : HasCopy(v, c) => v = w

EndInv == AInv /\ DumbInv /\ CallsEnd /\ Handling

\* A step of a worker that takes no message, and posts neither keys nor
\* hang-ups.
LEMMA Quiet ==
  ASSUME NEW w \in Workers, Others(w), Waiting \subseteq Waiting',
         \A m \in Waiting' \ Waiting : \A c \in Calls : ~ IsKey(m, c) /\ ~ IsHangup(m, c),
         pc[w] # "chan.hangup", pc'[w] # "chan.hangup",
         pc'[w] \in OfKey => pc[w] \in OfKey /\ job'[w] = job[w]
  PROVE  \A c \in Calls : (HungUp(c)' <=> HungUp(c)) /\ (KeyLeft(c)' => KeyLeft(c))
<1>1. ASSUME NEW c \in Calls
      PROVE  HungUp(c)' <=> HungUp(c)
  <2>1. \A v \in Workers : pc'[v] = "chan.hangup" <=> pc[v] = "chan.hangup"
    BY DEF Others
  <2>2. \A v \in Workers : pc[v] = "chan.hangup" => job'[v] = job[v]
    BY DEF Others
  <2>3. QED
    BY <2>1, <2>2 DEF HungUp
<1>2. ASSUME NEW c \in Calls, KeyLeft(c)'
      PROVE  KeyLeft(c)
  <2>1. CASE \E m \in Waiting' : IsKey(m, c)
    BY <2>1 DEF KeyLeft
  <2>2. CASE \E v \in Workers : pc'[v] \in OfKey /\ job'[v].call = c
    <3>1. PICK v \in Workers : pc'[v] \in OfKey /\ job'[v].call = c
      BY <2>2
    <3>2. pc[v] \in OfKey /\ job[v].call = c
      BY <3>1 DEF Others
    <3>3. QED
      BY <3>2 DEF KeyLeft
  <2>3. QED
    BY <1>2, <2>1, <2>2 DEF KeyLeft
<1>3. QED
  BY <1>1, <1>2

\* The steps of a worker that leave calls and sessions alone, except that calls
\* that are up may be ended, keep what is known of the ends of calls.
LEMMA QuietEnds ==
  ASSUME CallsEnd, UNCHANGED <<clients, router>>, raced \subseteq raced',
         \A c \in Calls : chan'[c] = chan[c] \/ (chan[c] = "up" /\ chan'[c] = "ending"),
         \A c \in Calls : (HungUp(c)' <=> HungUp(c)) /\ (KeyLeft(c)' => KeyLeft(c))
  PROVE  CallsEnd'
<1>1. \A c \in Calls : chan'[c] # "none" => router'[c] # "idle"
  BY DEF CallsEnd
<1>2. \A c \in Calls : /\ chan'[c] = "gone" => chan[c] = "gone"
                       /\ chan'[c] = "cancelled" => chan[c] = "cancelled"
  OBVIOUS
<1>3. \A c \in Calls : HungUp(c)' => chan'[c] \in {"cancelled", "gone"}
  BY DEF CallsEnd
<1>4. \A c \in Calls : chan'[c] = "gone" /\ ~ HungUp(c)' /\ c \notin raced' => clients'[c] = NoSession
  BY <1>2 DEF CallsEnd
<1>5. \A c \in Calls : router'[c] \in {"idle", "route"} => clients'[c] = NoSession
  BY DEF CallsEnd
<1>6. \A c \in Calls : chan'[c] = "cancelled"
                       => ~ KeyLeft(c)' /\ clients'[c] \in MayStay(c)' \cup {NoSession}
  BY <1>2 DEF CallsEnd, MayStay
<1>7. \A c \in Calls : chan'[c] = "gone" => router'[c] # "route"
  BY <1>2 DEF CallsEnd
<1>8. QED
  BY <1>1, <1>3, <1>4, <1>5, <1>6, <1>7 DEF CallsEnd

\* What is known of the copies stays, given what it is for the worker that
\* takes the step.
LEMMA HandlingStays ==
  ASSUME Handling, NEW w \in Workers, Others(w), raced \subseteq raced',
         \A v \in Workers : pc[v] \in OfKey => job[v].call \in Calls,
         \A c \in Calls : Keyed(c) => Keyed(c)',
         \A c \in Calls : pc'[w] \in OfKey /\ job'[w].call = c => Keyed(c),
         \A c \in Calls \ raced' : HasCopy(w, c)' =>
            /\ clients'[c] # NoSession
            /\ pc'[w] = "switch" => clients'[c] = cur'[w]
            /\ \A v \in Workers : HasCopy(v, c) => v = w,
         \A c \in Calls \ raced' : \A v \in Workers \ {w} :
            HasCopy(v, c) => clients'[c] = clients[c]
  PROVE  Handling'
<1>1. ASSUME NEW v \in Workers, NEW c \in Calls, pc'[v] \in OfKey, job'[v].call = c
      PROVE  Keyed(c)'
  <2>1. CASE v = w
    BY <1>1, <2>1
  <2>2. CASE v # w
    <3>1. pc[v] \in OfKey /\ job[v].call = c
      BY <1>1, <2>2 DEF Others
    <3>2. QED
      BY <3>1 DEF Handling
  <2>3. QED
    BY <2>1, <2>2
<1>2. \A v \in Workers \ {w} : \A c \in Calls : HasCopy(v, c)' <=> HasCopy(v, c)
  BY DEF Others, HasCopy
<1>3. ASSUME NEW v \in Workers, NEW c \in Calls \ raced', HasCopy(v, c)'
      PROVE  /\ clients'[c] # NoSession
             /\ pc'[v] = "switch" => clients'[c] = cur'[v]
             /\ \A u \in Workers : HasCopy(u, c)' => u = v
  <2>1. CASE v = w
    BY <1>2, <1>3, <2>1
  <2>2. CASE v # w
    <3>1. HasCopy(v, c) /\ c \notin raced /\ clients'[c] = clients[c]
      BY <1>2, <1>3, <2>2
    <3>2. ~ HasCopy(w, c)'
      BY <3>1, <1>3, <2>2
    <3>3. /\ clients[c] # NoSession
          /\ pc[v] = "switch" => clients[c] = cur[v]
          /\ \A u \in Workers : HasCopy(u, c) => u = v
      BY <3>1 DEF Handling
    <3>4. pc'[v] = pc[v] /\ cur'[v] = cur[v]
      BY <2>2 DEF Others
    <3>5. QED
      BY <1>2, <3>1, <3>2, <3>3, <3>4
  <2>3. QED
    BY <2>1, <2>2
<1>4. QED
  BY <1>1, <1>3 DEF Handling

\* A worker's step keeps what is known of the ends of calls and of the copies.
LEMMA WorkEnds ==
  ASSUME EndInv, NEW w \in Workers, Work(w), raced' = raced \cup Races
  PROVE  CallsEnd' /\ Handling'
<1> USE DEF EndInv, DumbInv, TInv, TypeOK, WorkersOK
<1>0. \A c \in Calls : Keyed(c) => Keyed(c)'
  BY WorkLines
<1>1. Others(w)
  BY WorkOthers
<1>2. \A v \in Workers : pc[v] # "idle" => job[v] \in Message /\ job[v].call \in Calls
  BY MessageCall DEF HandledOK, Handled
<1>3. raced \subseteq raced' /\ \A v \in Workers : pc[v] \in OfKey => job[v].call \in Calls
  BY <1>2 DEF OfKey
<1>4. \A c \in Calls \ raced' : c \notin raced /\ (Enters(w, c) => \A v \in Workers : ~ HasCopy(v, c))
  BY RaceOne
<1>5. ASSUME Waiting \subseteq Waiting',
             \A m \in Waiting' \ Waiting : \A c \in Calls : ~ IsKey(m, c) /\ ~ IsHangup(m, c),
             pc[w] # "chan.hangup", pc'[w] # "chan.hangup",
             pc'[w] \in OfKey => pc[w] \in OfKey /\ job'[w] = job[w],
             UNCHANGED <<clients, router>>,
             \A c \in Calls : chan'[c] = chan[c] \/ (chan[c] = "up" /\ chan'[c] = "ending"),
             pc'[w] = "switch" => pc[w] = "chan.dtmf" /\ cur'[w] = clients[job[w].call]
                                  /\ clients[job[w].call] # NoSession,
             pc'[w] \in {"attach", "store"} => pc[w] \in {"switch", "attach", "store"}
      PROVE  CallsEnd' /\ Handling'
  <2>1. CallsEnd'
    BY <1>1, <1>3, <1>5, Quiet, QuietEnds
  <2>2. \A c \in Calls : pc'[w] \in OfKey /\ job'[w].call = c => Keyed(c)
    BY <1>5 DEF Handling
  <2>3. ASSUME NEW c \in Calls \ raced', HasCopy(w, c)'
        PROVE  /\ clients'[c] # NoSession
               /\ pc'[w] = "switch" => clients'[c] = cur'[w]
               /\ \A v \in Workers : HasCopy(v, c) => v = w
    <3>1. job[w].call = c
      BY <1>5, <2>3 DEF HasCopy, OfKey
    <3>2. CASE pc'[w] = "switch"
      <4>1. Enters(w, c)
        BY <1>5, <3>1, <3>2 DEF Enters
      <4>2. \A v \in Workers : ~ HasCopy(v, c)
        BY <1>4, <4>1
      <4>3. QED
        BY <1>5, <3>1, <3>2, <4>2
    <3>3. CASE pc'[w] \in {"attach", "store"}
      <4>1. HasCopy(w, c) /\ c \notin raced
        BY <1>4, <1>5, <3>1, <3>3 DEF HasCopy
      <4>2. QED
        BY <1>5, <3>3, <4>1 DEF Handling
    <3>4. QED
      BY <2>3, <3>2, <3>3 DEF HasCopy
  <2>4. Handling'
    BY <1>0, <1>1, <1>3, <1>5, <2>2, <2>3, HandlingStays
  <2>5. QED
    BY <2>1, <2>4
<1>6. CASE Dequeue(w)
  <2>1. PICK m \in Message : m = Head(queue)
    BY <1>6 DEF Dequeue
  <2>2. /\ queue # <<>> /\ queue' = Tail(queue) /\ pc[w] = "idle"
        /\ pc'[w] = m.type /\ job'[w] = m
        /\ UNCHANGED <<clients, router, chan>>
    BY <1>6, <2>1 DEF Dequeue, line
  <2>3. Waiting = Waiting' \cup {m}
    BY <2>1, <2>2, AllTaken
  <2>4. m.type \in {"chan.dtmf", "chan.attach", "chan.notify", "chan.hangup"} /\ m.call \in Calls
    BY DEF Message
  <2>5. ASSUME NEW c \in Calls
        PROVE  (HungUp(c)' <=> HungUp(c)) /\ (KeyLeft(c)' => KeyLeft(c))
    <3>1. \A v \in Workers \ {w} : pc'[v] = pc[v] /\ job'[v] = job[v]
      BY <1>1 DEF Others
    <3>2. HungUp(c)' <=> HungUp(c)
      BY <2>2, <2>3, <3>1 DEF HungUp, IsHangup
    <3>3. KeyLeft(c)' => KeyLeft(c)
      BY <2>2, <2>3, <2>4, <3>1 DEF KeyLeft, IsKey, OfKey
    <3>4. QED
      BY <3>2, <3>3
  <2>6. CallsEnd'
    BY <1>3, <2>2, <2>5, QuietEnds
  <2>7. \A c \in Calls : pc'[w] \in OfKey /\ job'[w].call = c => Keyed(c)
    BY <2>2, <2>3, <2>4 DEF KeysKnow, OfKey
  <2>8. pc'[w] \notin {"switch", "attach", "store"}
    BY <2>2, <2>4
  <2>9. Handling'
    BY <1>0, <1>1, <1>3, <2>2, <2>7, <2>8, HandlingStays DEF HasCopy
  <2>10. QED
    BY <2>6, <2>9
<1>7. CASE DtmfCopy(w) \/ DtmfSwitch(w) \/ NotifyCopy(w) \/ NotifyDrop(w)
  <2>1. UNCHANGED <<clients, router, queue>>
    BY <1>7 DEF DtmfCopy, DtmfSwitch, NotifyCopy, NotifyDrop, line
  <2>2. \A c \in Calls : chan'[c] = chan[c] \/ (chan[c] = "up" /\ chan'[c] = "ending")
    BY <1>7 DEF DtmfCopy, DtmfSwitch, NotifyCopy, NotifyDrop, line, LinesOK
  <2>3. Waiting' = Waiting
    BY <2>1 DEF Waiting
  <2>4. /\ pc[w] \in {"chan.dtmf", "switch", "chan.notify", "drop"}
        /\ pc'[w] \in {"idle", "switch", "drop", "attach", "store"}
        /\ pc'[w] \in OfKey => pc[w] \in OfKey /\ job'[w] = job[w]
        /\ pc'[w] = "switch" => pc[w] = "chan.dtmf" /\ cur'[w] = clients[job[w].call]
                                /\ clients[job[w].call] # NoSession
        /\ pc'[w] \in {"attach", "store"} => pc[w] \in {"switch", "attach", "store"}
    <3>1. CASE DtmfCopy(w)
      BY <3>1 DEF DtmfCopy, Return, OfKey
    <3>2. CASE DtmfSwitch(w)
      <4>1. pc[w] = "switch"
        BY <3>2 DEF DtmfSwitch, OnInit, OnHodl, OnBuy, OnPhone, OnKnown, OnUpdate,
           OnCredit, OnCallback, OnBye, OnSupport, OnSupId, In
      <4>2. Leaves(w)
        BY <3>2, SwitchLeaves
      <4>3. QED
        BY <4>1, <4>2 DEF Leaves, Return, Continue, OfKey
    <3>3. CASE NotifyCopy(w)
      BY <3>3 DEF NotifyCopy, Return, OfKey
    <3>4. CASE NotifyDrop(w)
      BY <3>4 DEF NotifyDrop, Return, OfKey
    <3>5. QED
      BY <1>7, <3>1, <3>2, <3>3, <3>4
  <2>5. QED
    BY <1>5, <2>1, <2>2, <2>3, <2>4
<1>8. CASE DtmfAttach(w)
  <2>1. PICK p \in Prompt : Post(Attach(job[w].call, p))
    BY <1>8 DEF DtmfAttach, Prompt
  <2>2. /\ pc[w] = "attach" /\ pc'[w] = "store" /\ job'[w] = job[w]
        /\ UNCHANGED <<clients, router, chan>>
    BY <1>8 DEF DtmfAttach, line
  <2>3. PICK m : m = Attach(job[w].call, p)
    OBVIOUS
  <2>4. m \in Message /\ \A c \in Calls : ~ IsKey(m, c) /\ ~ IsHangup(m, c)
    BY <1>2, <2>2, <2>3, MessageType DEF Attach, IsKey, IsHangup
  <2>5. Waiting' = Waiting \cup {m}
    BY <2>1, <2>3, <2>4, WaitingPosted
  <2>6. QED
    BY <1>5, <2>2, <2>4, <2>5 DEF OfKey
<1>9. CASE HandleAttach(w)
  <2>1. PICK c \in Calls : c = job[w].call
    BY <1>2, <1>9 DEF HandleAttach
  <2>2. PICK r \in Seq({Notify(c)}) : queue' = queue \o r
    BY <1>9, <2>1, AttachReports
  <2>3. Waiting \subseteq Waiting'
    BY <2>2, AllWait
  <2>4. Waiting' \subseteq Waiting \cup {Notify(c)}
    BY <2>2, WaitingReported
  <2>5. \A d \in Calls : ~ IsKey(Notify(c), d) /\ ~ IsHangup(Notify(c), d)
    BY DEF Notify, IsKey, IsHangup
  <2>6. /\ pc[w] = "chan.attach" /\ pc'[w] = "idle"
        /\ UNCHANGED <<clients, router, chan>>
    BY <1>9 DEF HandleAttach, Return
  <2>7. QED
    BY <1>5, <2>3, <2>4, <2>5, <2>6 DEF OfKey
<1>10. CASE DtmfStore(w) \/ HandleHangup(w)
  <2>1. PICK c \in Calls : c = job[w].call
    BY <1>2, <1>10 DEF DtmfStore, HandleHangup
  <2>2. /\ pc'[w] = "idle" /\ pc[w] \in {"store", "chan.hangup"}
        /\ UNCHANGED <<router, chan, queue>>
        /\ \A d \in Calls \ {c} : clients'[d] = clients[d]
    BY <1>10, <2>1 DEF DtmfStore, HandleHangup, Return, line
  <2>3. Waiting' = Waiting /\ \A v \in Workers \ {w} : pc'[v] = pc[v] /\ job'[v] = job[v]
    BY <1>1, <2>2 DEF Waiting, Others
  <2>4. \A d \in Calls : KeyLeft(d)' => KeyLeft(d)
    BY <2>2, <2>3 DEF KeyLeft, OfKey
  <2>5. /\ \A d \in Calls : HungUp(d)' => HungUp(d)
        /\ \A d \in Calls \ {c} : HungUp(d) => HungUp(d)'
    BY <2>1, <2>2, <2>3 DEF HungUp
  <2>6. \A d \in Calls \ raced' : \A v \in Workers \ {w} :
          HasCopy(v, d) => clients'[d] = clients[d]
    <3>1. SUFFICES ASSUME c \notin raced', NEW v \in Workers \ {w}, HasCopy(v, c)
                   PROVE  FALSE
      BY <2>2
    <3>2. CASE pc[w] = "store"
      BY <1>4, <2>1, <3>1, <3>2 DEF Handling, HasCopy
    <3>3. CASE pc[w] = "chan.hangup"
      BY <1>4, <2>1, <2>2, <3>1, <3>3 DEF Enters
    <3>4. QED
      BY <2>2, <3>2, <3>3
  <2>7. Handling'
    BY <1>0, <1>1, <1>3, <2>2, <2>6, HandlingStays DEF HasCopy, OfKey
  <2>8. CASE DtmfStore(w)
    <3>1. /\ KeyLeft(c) /\ Keyed(c) /\ HasCopy(w, c)
      BY <2>1, <2>8 DEF KeyLeft, OfKey, Handling, DtmfStore, HasCopy
    <3>2. HungUp(c) => HungUp(c)'
      BY <2>2, <2>3, <2>8 DEF HungUp, DtmfStore
    <3>3. chan[c] = "gone" => HungUp(c)' \/ c \in raced'
      BY <1>4, <3>1, <3>2 DEF CallsEnd, Handling
    <3>4. router[c] \notin {"idle", "route"} /\ chan[c] # "cancelled"
      BY <3>1 DEF Keyed, CallsEnd
    <3>5. CallsEnd'
      <4>1. \A d \in Calls : chan'[d] = "gone" /\ ~ HungUp(d)' /\ d \notin raced'
                             => clients'[d] = NoSession
        BY <1>3, <2>2, <2>5, <3>3 DEF CallsEnd
      <4>2. \A d \in Calls : chan'[d] = "cancelled"
                      => ~ KeyLeft(d)' /\ clients'[d] \in MayStay(d)' \cup {NoSession}
        BY <2>2, <2>4, <3>4 DEF CallsEnd, MayStay
      <4>3. \A d \in Calls : HungUp(d)' => chan'[d] \in {"cancelled", "gone"}
        BY <2>2, <2>5 DEF CallsEnd
      <4>4. \A d \in Calls : router'[d] \in {"idle", "route"} => clients'[d] = NoSession
        BY <2>2, <3>4 DEF CallsEnd
      <4>5. /\ \A d \in Calls : chan'[d] # "none" => router'[d] # "idle"
            /\ \A d \in Calls : chan'[d] = "gone" => router'[d] # "route"
        BY <2>2 DEF CallsEnd
      <4>6. QED
        BY <4>1, <4>2, <4>3, <4>4, <4>5 DEF CallsEnd
    <3>6. QED
      BY <2>7, <3>5
  <2>9. CASE HandleHangup(w)
    <3>1. clients'[c] = NoSession
      BY <2>1, <2>9 DEF HandleHangup
    <3>2. CallsEnd'
      <4>1. \A d \in Calls : chan'[d] = "gone" /\ ~ HungUp(d)' /\ d \notin raced'
                             => clients'[d] = NoSession
        BY <1>3, <2>2, <2>5, <3>1 DEF CallsEnd
      <4>2. \A d \in Calls : chan'[d] = "cancelled"
                      => ~ KeyLeft(d)' /\ clients'[d] \in MayStay(d)' \cup {NoSession}
        BY <2>2, <2>4, <3>1 DEF CallsEnd, MayStay
      <4>3. \A d \in Calls : HungUp(d)' => chan'[d] \in {"cancelled", "gone"}
        BY <2>2, <2>5 DEF CallsEnd
      <4>4. \A d \in Calls : router'[d] \in {"idle", "route"} => clients'[d] = NoSession
        BY <2>2, <3>1 DEF CallsEnd
      <4>5. /\ \A d \in Calls : chan'[d] # "none" => router'[d] # "idle"
            /\ \A d \in Calls : chan'[d] = "gone" => router'[d] # "route"
        BY <2>2 DEF CallsEnd
      <4>6. QED
        BY <4>1, <4>2, <4>3, <4>4, <4>5 DEF CallsEnd
    <3>3. QED
      BY <2>7, <3>2
  <2>10. QED
    BY <1>10, <2>8, <2>9
<1>11. QED
  BY <1>6, <1>7, <1>8, <1>9, <1>10 DEF Work, Handler

\* So do the steps of calls, of their router threads and of their prompts.
LEMMA CallEnds ==
  ASSUME EndInv, NEW d \in Calls, raced' = raced,
         Line(d) \/ RouterStep(d) \/ PromptEnds(d) \/ ChannelDestroyed(d)
  PROVE  CallsEnd' /\ Handling'
<1> USE DEF EndInv, DumbInv, TInv, TypeOK, LinesOK
<1>0. \A c \in Calls : Keyed(c) => Keyed(c)'
  BY CallLines
<1>1. UNCHANGED <<pc, job, cur>>
  BY CallWorkers
<1>2. ASSUME \A c \in Calls : clients'[c] = clients[c] \/ ~ Keyed(c)
      PROVE  Handling'
  <2>1. \A w \in Workers : \A c \in Calls : pc[w] \in OfKey /\ job[w].call = c => Keyed(c)
    BY DEF Handling
  <2>2. \A w \in Workers : \A c \in Calls : HasCopy(w, c) => clients'[c] = clients[c]
    BY <1>2, <2>1 DEF HasCopy, OfKey
  <2>3. \A w \in Workers : \A c \in Calls : HasCopy(w, c)' <=> HasCopy(w, c)
    BY <1>1 DEF HasCopy
  <2>4. \A w \in Workers : \A c \in Calls : pc'[w] \in OfKey /\ job'[w].call = c => Keyed(c)'
    BY <1>0, <1>1, <2>1
  <2>5. \A w \in Workers : \A c \in Calls \ raced' :
          HasCopy(w, c)' => /\ clients'[c] # NoSession
                            /\ pc'[w] = "switch" => clients'[c] = cur'[w]
                            /\ \A v \in Workers : HasCopy(v, c)' => v = w
    BY <1>1, <2>2, <2>3 DEF Handling
  <2>6. QED
    BY <2>4, <2>5 DEF Handling
\* Nothing is posted, or a message that is neither key nor hang-up.
<1>3. ASSUME Waiting \subseteq Waiting',
             \A m \in Waiting' \ Waiting : \A c \in Calls : ~ IsKey(m, c) /\ ~ IsHangup(m, c)
      PROVE  \A c \in Calls : (HungUp(c)' <=> HungUp(c)) /\ (KeyLeft(c)' <=> KeyLeft(c))
  BY <1>1, <1>3 DEF HungUp, KeyLeft
\* A step of the router thread or of the caller that posts neither.
<1>4. ASSUME \A c \in Calls : (HungUp(c)' <=> HungUp(c)) /\ (KeyLeft(c)' <=> KeyLeft(c)),
             \A c \in Calls \ {d} : UNCHANGED <<clients[c], router[c], chan[c]>>,
             chan'[d] = chan[d] \/ (chan[d] = "up" /\ chan'[d] = "ending"),
             router'[d] = router[d] \/ router'[d] \in {"hook", "done", "answer", "welcome"},
             router[d] \in {"idle", "route"} => router'[d] = router[d],
             clients'[d] \in {clients[d]} \cup MayStay(d) \/ chan[d] # "cancelled",
             clients[d] = NoSession => clients'[d] = NoSession
      PROVE  CallsEnd'
  <2>1. /\ \A c \in Calls : chan'[c] # "none" => router'[c] # "idle"
        /\ \A c \in Calls : chan'[c] = "gone" => router'[c] # "route"
        /\ \A c \in Calls : router'[c] \in {"idle", "route"} => clients'[c] = NoSession
    <3>1. \A c \in Calls \ {d} : /\ chan'[c] # "none" => router'[c] # "idle"
                                 /\ chan'[c] = "gone" => router'[c] # "route"
                                 /\ router'[c] \in {"idle", "route"} => clients'[c] = NoSession
      BY <1>4 DEF CallsEnd
    <3>2. /\ chan'[d] # "none" => router'[d] # "idle"
          /\ chan'[d] = "gone" => router'[d] # "route"
          /\ router'[d] \in {"idle", "route"} => clients'[d] = NoSession
      BY <1>4 DEF CallsEnd
    <3>3. QED
      BY <3>1, <3>2
  <2>2. \A c \in Calls : HungUp(c)' => chan'[c] \in {"cancelled", "gone"}
    BY <1>4 DEF CallsEnd
  <2>3. \A c \in Calls : chan'[c] = "gone" /\ ~ HungUp(c)' /\ c \notin raced' => clients'[c] = NoSession
    BY <1>4 DEF CallsEnd
  <2>4. \A c \in Calls : chan'[c] = "cancelled"
                         => ~ KeyLeft(c)' /\ clients'[c] \in MayStay(c)' \cup {NoSession}
    BY <1>4 DEF CallsEnd, MayStay
  <2>5. QED
    BY <2>1, <2>2, <2>3, <2>4 DEF CallsEnd
<1>5. CASE UNCHANGED queue
  <2>1. \A c \in Calls : (HungUp(c)' <=> HungUp(c)) /\ (KeyLeft(c)' <=> KeyLeft(c))
    BY <1>3, <1>5 DEF Waiting
  <2>2. \A c \in Calls \ {d} : UNCHANGED <<clients[c], router[c], chan[c]>>
    BY <1>5 DEF Line, RouterStep, IncomingCall, HangUp, Press, Route, Execute, HookTarget,
       HookAnswer, HookWelcome, PromptEnds, ChannelDestroyed, RouterGoto
  <2>3. CASE IncomingCall(d)
    <3>1. /\ chan[d] = "none" /\ chan'[d] = "up" /\ router'[d] = "route"
          /\ clients'[d] = clients[d]
      BY <2>3 DEF IncomingCall
    <3>2. clients[d] = NoSession /\ ~ HungUp(d)
      BY <3>1 DEF LinesKnow, CallsEnd
    <3>3. CallsEnd'
      <4>1. \A c \in Calls : HungUp(c)' => chan'[c] \in {"cancelled", "gone"}
        BY <2>1, <2>2, <3>2 DEF CallsEnd
      <4>2. \A c \in Calls : chan'[c] = "gone" /\ ~ HungUp(c)' /\ c \notin raced'
                             => clients'[c] = NoSession
        BY <2>1, <2>2, <3>1 DEF CallsEnd
      <4>3. \A c \in Calls : chan'[c] = "cancelled"
                         => ~ KeyLeft(c)' /\ clients'[c] \in MayStay(c)' \cup {NoSession}
        BY <2>1, <2>2, <3>1 DEF CallsEnd, MayStay
      <4>4. /\ \A c \in Calls : chan'[c] # "none" => router'[c] # "idle"
            /\ \A c \in Calls : chan'[c] = "gone" => router'[c] # "route"
            /\ \A c \in Calls : router'[c] \in {"idle", "route"} => clients'[c] = NoSession
        BY <2>2, <3>1, <3>2 DEF CallsEnd
      <4>5. QED
        BY <4>1, <4>2, <4>3, <4>4 DEF CallsEnd
    <3>4. Handling'
      BY <1>2, <2>2, <3>1
    <3>5. QED
      BY <3>3, <3>4
  <2>4. CASE Route(d)
    <3>1. /\ router[d] = "route" /\ router'[d] = "execute" /\ chan'[d] = chan[d]
          /\ clients'[d] = FreshSession
      BY <2>4 DEF Route, RouterGoto
    <3>2. chan[d] # "gone" /\ ~ Keyed(d)
      BY <3>1 DEF CallsEnd, Keyed
    <3>3. CallsEnd'
      <4>1. \A c \in Calls : HungUp(c)' => chan'[c] \in {"cancelled", "gone"}
        BY <2>1, <2>2, <3>1 DEF CallsEnd
      <4>2. \A c \in Calls : chan'[c] = "gone" /\ ~ HungUp(c)' /\ c \notin raced'
                             => clients'[c] = NoSession
        BY <2>1, <2>2, <3>1, <3>2 DEF CallsEnd
      <4>3. \A c \in Calls : chan'[c] = "cancelled"
                         => ~ KeyLeft(c)' /\ clients'[c] \in MayStay(c)' \cup {NoSession}
        BY <2>1, <2>2, <3>1 DEF CallsEnd, MayStay
      <4>4. /\ \A c \in Calls : chan'[c] # "none" => router'[c] # "idle"
            /\ \A c \in Calls : chan'[c] = "gone" => router'[c] # "route"
            /\ \A c \in Calls : router'[c] \in {"idle", "route"} => clients'[c] = NoSession
        BY <2>2, <3>1, <3>2 DEF CallsEnd
      <4>5. QED
        BY <4>1, <4>2, <4>3, <4>4 DEF CallsEnd
    <3>4. Handling'
      BY <1>2, <2>2, <3>2
    <3>5. QED
      BY <3>3, <3>4
  <2>5. CASE Execute(d) \/ HookTarget(d) \/ HookAnswer(d) \/ HangUp(d)
    <3>1. /\ chan'[d] = chan[d] \/ (chan[d] = "up" /\ chan'[d] = "ending")
          /\ router'[d] = router[d] \/ router'[d] \in {"hook", "done", "answer", "welcome"}
          /\ router[d] \in {"idle", "route"} => router'[d] = router[d]
      BY <2>5 DEF Execute, HookTarget, HookAnswer, HangUp, RouterGoto
    <3>2. /\ clients[d] = NoSession => clients'[d] = NoSession
          /\ clients'[d] = clients[d] \/ (~ Keyed(d) /\ clients[d] # NoSession
                                          /\ clients'[d] = [clients[d] EXCEPT !.dumb = TRUE])
      BY <2>5 DEF Execute, HookTarget, HookAnswer, HangUp, Keyed
    <3>3. clients'[d] \in {clients[d]} \cup MayStay(d) \/ chan[d] # "cancelled"
      <4>1. [[FreshSession EXCEPT !.dumb = TRUE] EXCEPT !.dumb = TRUE]
              = [FreshSession EXCEPT !.dumb = TRUE]
        BY DEF FreshSession
      <4>2. QED
        BY <3>2, <4>1 DEF CallsEnd, MayStay
    <3>4. CallsEnd'
      BY <1>4, <2>1, <2>2, <3>1, <3>2, <3>3
    <3>5. Handling'
      BY <1>2, <2>2, <3>2
    <3>6. QED
      BY <3>4, <3>5
  <2>6. Len(Append(queue, Hangup(d))) # Len(queue) /\ Len(Append(queue, Notify(d))) # Len(queue)
        /\ Len(Append(queue, Attach(d, "plain"))) # Len(queue)
        /\ \A k \in Keys : Len(Append(queue, Dtmf(d, k))) # Len(queue)
    BY LenProperties, MessageType
  <2>7. ~ (PromptEnds(d) \/ ChannelDestroyed(d) \/ HookWelcome(d) \/ \E k \in Keys : Press(d, k))
    BY <1>5, <2>6 DEF PromptEnds, ChannelDestroyed, HookWelcome, Press, Post
  <2>8. QED
    BY <2>3, <2>4, <2>5, <2>7 DEF Line, RouterStep
<1>6. CASE PromptEnds(d) \/ HookWelcome(d)
  <2>1. PICK m \in {Notify(d), Attach(d, "plain")} : Post(m)
    BY <1>6 DEF PromptEnds, HookWelcome
  <2>2. m \in Message /\ \A c \in Calls : ~ IsKey(m, c) /\ ~ IsHangup(m, c)
    <3>1. m \in Message
      BY <2>1, MessageType DEF Prompt
    <3>2. m.type # "chan.dtmf" /\ m.type # "chan.hangup"
      BY <2>1 DEF Notify, Attach
    <3>3. QED
      BY <3>1, <3>2 DEF IsKey, IsHangup
  <2>3. Waiting' = Waiting \cup {m}
    BY <2>1, <2>2, WaitingPosted
  <2>4. \A c \in Calls : (HungUp(c)' <=> HungUp(c)) /\ (KeyLeft(c)' <=> KeyLeft(c))
    BY <1>3, <2>2, <2>3
  <2>5. /\ UNCHANGED <<clients, chan>>
        /\ \A c \in Calls : router'[c] = router[c] \/ (router[c] = "welcome" /\ router'[c] = "done")
    BY <1>6 DEF PromptEnds, HookWelcome, RouterGoto
  <2>6. CallsEnd'
    BY <2>4, <2>5 DEF CallsEnd, MayStay
  <2>7. QED
    BY <1>2, <2>5, <2>6
<1>7. CASE \E k \in Keys : Press(d, k)
  <2>1. PICK k \in Keys : Press(d, k)
    BY <1>7
  <2>2. PICK m \in Message : m = Dtmf(d, k)
    BY MessageType
  <2>3. Post(m) /\ chan[d] = "up" /\ UNCHANGED <<clients, chan, router>>
    BY <2>1, <2>2 DEF Press
  <2>4. \A c \in Calls : ~ IsHangup(m, c) /\ (IsKey(m, c) <=> c = d)
    BY <2>2, <2>3 DEF Dtmf, IsKey, IsHangup
  <2>5. Waiting' = Waiting \cup {m}
    BY <2>3, WaitingPosted
  <2>6. \A c \in Calls : HungUp(c)' <=> HungUp(c)
    BY <1>1, <2>4, <2>5 DEF HungUp
  <2>7. \A c \in Calls \ {d} : KeyLeft(c)' => KeyLeft(c)
    BY <1>1, <2>4, <2>5 DEF KeyLeft
  <2>8. CallsEnd'
    BY <2>3, <2>6, <2>7 DEF CallsEnd, MayStay
  <2>9. QED
    BY <1>2, <2>3, <2>8
<1>8. CASE ChannelDestroyed(d)
  <2>1. PICK m \in Message : m = Hangup(d)
    BY MessageType
  <2>2. /\ Post(m) /\ chan[d] = "ending" /\ UNCHANGED <<clients, router>>
        /\ \A c \in Calls \ {d} : chan'[c] = chan[c]
        /\ chan'[d] = IF router[d] = "route" THEN "cancelled" ELSE "gone"
    BY <1>8, <2>1 DEF ChannelDestroyed
  <2>3. \A c \in Calls : ~ IsKey(m, c) /\ (IsHangup(m, c) <=> c = d)
    BY <2>1 DEF Hangup, IsKey, IsHangup
  <2>4. Waiting' = Waiting \cup {m}
    BY <2>2, WaitingPosted
  <2>5. HungUp(d)' /\ \A c \in Calls \ {d} : HungUp(c)' <=> HungUp(c)
    BY <1>1, <2>3, <2>4 DEF HungUp
  <2>6. \A c \in Calls : KeyLeft(c)' => KeyLeft(c)
    BY <1>1, <2>3, <2>4 DEF KeyLeft
  <2>7. chan'[d] = "cancelled" => ~ KeyLeft(d) /\ clients[d] = NoSession
    <3>1. SUFFICES ASSUME router[d] = "route" PROVE ~ KeyLeft(d) /\ clients[d] = NoSession
      BY <2>2
    <3>2. ~ Keyed(d) /\ clients[d] = NoSession
      BY <3>1 DEF Keyed, CallsEnd
    <3>3. ~ KeyLeft(d)
      BY <3>2 DEF KeyLeft, IsKey, KeysKnow, Handling
    <3>4. QED
      BY <3>2, <3>3
  <2>8. CallsEnd'
    <3>1. \A c \in Calls : HungUp(c)' => chan'[c] \in {"cancelled", "gone"}
      BY <2>2, <2>5 DEF CallsEnd
    <3>2. \A c \in Calls : chan'[c] = "gone" /\ ~ HungUp(c)' /\ c \notin raced'
                           => clients'[c] = NoSession
      BY <2>2, <2>5 DEF CallsEnd
    <3>3. \A c \in Calls : chan'[c] = "cancelled"
                       => ~ KeyLeft(c)' /\ clients'[c] \in MayStay(c)' \cup {NoSession}
      BY <2>2, <2>6, <2>7 DEF CallsEnd, MayStay
    <3>4. /\ \A c \in Calls : chan'[c] # "none" => router'[c] # "idle"
          /\ \A c \in Calls : chan'[c] = "gone" => router'[c] # "route"
          /\ \A c \in Calls : router'[c] \in {"idle", "route"} => clients'[c] = NoSession
      BY <2>2 DEF CallsEnd
    <3>5. QED
      BY <3>1, <3>2, <3>3, <3>4 DEF CallsEnd
  <2>9. QED
    BY <1>2, <2>2, <2>8
<1>9. QED
  BY <1>5, <1>6, <1>7, <1>8
  DEF Line, RouterStep, IncomingCall, HangUp, Route, Execute, HookTarget, HookAnswer

\* The service starts with nothing that could be left.
LEMMA EndInit == ASSUME RInit PROVE EndInv
<1>1. Init
  BY DEF RInit
<1>2. AInv /\ DumbInv
  BY <1>1, InitAccounts, DumbInit
<1>3. Waiting = {}
  BY <1>1 DEF Init, Waiting
<1>4. CallsEnd
  BY <1>1, <1>3 DEF Init, CallsEnd, HungUp, KeyLeft, OfKey
<1>5. Handling
  BY <1>1 DEF Init, Handling, OfKey, HasCopy
<1>6. QED
  BY <1>2, <1>4, <1>5 DEF EndInv

\* Every step keeps the invariant.
LEMMA EndNext == ASSUME EndInv, [RNext]_rvars PROVE EndInv'
<1>1. AInv' /\ DumbInv'
  BY NextAccounts, DumbNext DEF EndInv, RNext, rvars
<1>2. CASE UNCHANGED rvars
  <2>1. CallsEnd' /\ Handling'
    BY <1>2 DEF vars, rvars, EndInv, CallsEnd, Handling, HasCopy, Keyed, HungUp, KeyLeft,
       Waiting, MayStay
  <2>2. QED
    BY <1>1, <2>1 DEF EndInv
<1>3. CASE RNext
  <2>1. CASE \E w \in Workers : Work(w)
    BY <1>1, <1>3, <2>1, WorkEnds DEF EndInv, RNext
  <2>2. CASE \E d \in Calls : Line(d) \/ RouterStep(d) \/ PromptEnds(d) \/ ChannelDestroyed(d)
    <3>1. raced' = raced
      BY <1>3, <2>2, CallWorkers, NoRace DEF RNext
    <3>2. QED
      BY <1>1, <2>2, <3>1, CallEnds DEF EndInv
  <2>3. QED
    BY <1>3, <2>1, <2>2 DEF RNext, Next
<1>4. QED
  BY <1>2, <1>3

\* Whatever the workers do at the same time, no session is left of a call that
\* is over but the empty one of a call cancelled before it was routed
\* (cryptocurrencies.cpp:557-570), unless its session was erased while a worker
\* had a copy of it (line 478).
THEOREM NoLeftoverHolds == RSpec => []NoLeftover
<1>1. RInit => EndInv
  BY EndInit
<1>2. EndInv /\ [RNext]_rvars => EndInv'
  BY EndNext
<1>3. EndInv => NoLeftover
  <2>1. SUFFICES ASSUME EndInv, NEW c \in Calls, Settled(c), c \notin raced
                 PROVE  clients[c] \in MayStay(c) \cup {NoSession}
    BY DEF NoLeftover
  <2>2. \A m \in Waiting : m.call # c
    BY <2>1 DEF Settled, Waiting
  <2>3. \A w \in Workers : pc[w] # "idle" => job[w].call # c
    BY <2>1, IdleAssumption DEF Settled, EndInv, DumbInv, TInv, HandledOK, Handled
  <2>4. ~ HungUp(c)
    BY <2>2, <2>3 DEF HungUp, IsHangup
  <2>5. QED
    BY <2>1, <2>4 DEF EndInv, CallsEnd, Settled
<1>4. QED
  BY <1>1, <1>2, <1>3, PTL DEF RSpec

-----------------------------------------------------------------------------
(* The menu *)

\* The phases of the menu have the names of the states.
LEMMA Names ==
  ASSUME NEW s
  PROVE  /\ s.state = STATE_INIT => PhaseName(s) = "init"
         /\ s.state = STATE_HODL => PhaseName(s) = "hodl"
         /\ s.state = STATE_BUY => PhaseName(s) = "buy"
         /\ s.state = STATE_PHONE => PhaseName(s) = "phone"
         /\ s.state = STATE_KNOWN <=> PhaseName(s) = "known"
         /\ s.state = STATE_CREDIT => PhaseName(s) = "credit"
         /\ s.state = STATE_UPDATE => PhaseName(s) = "update"
         /\ s.state = STATE_CALLBACK => PhaseName(s) = "callback"
         /\ s.state = STATE_BYE => PhaseName(s) = "bye"
         /\ s.state = STATE_SUPPORT => PhaseName(s) = "support"
         /\ s.state = STATE_SUP_ID => PhaseName(s) = "sup_id"
         /\ s.state \notin CALLER_STATE => PhaseName(s) = "stray"
         /\ PhaseName(s) # "none"
BY DEF PhaseName, CALLER_STATE, STATE_SUPPORT, STATE_SUP_ID, STATE_INIT, STATE_HODL, STATE_BUY,
       STATE_PHONE, STATE_KNOWN, STATE_CREDIT, STATE_UPDATE, STATE_CALLBACK, STATE_BYE

\* Where the switch may lead from a state.
Allowed(a, b) ==
  \/ a = b
  \/ a = STATE_INIT /\ b \in {STATE_HODL, STATE_BUY}
  \/ a = STATE_HODL /\ b \in {STATE_BUY, STATE_PHONE}
  \/ a = STATE_BUY /\ b \in {STATE_PHONE, STATE_BYE}
  \/ a = STATE_PHONE /\ b \in {STATE_KNOWN, STATE_CREDIT, STATE_BYE}
  \/ a = STATE_KNOWN /\ b \in {STATE_UPDATE, STATE_BYE}
  \/ a = STATE_UPDATE /\ b = STATE_BYE
  \/ a = STATE_CREDIT /\ (b = STATE_BYE \/ b \in Keys)
  \/ a = STATE_CALLBACK /\ b = STATE_BYE
  \/ a = STATE_SUPPORT /\ b \in {STATE_SUP_ID, STATE_BYE}
  \/ a = STATE_SUP_ID /\ b \in {STATE_SUPPORT, STATE_BYE}

\* It leads along the edges of the menu.
LEMMA AllowedMenu ==
  ASSUME NEW s, NEW t, Allowed(s.state, t.state)
  PROVE  PhaseName(t) = PhaseName(s) \/ <<PhaseName(s), PhaseName(t)>> \in Promise!Menu
<1>1. CASE s.state = t.state
  BY <1>1 DEF PhaseName
<1>2. CASE s.state = STATE_CREDIT /\ t.state \in Keys
  <2>1. t.state = STATE_SUPPORT \/ t.state \notin CALLER_STATE
    BY <1>2, KeysAssumption DEF CALLER_STATE, STATE_SUPPORT, STATE_SUP_ID, STATE_INIT, STATE_HODL, STATE_BUY,
       STATE_PHONE, STATE_KNOWN, STATE_CREDIT, STATE_UPDATE, STATE_CALLBACK, STATE_BYE
  <2>2. PhaseName(s) = "credit" /\ PhaseName(t) \in {"support", "stray"}
    BY <1>2, <2>1, Names
  <2>3. QED
    BY <2>2 DEF Promise!Menu
<1>3. CASE s.state = STATE_INIT /\ t.state \in {STATE_HODL, STATE_BUY}
  <2>1. PhaseName(s) = "init" /\ PhaseName(t) \in {"hodl", "buy"}
    BY <1>3, Names
  <2>2. QED
    BY <2>1 DEF Promise!Menu
<1>4. CASE s.state = STATE_HODL /\ t.state \in {STATE_BUY, STATE_PHONE}
  <2>1. PhaseName(s) = "hodl" /\ PhaseName(t) \in {"buy", "phone"}
    BY <1>4, Names
  <2>2. QED
    BY <2>1 DEF Promise!Menu
<1>5. CASE s.state = STATE_BUY /\ t.state \in {STATE_PHONE, STATE_BYE}
  <2>1. PhaseName(s) = "buy" /\ PhaseName(t) \in {"phone", "bye"}
    BY <1>5, Names
  <2>2. QED
    BY <2>1 DEF Promise!Menu
<1>6. CASE s.state = STATE_PHONE /\ t.state \in {STATE_KNOWN, STATE_CREDIT, STATE_BYE}
  <2>1. PhaseName(s) = "phone" /\ PhaseName(t) \in {"known", "credit", "bye"}
    BY <1>6, Names
  <2>2. QED
    BY <2>1 DEF Promise!Menu
<1>7. CASE s.state = STATE_KNOWN /\ t.state \in {STATE_UPDATE, STATE_BYE}
  <2>1. PhaseName(s) = "known" /\ PhaseName(t) \in {"update", "bye"}
    BY <1>7, Names
  <2>2. QED
    BY <2>1 DEF Promise!Menu
<1>8. CASE s.state \in {STATE_UPDATE, STATE_CREDIT, STATE_CALLBACK} /\ t.state = STATE_BYE
  <2>1. PhaseName(s) \in {"update", "credit", "callback"} /\ PhaseName(t) = "bye"
    BY <1>8, Names
  <2>2. QED
    BY <2>1 DEF Promise!Menu
<1>9. CASE s.state = STATE_SUPPORT /\ t.state \in {STATE_SUP_ID, STATE_BYE}
  <2>1. PhaseName(s) = "support" /\ PhaseName(t) \in {"sup_id", "bye"}
    BY <1>9, Names
  <2>2. QED
    BY <2>1 DEF Promise!Menu
<1>10. CASE s.state = STATE_SUP_ID /\ t.state \in {STATE_SUPPORT, STATE_BYE}
  <2>1. PhaseName(s) = "sup_id" /\ PhaseName(t) \in {"support", "bye"}
    BY <1>10, Names
  <2>2. QED
    BY <2>1 DEF Promise!Menu
<1>11. QED
  BY <1>1, <1>2, <1>3, <1>4, <1>5, <1>6, <1>7, <1>8, <1>9, <1>10 DEF Allowed

\* The state of a session after an operation on it.
LEMMA StateAfter ==
  ASSUME NEW s \in Session
  PROVE  /\ \A st : Goto(s, st).state = st /\ Enter(s, st).state = st
         /\ \A k : Collect(s, k).state = s.state
         /\ \A k : CollectCredit(s, k).state \in {s.state, k}
         /\ \A n : [s EXCEPT !.secret = n].state = s.state
BY DEF Goto, Enter, Collect, CollectCredit, Session

\* The two ways in which a switch that goes on changes the table.
CardChanges(w) ==
  /\ pc'[w] # "idle"
  /\ cur[w].state = STATE_UPDATE /\ cur'[w].state = STATE_KNOWN
  /\ \E card \in Text :
       db' = [u \in DOMAIN db |-> IF db[u].number = cur[w].number
                                  THEN [db[u] EXCEPT !.creditcard = card] ELSE db[u]]
RowAdded(w) ==
  /\ pc'[w] # "idle"
  /\ cur[w].state = STATE_CREDIT /\ cur'[w].state = STATE_CALLBACK
  /\ \E row \in Row : db' = Append(db, row) /\ RowsWithNumber(row.number) = {}

\* A switch that returns leaves the table alone; one that goes on moves the copy
\* along the menu, or stores a card on the way.
LEMMA SwitchStates ==
  ASSUME TInv, NEW w \in Workers, DtmfSwitch(w)
  PROVE  \/ Return(w) /\ UNCHANGED db
         \/ Allowed(cur[w].state, cur'[w].state) /\ UNCHANGED db
         \/ CardChanges(w)
         \/ RowAdded(w)
<1> DEFINE s == cur[w]
           k == job[w].key
           To(st) == cur'[w].state = st /\ pc'[w] # "idle"
<1> USE DEF TInv, TypeOK, WorkersOK
<1>1. pc[w] = "switch"
  BY DEF DtmfSwitch, OnInit, OnHodl, OnBuy, OnPhone, OnKnown, OnUpdate,
         OnCredit, OnCallback, OnBye, OnSupport, OnSupId, In
<1>2. s \in Session /\ k \in Keys
  BY <1>1 DEF HandledOK, Handled, Copied
<1>3. \A t, f : Continue(w, t, f) => cur'[w] = t /\ pc'[w] # "idle"
  BY DEF Continue
<1>4. /\ \A st, f : Continue(w, Goto(s, st), f) \/ Continue(w, Enter(s, st), f) => To(st)
      /\ \A f : Continue(w, s, f) \/ Continue(w, Collect(s, k), f) => To(s.state)
      /\ \A f : Continue(w, CollectCredit(s, k), f) => To(s.state) \/ To(k)
      /\ \A f : Fail(w) => To(STATE_BYE)
  BY <1>2, <1>3, StateAfter DEF Fail
<1>5. Truncate(s.buf) \in Text /\ s.number \in Text
  BY <1>2, TruncateType DEF Session
<1>6. ASSUME NEW named \in Session
      PROVE  \A st, f : Continue(w, Goto(named, st), f) \/ Continue(w, Enter(named, st), f) => To(st)
  BY <1>3, <1>6, StateAfter
<1>11. CASE OnInit(w)
  <2>1. s.state = STATE_INIT /\ (To(STATE_HODL) \/ To(STATE_BUY)) /\ UNCHANGED db
    BY <1>11, <1>4 DEF OnInit, In, store
  <2>2. QED
    BY <2>1 DEF Allowed
<1>12. CASE OnHodl(w)
  <2>1. s.state = STATE_HODL /\ (To(STATE_BUY) \/ To(STATE_PHONE)) /\ UNCHANGED db
    BY <1>12, <1>4 DEF OnHodl, In, store
  <2>2. QED
    BY <2>1 DEF Allowed
<1>13. CASE OnBuy(w)
  <2>1. s.state = STATE_BUY /\ (To(STATE_PHONE) \/ To(STATE_BYE)) /\ UNCHANGED db
    BY <1>13, <1>4 DEF OnBuy, In, store
  <2>2. QED
    BY <2>1 DEF Allowed
<1>14. CASE OnPhone(w)
  <2>1. s.state = STATE_PHONE /\ UNCHANGED db
    BY <1>14 DEF OnPhone, In, store
  <2>2. CASE Lookup(w)
    <3> DEFINE named == [s EXCEPT !.number = Truncate(s.buf)]
    <3>1. named \in Session
      BY <1>2, <1>5, NumberType
    <3>2. \A st, f : Continue(w, Goto(named, st), f) \/ Continue(w, Enter(named, st), f) => To(st)
      BY <1>6, <3>1
    <3>3. ASSUME NEW u \in DOMAIN db,
                 Continue(w, [Goto(named, STATE_KNOWN) EXCEPT
                                !.secret = Truncate(db[u].creditcard)], "file")
          PROVE  To(STATE_KNOWN)
      <4>1. STATE_KNOWN \in State
        BY DEF State, CALLER_STATE
      <4>2. PICK g \in Session : g = Goto(named, STATE_KNOWN)
        BY <3>1, <4>1, GotoType
      <4>3. g.state = STATE_KNOWN
        BY <3>1, <4>2, StateAfter
      <4>4. cur'[w] = [g EXCEPT !.secret = Truncate(db[u].creditcard)] /\ pc'[w] # "idle"
        BY <1>3, <3>3, <4>2
      <4>5. QED
        BY <4>3, <4>4, StateAfter
    <3>4. To(STATE_KNOWN) \/ To(STATE_CREDIT) \/ To(STATE_BYE)
      BY <2>2, <3>2, <3>3 DEF Lookup, RowsWithNumber
    <3>5. QED
      BY <2>1, <3>4 DEF Allowed
  <2>3. CASE Continue(w, Collect(s, k), "none")
    BY <1>4, <2>1, <2>3 DEF Allowed
  <2>4. QED
    BY <1>14, <2>2, <2>3 DEF OnPhone, Key
<1>15. CASE OnKnown(w)
  <2>1. /\ s.state = STATE_KNOWN /\ UNCHANGED db
        /\ To(STATE_UPDATE) \/ To(STATE_BYE) \/ To(s.state)
    BY <1>15, <1>4 DEF OnKnown, In
  <2>2. QED
    BY <2>1 DEF Allowed
<1>16. CASE OnUpdate(w)
  <2>1. s.state = STATE_UPDATE
    BY <1>16 DEF OnUpdate, In
  <2>2. CASE ChangeCard(w)
    <3> DEFINE named == [s EXCEPT !.secret = Truncate(s.buf)]
    <3>1. named \in Session
      BY <1>2, <1>5, NumberType
    <3>2. \A st, f : Continue(w, Goto(named, st), f) \/ Continue(w, Enter(named, st), f) => To(st)
      BY <1>6, <3>1
    <3>3. \/ /\ To(STATE_KNOWN)
             /\ db' = [u \in DOMAIN db |-> IF db[u].number = s.number
                         THEN [db[u] EXCEPT !.creditcard = Truncate(s.buf)] ELSE db[u]]
          \/ Return(w) /\ UNCHANGED db
          \/ To(STATE_BYE) /\ UNCHANGED db
      BY <2>2, <3>2 DEF ChangeCard
    <3>4. QED
      BY <1>5, <2>1, <3>3 DEF Allowed, CardChanges
  <2>3. CASE Continue(w, Collect(s, k), "none") /\ UNCHANGED db
    BY <1>4, <2>1, <2>3 DEF Allowed
  <2>4. QED
    BY <1>16, <2>2, <2>3 DEF OnUpdate, Key
<1>17. CASE OnCredit(w)
  <2>1. s.state = STATE_CREDIT
    BY <1>17 DEF OnCredit, In
  <2>2. CASE Register(w)
    <3> DEFINE named == [s EXCEPT !.secret = Truncate(s.buf)]
               row == [number |-> s.number, creditcard |-> Truncate(s.buf)]
    <3>1. named \in Session
      BY <1>2, <1>5, NumberType
    <3>2. \A st, f : Continue(w, Goto(named, st), f) \/ Continue(w, Enter(named, st), f) => To(st)
      BY <1>6, <3>1
    <3>3. row \in Row /\ row.number = s.number
      BY <1>5 DEF Row
    <3>4. \/ To(STATE_CALLBACK) /\ db' = Append(db, row) /\ RowsWithNumber(s.number) = {}
          \/ Return(w) /\ UNCHANGED db
          \/ To(STATE_BYE) /\ UNCHANGED db
      BY <2>2, <3>2 DEF Register, store
    <3>5. QED
      BY <2>1, <3>3, <3>4 DEF Allowed, RowAdded
  <2>3. CASE Continue(w, CollectCredit(s, k), "none") /\ UNCHANGED db
    BY <1>2, <1>4, <2>1, <2>3 DEF Allowed
  <2>4. QED
    BY <1>17, <2>2, <2>3 DEF OnCredit, Key, store
<1>18. CASE OnCallback(w)
  <2>1. s.state = STATE_CALLBACK /\ To(STATE_BYE) /\ UNCHANGED db
    BY <1>18, <1>4 DEF OnCallback, In, store
  <2>2. QED
    BY <2>1 DEF Allowed
<1>19. CASE OnBye(w)
  BY <1>19 DEF OnBye, store
<1>20. CASE OnSupport(w)
  <2>1. /\ s.state = STATE_SUPPORT /\ UNCHANGED db
        /\ To(STATE_SUP_ID) \/ To(STATE_BYE) \/ To(s.state)
    BY <1>20, <1>4 DEF OnSupport, In
  <2>2. QED
    BY <2>1 DEF Allowed
<1>21. CASE OnSupId(w)
  <2>1. /\ s.state = STATE_SUP_ID /\ UNCHANGED db
        /\ To(STATE_SUPPORT) \/ To(STATE_BYE) \/ To(s.state)
    BY <1>21, <1>4 DEF OnSupId, In, Key
  <2>2. QED
    BY <2>1 DEF Allowed
<1>22. QED
  BY <1>11, <1>12, <1>13, <1>14, <1>15, <1>16, <1>17, <1>18, <1>19, <1>20, <1>21
  DEF DtmfSwitch

-----------------------------------------------------------------------------
(* The accounts *)

AccountsOf(rows) == [n \in {rows[u].number : u \in DOMAIN rows} |->
                       rows[CHOOSE u \in DOMAIN rows : rows[u].number = n].creditcard]
OneOwner(rows) == \A u, v \in DOMAIN rows : rows[u].number = rows[v].number => u = v

\* The account of a number is the only row with it.
LEMMA AccountAt ==
  ASSUME NEW rows, OneOwner(rows), NEW u \in DOMAIN rows
  PROVE  /\ rows[u].number \in DOMAIN AccountsOf(rows)
         /\ AccountsOf(rows)[rows[u].number] = rows[u].creditcard
<1> DEFINE n == rows[u].number
           c == CHOOSE v \in DOMAIN rows : rows[v].number = n
<1>1. c \in DOMAIN rows /\ rows[c].number = n
  OBVIOUS
<1>2. c = u
  BY <1>1 DEF OneOwner
<1>3. n \in {rows[v].number : v \in DOMAIN rows}
  OBVIOUS
<1>4. AccountsOf(rows)[n] = rows[c].creditcard
  BY <1>3 DEF AccountsOf
<1>5. QED
  BY <1>2, <1>3, <1>4 DEF AccountsOf

\* The accounts g are those of f with the card of number n stored.
StoresAt(f, g, n) == /\ n \in DOMAIN g
                     /\ g = [m \in DOMAIN f \cup {n} |-> IF m = n THEN g[n] ELSE f[m]]

\* Storing a card for one number changes the account of that number only.
LEMMA StoresOne ==
  ASSUME NEW rows, NEW rows2, NEW n,
         DOMAIN AccountsOf(rows2) = DOMAIN AccountsOf(rows) \cup {n},
         \A m \in DOMAIN AccountsOf(rows) : m # n => AccountsOf(rows2)[m] = AccountsOf(rows)[m]
  PROVE  StoresAt(AccountsOf(rows), AccountsOf(rows2), n)
<1>1. PICK f : f = AccountsOf(rows)
  OBVIOUS
<1>2. PICK g : g = AccountsOf(rows2)
  OBVIOUS
<1>3. g = [m \in DOMAIN g |-> g[m]]
  BY <1>2 DEF AccountsOf
<1>4. DOMAIN g = DOMAIN f \cup {n} /\ \A m \in DOMAIN f : m # n => g[m] = f[m]
  BY <1>1, <1>2
<1>5. \A m \in DOMAIN g : g[m] = IF m = n THEN g[n] ELSE f[m]
  BY <1>4
<1>6. g = [m \in DOMAIN f \cup {n} |-> IF m = n THEN g[n] ELSE f[m]]
  BY <1>3, <1>4, <1>5
<1>7. QED
  BY <1>1, <1>2, <1>4, <1>6 DEF StoresAt

\* A registration adds an account.
LEMMA AccountAdded ==
  ASSUME NEW rows \in Seq(Row), OneOwner(rows), NEW row \in Row,
         \A u \in DOMAIN rows : rows[u].number # row.number,
         NEW rows2, rows2 = Append(rows, row)
  PROVE  /\ row.number \in DOMAIN AccountsOf(rows2) \ DOMAIN AccountsOf(rows)
         /\ StoresAt(AccountsOf(rows), AccountsOf(rows2), row.number)
<1>1. PICK l \in Nat : l = Len(rows)
  OBVIOUS
<1>2. /\ DOMAIN rows = 1 .. l /\ DOMAIN rows2 = 1 .. l + 1
      /\ \A u \in 1 .. l : rows2[u] = rows[u]
      /\ rows2[l + 1] = row
  BY <1>1
<1>3. \A u \in DOMAIN rows2 : u \in 1 .. l \/ u = l + 1
  BY <1>2
<1>4. OneOwner(rows2)
  BY <1>2, <1>3 DEF OneOwner
<1>5. /\ DOMAIN AccountsOf(rows) = {rows[u].number : u \in DOMAIN rows}
      /\ DOMAIN AccountsOf(rows2) = {rows2[u].number : u \in DOMAIN rows2}
  BY DEF AccountsOf
<1>6. l + 1 \in DOMAIN rows2 /\ \A u \in 1 .. l : u \in DOMAIN rows2
  BY <1>2
<1>7. DOMAIN AccountsOf(rows2) = DOMAIN AccountsOf(rows) \cup {row.number}
  BY <1>2, <1>3, <1>5, <1>6
<1>8. row.number \notin DOMAIN AccountsOf(rows)
  BY <1>5
<1>9. ASSUME NEW m \in DOMAIN AccountsOf(rows)
      PROVE  AccountsOf(rows2)[m] = AccountsOf(rows)[m]
  <2>1. PICK u \in DOMAIN rows : rows[u].number = m
    BY <1>5
  <2>2. u \in DOMAIN rows2 /\ rows2[u] = rows[u]
    BY <1>2, <1>6
  <2>3. AccountsOf(rows)[m] = rows[u].creditcard
    BY <2>1, AccountAt
  <2>4. AccountsOf(rows2)[m] = rows2[u].creditcard
    BY <1>4, <2>1, <2>2, AccountAt
  <2>5. QED
    BY <2>2, <2>3, <2>4
<1>10. QED
  BY <1>7, <1>8, <1>9, StoresOne

\* An update changes one.
LEMMA AccountChanged ==
  ASSUME NEW rows, OneOwner(rows), NEW n, NEW v \in DOMAIN rows, rows[v].number = n,
         NEW rows2, DOMAIN rows2 = DOMAIN rows,
         \A u \in DOMAIN rows : rows2[u].number = rows[u].number,
         \A u \in DOMAIN rows : rows[u].number # n => rows2[u] = rows[u]
  PROVE  /\ n \in DOMAIN AccountsOf(rows)
         /\ StoresAt(AccountsOf(rows), AccountsOf(rows2), n)
<1>1. OneOwner(rows2)
  BY DEF OneOwner
<1>2. /\ DOMAIN AccountsOf(rows) = {rows[u].number : u \in DOMAIN rows}
      /\ DOMAIN AccountsOf(rows2) = {rows2[u].number : u \in DOMAIN rows2}
  BY DEF AccountsOf
<1>3. DOMAIN AccountsOf(rows2) = DOMAIN AccountsOf(rows)
  BY <1>2
<1>4. n \in DOMAIN AccountsOf(rows)
  BY <1>2
<1>5. ASSUME NEW m \in DOMAIN AccountsOf(rows), m # n
      PROVE  AccountsOf(rows2)[m] = AccountsOf(rows)[m]
  <2>1. PICK u \in DOMAIN rows : rows[u].number = m
    BY <1>2
  <2>2. u \in DOMAIN rows2 /\ rows2[u] = rows[u]
    BY <1>5, <2>1
  <2>3. AccountsOf(rows)[m] = rows[u].creditcard
    BY <2>1, AccountAt
  <2>4. AccountsOf(rows2)[m] = rows2[u].creditcard
    BY <1>1, <2>1, <2>2, AccountAt
  <2>5. QED
    BY <2>2, <2>3, <2>4
<1>6. QED
  BY <1>3, <1>4, <1>5, StoresOne

-----------------------------------------------------------------------------
(* The phases *)

HoldersIn(p, j, c) == {w \in Workers : p[w] \in {"attach", "store"} /\ j[w].call = c}
PhaseIn(cl, p, j, cu, c) ==
  IF \E w \in HoldersIn(p, j, c) : TRUE
  THEN PhaseName(cu[CHOOSE w \in HoldersIn(p, j, c) : TRUE])
  ELSE IF cl[c] = NoSession THEN "none" ELSE PhaseName(cl[c])

\* The phase of a call is that of the copy that one worker has changed.
LEMMA PhaseHeld ==
  ASSUME NEW cl, NEW p, NEW j, NEW cu, NEW c, NEW w, HoldersIn(p, j, c) = {w}
  PROVE  PhaseIn(cl, p, j, cu, c) = PhaseName(cu[w])
<1>1. (CHOOSE v \in HoldersIn(p, j, c) : TRUE) \in HoldersIn(p, j, c)
  OBVIOUS
<1>2. (CHOOSE v \in HoldersIn(p, j, c) : TRUE) = w
  BY <1>1
<1>3. QED
  BY <1>2 DEF PhaseIn

\* It is that of its session while no worker has changed a copy.
LEMMA PhaseFree ==
  ASSUME NEW cl, NEW p, NEW j, NEW cu, NEW c, HoldersIn(p, j, c) = {}
  PROVE  PhaseIn(cl, p, j, cu, c) = IF cl[c] = NoSession THEN "none" ELSE PhaseName(cl[c])
BY DEF PhaseIn

\* The same workers with the same copies, and the same session: the same phase.
LEMMA PhaseSame ==
  ASSUME NEW cl, NEW p, NEW j, NEW cu, NEW c, NEW cl2, NEW p2, NEW j2, NEW cu2,
         HoldersIn(p2, j2, c) = HoldersIn(p, j, c),
         \A w \in HoldersIn(p, j, c) : cu2[w] = cu[w], cl2[c] = cl[c]
  PROVE  PhaseIn(cl2, p2, j2, cu2, c) = PhaseIn(cl, p, j, cu, c)
<1>1. PICK H : H = HoldersIn(p, j, c)
  OBVIOUS
<1>2. CASE H = {}
  <2>1. HoldersIn(p, j, c) = {} /\ HoldersIn(p2, j2, c) = {}
    BY <1>1, <1>2
  <2>2. PhaseIn(cl, p, j, cu, c) = IF cl[c] = NoSession THEN "none" ELSE PhaseName(cl[c])
    BY <2>1, PhaseFree
  <2>3. PhaseIn(cl2, p2, j2, cu2, c) = IF cl2[c] = NoSession THEN "none" ELSE PhaseName(cl2[c])
    BY <2>1, PhaseFree
  <2>4. QED
    BY <2>2, <2>3
<1>3. CASE H # {}
  <2>1. PICK w : w = CHOOSE v \in H : TRUE
    OBVIOUS
  <2>2. w \in H
    BY <1>3, <2>1
  <2>3. PhaseIn(cl, p, j, cu, c) = PhaseName(cu[w]) /\ PhaseIn(cl2, p2, j2, cu2, c) = PhaseName(cu2[w])
    BY <1>1, <1>3, <2>1 DEF PhaseIn
  <2>4. QED
    BY <1>1, <2>2, <2>3
<1>4. QED
  BY <1>2, <1>3

\* A call's phase before and after a step.
Before(c) == PhaseIn(clients, pc, job, cur, c)
After(c)  == PhaseIn(clients', pc', job', cur', c)

\* The refinement mapping in these terms.
LEMMA Mapping ==
  /\ phase = [c \in Calls |-> Before(c)]
  /\ phase' = [c \in Calls |-> After(c)]
  /\ accounts = AccountsOf(db)
  /\ accounts' = AccountsOf(db')
BY DEF phase, accounts, Holders, HoldersIn, PhaseIn, AccountsOf, Before, After

\* A worker's step leaves the phases of other calls alone.
LEMMA OtherPhases ==
  ASSUME NEW w \in Workers, Others(w), NEW d \in Calls, clients'[d] = clients[d],
         pc[w] \in {"attach", "store"} => job[w].call # d,
         pc'[w] \in {"attach", "store"} => job'[w].call # d
  PROVE  After(d) = Before(d)
<1>1. HoldersIn(pc', job', d) = HoldersIn(pc, job, d) /\ w \notin HoldersIn(pc, job, d)
  BY DEF HoldersIn, Others
<1>2. \A v \in HoldersIn(pc, job, d) : cur'[v] = cur[v]
  BY <1>1 DEF HoldersIn, Others
<1>3. PICK cl2, p2, j2, cu2 : cl2 = clients' /\ p2 = pc' /\ j2 = job' /\ cu2 = cur'
  OBVIOUS
<1>4. PhaseIn(cl2, p2, j2, cu2, d) = PhaseIn(clients, pc, job, cur, d)
  <2>1. HoldersIn(p2, j2, d) = HoldersIn(pc, job, d)
    BY <1>1, <1>3
  <2>2. \A v \in HoldersIn(pc, job, d) : cu2[v] = cur[v]
    BY <1>2, <1>3
  <2>3. cl2[d] = clients[d]
    BY <1>3
  <2>4. QED
    BY <2>1, <2>2, <2>3, PhaseSame
<1>5. QED
  BY <1>3, <1>4 DEF After, Before

\* After a step that leaves c with one worker that changed a copy, or with none.
LEMMA AfterIs ==
  ASSUME NEW c
  PROVE  /\ \A w \in Workers : HoldersIn(pc', job', c) = {w} => After(c) = PhaseName(cur'[w])
         /\ HoldersIn(pc', job', c) = {}
            => After(c) = IF clients'[c] = NoSession THEN "none" ELSE PhaseName(clients'[c])
<1>1. PICK cl, p, j, cu : cl = clients' /\ p = pc' /\ j = job' /\ cu = cur'
  OBVIOUS
<1>2. /\ \A w \in Workers : HoldersIn(p, j, c) = {w} => PhaseIn(cl, p, j, cu, c) = PhaseName(cu[w])
      /\ HoldersIn(p, j, c) = {}
         => PhaseIn(cl, p, j, cu, c) = IF cl[c] = NoSession THEN "none" ELSE PhaseName(cl[c])
  BY PhaseHeld, PhaseFree
<1>3. QED
  BY <1>1, <1>2 DEF After

\* What every step of the helpline has to be: one of the menu, or a stutter.
MenuStep == [Promise!SNext]_Promise!svars

\* Steps that leave the phases and the table alone change nothing of the menu.
LEMMA Stutters ==
  ASSUME UNCHANGED <<db, raced>>, \A c \in Calls : After(c) = Before(c)
  PROVE  MenuStep
<1>1. phase' = phase /\ accounts' = accounts
  BY Mapping
<1>2. QED
  BY <1>1 DEF MenuStep, Promise!svars

\* A call with a race may change its phase and one account.
LEMMA Slips ==
  ASSUME NEW c \in Calls, raced' = raced \cup {c}, \A d \in Calls \ {c} : After(d) = Before(d),
         accounts' = accounts \/ \E n : StoresAt(accounts, accounts', n)
  PROVE  MenuStep
<1>1. phase' = [phase EXCEPT ![c] = phase'[c]]
  BY Mapping
<1>2. Promise!Slip(c)
  BY <1>1 DEF Promise!Slip, Promise!StoreAt, StoresAt
<1>3. QED
  BY <1>2 DEF MenuStep, Promise!SNext

\* What a step of the switch does to the accounts.
LEMMA SwitchStores ==
  ASSUME EndInv, NEW w \in Workers, DtmfSwitch(w)
  PROVE  /\ CardChanges(w) => /\ cur[w].number \in DOMAIN accounts
                              /\ StoresAt(accounts, accounts', cur[w].number)
         /\ RowAdded(w) => \E n \in DOMAIN accounts' \ DOMAIN accounts :
                             StoresAt(accounts, accounts', n)
<1> USE DEF EndInv, AInv, DumbInv, TInv, TypeOK, WorkersOK
<1>1. OneOwner(db) /\ db \in Seq(Row)
  BY DEF OneAccountPerNumber, OneOwner, StoreOK
<1>2. PICK s \in Session : s = cur[w]
  <2>1. pc[w] = "switch"
    BY DEF DtmfSwitch, OnInit, OnHodl, OnBuy, OnPhone, OnKnown, OnUpdate,
           OnCredit, OnCallback, OnBye, OnSupport, OnSupId, In
  <2>2. QED
    BY <2>1 DEF HandledOK, Handled, Copied
<1>3. PICK rows2 : rows2 = db'
  OBVIOUS
<1>4. ASSUME CardChanges(w)
      PROVE  /\ s.number \in DOMAIN accounts
             /\ StoresAt(accounts, accounts', s.number)
  <2>1. PICK card \in Text :
          db' = [u \in DOMAIN db |-> IF db[u].number = s.number
                                     THEN [db[u] EXCEPT !.creditcard = card] ELSE db[u]]
    BY <1>2, <1>4 DEF CardChanges
  <2>2. s.state = STATE_UPDATE /\ s # NoSession
    BY <1>2, <1>4, SessionIsNot DEF CardChanges
  <2>3. RowsWithNumber(s.number) # {}
    BY <1>2, <2>2 DEF AccountsAgree, KnownIsRegistered, EverySession, Registered
  <2>4. PICK v \in DOMAIN db : db[v].number = s.number
    BY <2>3 DEF RowsWithNumber
  <2>5. /\ DOMAIN db' = DOMAIN db
        /\ \A u \in DOMAIN db : db'[u].number = db[u].number
        /\ \A u \in DOMAIN db : db[u].number # s.number => db'[u] = db[u]
    <3>1. \A u \in DOMAIN db : db[u] \in Row
      BY <1>1
    <3>2. QED
      BY <2>1, <3>1 DEF Row
  <2>6. /\ s.number \in DOMAIN AccountsOf(db)
        /\ StoresAt(AccountsOf(db), AccountsOf(rows2), s.number)
    BY <1>1, <1>3, <2>4, <2>5, AccountChanged
  <2>7. QED
    BY <1>3, <2>6, Mapping
<1>5. ASSUME RowAdded(w)
      PROVE  \E n \in DOMAIN accounts' \ DOMAIN accounts : StoresAt(accounts, accounts', n)
  <2>1. PICK row \in Row : db' = Append(db, row) /\ RowsWithNumber(row.number) = {}
    BY <1>5 DEF RowAdded
  <2>2. \A u \in DOMAIN db : db[u].number # row.number
    BY <2>1 DEF RowsWithNumber
  <2>3. /\ row.number \in DOMAIN AccountsOf(rows2) \ DOMAIN AccountsOf(db)
        /\ StoresAt(AccountsOf(db), AccountsOf(rows2), row.number)
    BY <1>1, <1>3, <2>1, <2>2, AccountAdded
  <2>4. QED
    BY <1>3, <2>3, Mapping
<1>6. QED
  BY <1>2, <1>4, <1>5

-----------------------------------------------------------------------------
(* The refinement *)

\* A step of the switch is a step of the menu, or changes nothing of it.
LEMMA SwitchRefines ==
  ASSUME EndInv, EndInv', NEW w \in Workers, DtmfSwitch(w), raced' = raced \cup Races
  PROVE  MenuStep
<1> USE DEF EndInv, AInv, DumbInv, TInv, TypeOK, WorkersOK
<1>1. pc[w] = "switch" /\ UNCHANGED clients
  BY DEF DtmfSwitch, OnInit, OnHodl, OnBuy, OnPhone, OnKnown, OnUpdate,
         OnCredit, OnCallback, OnBye, OnSupport, OnSupId, In
<1>2. Work(w) /\ Others(w) /\ raced' = raced
  <2>1. Work(w)
    BY DEF Work, Handler
  <2>2. Races = {}
    BY <1>1, <2>1, RaceOne DEF Enters
  <2>3. QED
    BY <2>1, <2>2, WorkOthers
<1>3. PICK c \in Calls : c = job[w].call
  BY <1>1, MessageCall DEF HandledOK, Handled
<1>4. PICK s \in Session : s = cur[w]
  BY <1>1 DEF HandledOK, Handled, Copied
<1>5. Return(w) \/ \E t \in Session, f \in Newfile : Continue(w, t, f)
  BY SwitchLeaves DEF Leaves
<1>6. Return(w) => UNCHANGED db
  BY SwitchStates DEF Return, CardChanges, RowAdded
<1>7. ASSUME NEW d \in Calls \ {c}
      PROVE  After(d) = Before(d)
  <2>1. pc'[w] = "idle" \/ job'[w] = job[w]
    BY <1>5 DEF Return, Continue
  <2>2. QED
    BY <1>1, <1>2, <1>3, <2>1, OtherPhases
\* The key of a call with a race.
<1>8. CASE c \in raced
  <2>1. accounts' = accounts \/ \E n : StoresAt(accounts, accounts', n)
    <3>1. CASE UNCHANGED db
      BY <3>1, Mapping
    <3>2. CASE CardChanges(w) \/ RowAdded(w)
      BY <3>2, SwitchStores
    <3>3. QED
      BY <1>6, <3>1, <3>2, SwitchStates
  <2>2. raced' = raced \cup {c}
    BY <1>2, <1>8
  <2>3. QED
    BY <1>7, <2>1, <2>2, Slips
\* The key of another one: its copy is the session.
<1>9. CASE c \notin raced
  <2>1. /\ HasCopy(w, c) /\ clients[c] = s /\ s # NoSession
        /\ \A v \in Workers : HasCopy(v, c) => v = w
    BY <1>1, <1>3, <1>4, <1>9 DEF Handling, HasCopy
  <2>2. HoldersIn(pc, job, c) = {}
    BY <1>1, <2>1 DEF HoldersIn, HasCopy
  <2>3. Before(c) = PhaseName(s)
    <3>1. PhaseIn(clients, pc, job, cur, c)
            = IF clients[c] = NoSession THEN "none" ELSE PhaseName(clients[c])
      BY <2>2, PhaseFree
    <3>2. QED
      BY <2>1, <3>1 DEF Before
  <2>4. \A v \in Workers \ {w} : v \notin HoldersIn(pc', job', c)
    BY <1>2, <2>1 DEF HoldersIn, HasCopy, Others
  <2>5. CASE Return(w)
    <3>1. HoldersIn(pc', job', c) = {}
      BY <2>4, <2>5 DEF HoldersIn, Return
    <3>2. After(c) = PhaseName(s)
      BY <1>1, <2>1, <3>1, AfterIs
    <3>3. QED
      BY <1>2, <1>6, <1>7, <2>3, <2>5, <3>2, Stutters
  <2>6. CASE ~ Return(w)
    <3>1. PICK t \in Session, f \in Newfile : Continue(w, t, f)
      BY <1>5, <2>6
    <3>2. /\ cur'[w] = t /\ pc'[w] \in {"attach", "store"} /\ UNCHANGED job
      BY <3>1 DEF Continue
    <3>3. HoldersIn(pc', job', c) = {w}
      BY <1>3, <2>4, <3>2 DEF HoldersIn
    <3>4. After(c) = PhaseName(t)
      BY <3>2, <3>3, AfterIs
    <3>5. phase[c] = PhaseName(s) /\ phase' = [phase EXCEPT ![c] = PhaseName(t)]
      BY <1>7, <2>3, <3>4, Mapping
    <3>6. CASE Allowed(cur[w].state, cur'[w].state) /\ UNCHANGED db
      <4>1. accounts' = accounts
        BY <3>6, Mapping
      <4>2. \/ PhaseName(t) = PhaseName(s)
            \/ <<PhaseName(s), PhaseName(t)>> \in Promise!Menu
        BY <1>4, <3>2, <3>6, AllowedMenu
      <4>3. CASE PhaseName(t) = PhaseName(s)
        BY <1>2, <1>7, <2>3, <3>4, <3>6, <4>3, Stutters
      <4>4. CASE <<PhaseName(s), PhaseName(t)>> \in Promise!Menu
        <5>1. ASSUME PhaseName(t) = "known"
              PROVE  DOMAIN accounts # {}
          <6>1. t.state = STATE_KNOWN
            BY <5>1, Names
          <6>2. RowsWithNumber(t.number)' # {}
            BY <3>2, <6>1, SessionIsNot
            DEF AccountsAgree, KnownIsRegistered, EverySession, Registered
          <6>3. PICK u \in DOMAIN db : db[u].number = t.number
            BY <3>6, <6>2 DEF RowsWithNumber
          <6>4. OneOwner(db)
            BY DEF OneAccountPerNumber, OneOwner
          <6>5. db[u].number \in DOMAIN AccountsOf(db)
            BY <6>3, <6>4, AccountAt
          <6>6. QED
            BY <6>5, Mapping
        <5>2. PICK m \in Promise!Menu : m = <<PhaseName(s), PhaseName(t)>>
          BY <4>4
        <5>3. /\ m[1] = phase[c]
              /\ m[2] = "known" => DOMAIN accounts # {}
              /\ phase' = [phase EXCEPT ![c] = m[2]]
          BY <3>5, <5>1, <5>2
        <5>4. Promise!Choose(c)
          BY <4>1, <5>3 DEF Promise!Choose
        <5>5. QED
          BY <1>2, <5>4 DEF MenuStep, Promise!SNext, Promise!Step
      <4>5. QED
        BY <4>2, <4>3, <4>4
    <3>7. CASE CardChanges(w)
      <4>1. s.state = STATE_UPDATE /\ t.state = STATE_KNOWN
        BY <1>4, <3>2, <3>7 DEF CardChanges
      <4>2. s.number \in DOMAIN accounts /\ StoresAt(accounts, accounts', s.number)
        BY <1>4, <3>7, SwitchStores
      <4>3. phase[c] = "update" /\ phase' = [phase EXCEPT ![c] = "known"]
        BY <3>5, <4>1, Names
      <4>4. Promise!ChangeCard(c)
        BY <4>2, <4>3 DEF Promise!ChangeCard, Promise!StoreAt, StoresAt
      <4>5. QED
        BY <1>2, <4>4 DEF MenuStep, Promise!SNext, Promise!Step
    <3>8. CASE RowAdded(w)
      <4>1. s.state = STATE_CREDIT /\ t.state = STATE_CALLBACK
        BY <1>4, <3>2, <3>8 DEF RowAdded
      <4>2. PICK n \in DOMAIN accounts' \ DOMAIN accounts : StoresAt(accounts, accounts', n)
        BY <3>8, SwitchStores
      <4>3. phase[c] = "credit" /\ phase' = [phase EXCEPT ![c] = "callback"]
        BY <3>5, <4>1, Names
      <4>4. Promise!Register(c)
        BY <4>2, <4>3 DEF Promise!Register, Promise!StoreAt, StoresAt
      <4>5. QED
        BY <1>2, <4>4 DEF MenuStep, Promise!SNext, Promise!Step
    <3>9. QED
      BY <2>6, <3>6, <3>7, <3>8, SwitchStates
  <2>7. QED
    BY <2>5, <2>6
<1>10. QED
  BY <1>8, <1>9

\* The other steps of a worker: storing the copy makes it the session, so
\* nothing is seen of it; a hang-up closes the session; a section entered while
\* another worker has a copy is recorded.
LEMMA WorkRefines ==
  ASSUME EndInv, EndInv', NEW w \in Workers, Work(w), raced' = raced \cup Races
  PROVE  MenuStep
<1> USE DEF EndInv, AInv, DumbInv, TInv, TypeOK, WorkersOK
<1>1. Others(w)
  BY WorkOthers
<1>2. pc[w] # "idle" => job[w].call \in Calls
  BY MessageCall DEF HandledOK, Handled
<1>3. \/ raced' = raced
      \/ pc[w] # "idle" /\ job[w].call \in Calls /\ raced' = raced \cup {job[w].call}
  <2>1. Races \subseteq {c \in Calls : c = job[w].call /\ Enters(w, c)}
    BY RaceOne
  <2>2. CASE Races = {}
    BY <2>2
  <2>3. CASE Races # {}
    <3>1. PICK c \in Calls : c \in Races /\ c = job[w].call /\ Enters(w, c)
      BY <2>1, <2>3
    <3>2. Races = {c}
      BY <2>1, <3>1
    <3>3. QED
      BY <3>1, <3>2 DEF Enters
  <2>4. QED
    BY <2>2, <2>3
<1>4. CASE DtmfSwitch(w)
  BY <1>4, SwitchRefines
\* Steps after which every phase is what it was.
<1>5. ASSUME UNCHANGED db, \A c \in Calls : After(c) = Before(c)
      PROVE  MenuStep
  <2>1. CASE raced' = raced
    BY <1>5, <2>1, Stutters
  <2>2. CASE job[w].call \in Calls /\ raced' = raced \cup {job[w].call}
    BY <1>5, <2>2, Slips, Mapping
  <2>3. QED
    BY <1>3, <2>1, <2>2
<1>6. CASE Dequeue(w) \/ DtmfCopy(w) \/ NotifyCopy(w) \/ NotifyDrop(w) \/ HandleAttach(w)
  <2>1. /\ UNCHANGED <<clients, db>>
        /\ pc[w] \notin {"attach", "store"}
        /\ pc'[w] \notin {"attach", "store"}
    <3>1. CASE Dequeue(w)
      <4>1. Head(queue) \in Message
        BY <3>1 DEF Dequeue
      <4>2. Head(queue).type \notin {"attach", "store"}
        BY <4>1 DEF Message
      <4>3. QED
        BY <3>1, <4>2 DEF Dequeue, store
    <3>2. CASE DtmfCopy(w) \/ NotifyCopy(w) \/ NotifyDrop(w) \/ HandleAttach(w)
      BY <3>2 DEF DtmfCopy, NotifyCopy, NotifyDrop, HandleAttach, Return, store
    <3>3. QED
      BY <1>6, <3>1, <3>2
  <2>2. \A c \in Calls : After(c) = Before(c)
    BY <1>1, <2>1, OtherPhases
  <2>3. QED
    BY <1>5, <2>1, <2>2
<1>7. CASE DtmfAttach(w)
  <2>1. /\ UNCHANGED <<clients, db, job, cur>>
        /\ pc[w] = "attach" /\ pc'[w] = "store"
    BY <1>7 DEF DtmfAttach, store
  <2>2. ASSUME NEW c \in Calls
        PROVE  After(c) = Before(c)
    <3>1. HoldersIn(pc', job', c) = HoldersIn(pc, job, c)
      BY <1>1, <2>1 DEF HoldersIn, Others
    <3>2. PICK p : p = pc'
      OBVIOUS
    <3>3. PhaseIn(clients, p, job, cur, c) = PhaseIn(clients, pc, job, cur, c)
      <4>1. HoldersIn(p, job, c) = HoldersIn(pc, job, c)
        BY <2>1, <3>1, <3>2
      <4>2. QED
        BY <4>1, PhaseSame
    <3>4. QED
      BY <2>1, <3>2, <3>3 DEF After, Before
  <2>3. QED
    BY <1>5, <2>1, <2>2
<1>8. CASE DtmfStore(w)
  <2>1. PICK d \in Calls : d = job[w].call
    BY <1>2, <1>8 DEF DtmfStore
  <2>2. /\ UNCHANGED db /\ pc[w] = "store" /\ pc'[w] = "idle"
        /\ clients'[d] = cur[w] /\ \A c \in Calls \ {d} : clients'[c] = clients[c]
    BY <1>8, <2>1 DEF DtmfStore, Return, store
  <2>3. \A c \in Calls \ {d} : After(c) = Before(c)
    BY <1>1, <2>1, <2>2, OtherPhases
  <2>4. CASE d \in raced
    <3>1. raced' = raced \cup {d}
      BY <1>3, <2>1, <2>4
    <3>2. QED
      BY <2>2, <2>3, <3>1, Slips, Mapping
  <2>5. CASE d \notin raced
    <3>1. PICK t : t = cur[w] /\ t # NoSession
      BY <2>2, SessionIsNot DEF HandledOK, Handled, Copied
    <3>2. HasCopy(w, d) /\ \A v \in Workers : HasCopy(v, d) => v = w
      BY <2>1, <2>2, <2>5 DEF Handling, HasCopy
    <3>3. HoldersIn(pc, job, d) = {w}
      BY <2>1, <2>2, <3>2 DEF HoldersIn, HasCopy
    <3>4. Before(d) = PhaseName(t)
      <4>1. PhaseIn(clients, pc, job, cur, d) = PhaseName(cur[w])
        BY <3>3, PhaseHeld
      <4>2. QED
        BY <3>1, <4>1 DEF Before
    <3>5. HoldersIn(pc', job', d) = {}
      BY <1>1, <2>2, <3>2 DEF HoldersIn, HasCopy, Others
    <3>6. After(d) = PhaseName(t)
      BY <2>2, <3>1, <3>5, AfterIs
    <3>7. \A c \in Calls : After(c) = Before(c)
      BY <2>3, <3>4, <3>6
    <3>8. QED
      BY <1>5, <2>2, <3>7
  <2>6. QED
    BY <2>4, <2>5
<1>9. CASE HandleHangup(w)
  <2>1. PICK d \in Calls : d = job[w].call
    BY <1>2, <1>9 DEF HandleHangup
  <2>2. /\ UNCHANGED db /\ pc[w] = "chan.hangup" /\ pc'[w] = "idle"
        /\ clients'[d] = NoSession /\ \A c \in Calls \ {d} : clients'[c] = clients[c]
    BY <1>9, <2>1 DEF HandleHangup, Return, store
  <2>3. \A c \in Calls \ {d} : After(c) = Before(c)
    BY <1>1, <2>1, <2>2, OtherPhases
  <2>4. CASE d \in raced'
    <3>1. raced' = raced \cup {d}
      BY <1>3, <2>1, <2>4
    <3>2. QED
      BY <2>2, <2>3, <3>1, Slips, Mapping
  <2>5. CASE d \notin raced'
    <3>1. raced' = raced /\ d \notin Races
      BY <1>3, <2>1, <2>5
    <3>2. \A v \in Workers : ~ HasCopy(v, d)
      BY <2>1, <2>2, <3>1, RaceOne DEF Enters
    <3>3. HoldersIn(pc', job', d) = {}
      BY <1>1, <2>2, <3>2 DEF HoldersIn, HasCopy, Others
    <3>4. After(d) = "none"
      BY <2>2, <3>3, AfterIs
    <3>5. phase' = [phase EXCEPT ![d] = "none"] /\ accounts' = accounts
      BY <2>2, <2>3, <3>4, Mapping
    <3>6. Promise!Close(d)
      BY <3>5 DEF Promise!Close
    <3>7. QED
      BY <3>1, <3>6 DEF MenuStep, Promise!SNext, Promise!Step
  <2>6. QED
    BY <2>4, <2>5
<1>10. QED
  BY <1>4, <1>6, <1>7, <1>8, <1>9 DEF Work, Handler

\* Calls and their threads: routing a call opens its session, recording the
\* dumb channel does not change the phase.
LEMMA CallRefines ==
  ASSUME EndInv, NEW d \in Calls, raced' = raced,
         Line(d) \/ RouterStep(d) \/ PromptEnds(d) \/ ChannelDestroyed(d)
  PROVE  MenuStep
<1> USE DEF EndInv, AInv, DumbInv, TInv, TypeOK, WorkersOK
<1>1. UNCHANGED <<pc, job, cur, db>>
  BY CallWorkers
<1>2. ASSUME NEW c \in Calls, clients'[c] = clients[c] PROVE After(c) = Before(c)
  <2>1. PICK cl : cl = clients'
    OBVIOUS
  <2>2. PhaseIn(cl, pc, job, cur, c) = PhaseIn(clients, pc, job, cur, c)
    BY <1>2, <2>1, PhaseSame
  <2>3. QED
    BY <1>1, <2>1, <2>2 DEF After, Before
<1>3. CASE UNCHANGED clients
  BY <1>1, <1>2, <1>3, Stutters
<1>4. ASSUME ~ Keyed(d)
      PROVE  /\ Before(d) = IF clients[d] = NoSession THEN "none" ELSE PhaseName(clients[d])
             /\ After(d) = IF clients'[d] = NoSession THEN "none" ELSE PhaseName(clients'[d])
  <2>1. HoldersIn(pc, job, d) = {}
    BY <1>4 DEF Handling, OfKey, HoldersIn
  <2>2. HoldersIn(pc', job', d) = {}
    BY <1>1, <2>1
  <2>3. PhaseIn(clients, pc, job, cur, d)
          = IF clients[d] = NoSession THEN "none" ELSE PhaseName(clients[d])
    BY <2>1, PhaseFree
  <2>4. After(d) = IF clients'[d] = NoSession THEN "none" ELSE PhaseName(clients'[d])
    BY <2>2, AfterIs
  <2>5. QED
    BY <2>3, <2>4 DEF Before
<1>5. CASE Route(d)
  <2>1. /\ router[d] = "route" /\ clients'[d] = FreshSession
        /\ \A c \in Calls \ {d} : clients'[c] = clients[c]
    BY <1>5 DEF Route
  <2>2. clients[d] = NoSession /\ ~ Keyed(d)
    BY <2>1 DEF CallsEnd, Keyed
  <2>3. FreshSession.state = STATE_INIT /\ FreshSession # NoSession
    <3>1. FreshSession \in Session
      BY DEF FreshSession, Session, State, CALLER_STATE, Text
    <3>2. QED
      BY <3>1, SessionIsNot DEF FreshSession
  <2>4. PhaseName(FreshSession) = "init"
    BY <2>3, Names
  <2>5. Before(d) = "none" /\ After(d) = "init" /\ \A c \in Calls \ {d} : After(c) = Before(c)
    BY <1>2, <1>4, <2>1, <2>2, <2>3, <2>4
  <2>6. /\ phase[d] = "none" /\ phase' = [phase EXCEPT ![d] = "init"]
        /\ accounts' = accounts
    BY <1>1, <2>5, Mapping
  <2>7. Promise!Open(d)
    BY <2>6 DEF Promise!Open
  <2>8. QED
    BY <2>7 DEF MenuStep, Promise!SNext, Promise!Step
<1>6. CASE HookTarget(d)
  <2>1. /\ router[d] = "hook" /\ \A c \in Calls \ {d} : clients'[c] = clients[c]
        /\ \/ clients'[d] = clients[d]
           \/ clients[d] # NoSession /\ clients'[d] = [clients[d] EXCEPT !.dumb = TRUE]
    BY <1>6 DEF HookTarget
  <2>2. ~ Keyed(d)
    BY <2>1 DEF Keyed
  <2>3. CASE clients'[d] = clients[d]
    BY <1>1, <1>2, <2>1, <2>3, Stutters
  <2>4. CASE clients[d] # NoSession /\ clients'[d] = [clients[d] EXCEPT !.dumb = TRUE]
    <3>1. PICK s \in Session : s = clients[d]
      BY <2>4
    <3>2. PICK t \in Session : t = [s EXCEPT !.dumb = TRUE]
      BY DEF Session
    <3>3. t.state = s.state
      BY <3>2 DEF Session
    <3>4. PhaseName(t) = PhaseName(s) /\ t # NoSession
      BY <3>3, SessionIsNot DEF PhaseName
    <3>5. After(d) = Before(d)
      BY <1>4, <2>2, <2>4, <3>1, <3>2, <3>4
    <3>6. QED
      BY <1>1, <1>2, <2>1, <3>5, Stutters
  <2>5. QED
    BY <2>1, <2>3, <2>4
<1>7. QED
  BY <1>3, <1>5, <1>6 DEF Line, RouterStep, IncomingCall, HangUp, Press, Execute,
     HookAnswer, HookWelcome, PromptEnds, ChannelDestroyed

\* The helpline implements the menu of HelplineSessions for any number of
\* workers and calls, any keys and any table: each key of a call takes one edge,
\* and an account is opened or changed by the key that finishes a credit card;
\* a race over one call's session (cryptocurrencies.cpp:190, 478) shows in that
\* call's phase and in one account at most.
THEOREM SessionsImplemented == RSpec => ImplementsSessions
<1>1. RInit => EndInv
  BY EndInit
<1>2. EndInv /\ [RNext]_rvars => EndInv'
  BY EndNext
<1>3. RInit => Promise!SInit
  <2>1. ASSUME RInit PROVE phase = [c \in Calls |-> "none"]
    <3>1. \A c \in Calls : Before(c) = "none"
      <4> SUFFICES ASSUME NEW c \in Calls
                   PROVE  Before(c) = "none"
        OBVIOUS
      <4>1. clients[c] = NoSession /\ HoldersIn(pc, job, c) = {}
        BY <2>1 DEF RInit, Init, HoldersIn
      <4>2. PhaseIn(clients, pc, job, cur, c) = "none"
        BY <4>1, PhaseFree
      <4>3. QED
        BY <4>2 DEF Before
    <3>2. QED
      BY <3>1, Mapping
  <2>2. QED
    BY <2>1 DEF Promise!SInit, RInit
<1>4. EndInv /\ EndInv' /\ [RNext]_rvars => [Promise!SNext]_Promise!svars
  <2>1. SUFFICES ASSUME EndInv, EndInv', [RNext]_rvars
                 PROVE  MenuStep
    BY DEF MenuStep
  <2>2. CASE UNCHANGED rvars
    <3>1. UNCHANGED <<clients, pc, job, cur, db, raced>>
      BY <2>2 DEF vars, rvars
    <3>2. \A c \in Calls : After(c) = Before(c)
      BY <3>1 DEF After, Before
    <3>3. QED
      BY <3>1, <3>2, Stutters
  <2>3. CASE RNext /\ \E w \in Workers : Work(w)
    BY <2>1, <2>3, WorkRefines DEF RNext
  <2>4. CASE RNext /\ \E d \in Calls : Line(d) \/ RouterStep(d) \/ PromptEnds(d) \/ ChannelDestroyed(d)
    <3>1. raced' = raced
      BY <2>4, CallWorkers, NoRace DEF RNext
    <3>2. QED
      BY <2>1, <2>4, <3>1, CallRefines
  <2>5. QED
    BY <2>1, <2>2, <2>3, <2>4 DEF RNext, Next
<1>5. QED
  BY <1>1, <1>2, <1>3, <1>4, PTL DEF RSpec, ImplementsSessions, Promise!SSpec
=============================================================================
