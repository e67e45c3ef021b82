--------------------------- MODULE HelplineSerial ---------------------------
(***************************************************************************)
(* What the helpline promises to a call whose session is used by one       *)
(* worker at a time, however many workers there are: conf.d-service's      *)
(* yate.conf starts one and lets the engine add others under load.         *)
(*                                                                         *)
(* The handler of a key works on a copy of the session without s_mutex.    *)
(* A call is recorded in raced when the session is copied or erased while  *)
(* another worker has such a copy, and the properties are about the calls  *)
(* that are not there; HelplineSessions says what may become of the rest.  *)
(* For the refinement a key takes its step when the switch has updated the *)
(* copy: until the copy is stored, it is the session.                      *)
(***************************************************************************)
EXTENDS Helpline

VARIABLE raced      \* history: the calls with such a race

rvars == <<vars, raced>>

\* A worker has a copy of c's session to store back.
HasCopy(w, c) == pc[w] \in {"switch", "attach", "store"} /\ job[w].call = c

\* It copies or erases the session in this step.
Enters(w, c) == /\ pc[w] \in {"chan.dtmf", "chan.notify", "chan.hangup"}
                /\ job[w].call = c
                /\ pc'[w] # pc[w]

Races == {c \in Calls : \E v, w \in Workers : HasCopy(v, c) /\ Enters(w, c)}

RInit == Init /\ raced = {}
RNext == Next /\ raced' = raced \cup Races
RSpec == RInit /\ [][RNext]_rvars
RFairSpec == RSpec /\ Fairness

-----------------------------------------------------------------------------
PhaseName(s) ==
  CASE s.state = STATE_SUPPORT  -> "support"
    [] s.state = STATE_SUP_ID   -> "sup_id"
    [] s.state = STATE_INIT     -> "init"
    [] s.state = STATE_HODL     -> "hodl"
    [] s.state = STATE_BUY      -> "buy"
    [] s.state = STATE_PHONE    -> "phone"
    [] s.state = STATE_KNOWN    -> "known"
    [] s.state = STATE_CREDIT   -> "credit"
    [] s.state = STATE_UPDATE   -> "update"
    [] s.state = STATE_CALLBACK -> "callback"
    [] s.state = STATE_BYE      -> "bye"
    [] OTHER                    -> "stray"

\* Workers that hold the session of call c after the switch.
Holders(c) == {w \in Workers : pc[w] \in {"attach", "store"} /\ job[w].call = c}

phase == [c \in Calls |->
            IF \E w \in Holders(c) : TRUE
            THEN PhaseName(cur[CHOOSE w \in Holders(c) : TRUE])
            ELSE IF clients[c] = NoSession THEN "none" ELSE PhaseName(clients[c])]

accounts == [n \in {db[u].number : u \in DOMAIN db} |->
               db[CHOOSE u \in DOMAIN db : db[u].number = n].creditcard]

Promise == INSTANCE HelplineSessions
             WITH Calls <- Calls, phase <- phase, accounts <- accounts, raced <- raced

\* Every key of a call is one step through the menu, and the accounts change
\* with that step only: nothing of the copying and storing back shows, on any
\* number of workers, unless a race of the call itself was recorded.
ImplementsSessions == Promise!SSpec

\* Nothing is left to be done for call c.
Settled(c) ==
  /\ chan[c] \in {"gone", "cancelled"}
  /\ \A i \in DOMAIN queue : queue[i].call # c
  /\ \A w \in Workers : job[w] # Idle => job[w].call # c

\* A caller who cancels before the call is routed has the hang-up handled before
\* the session is created.
MayStay(c) == IF chan[c] = "cancelled"
              THEN {FreshSession, [FreshSession EXCEPT !.dumb = TRUE]} ELSE {}

\* A call that is over leaves no session behind, or, if it was cancelled before
\* it was routed, the empty one it was given: a session outlives its call only
\* when a key of the call was being handled while its hang-up was.
NoLeftover ==
  \A c \in Calls : Settled(c) /\ c \notin raced => clients[c] \in MayStay(c) \cup {NoSession}

\* A caller told goodbye is disconnected: the end of the prompt finds the
\* session in state BYE and its dumb channel known, even if the file cannot
\* be opened, unless another worker looked at the session before it was stored.
SaysGoodbye(c) ==
  \E w \in Workers : /\ pc[w] = "attach" /\ job[w].call = c
                     /\ cur[w].state = STATE_BYE /\ newfile[w] # "loop"
GoodbyeEndsCall ==
  \A c \in Calls : SaysGoodbye(c) ~> (clients[c] = NoSession \/ c \in raced)

=============================================================================
