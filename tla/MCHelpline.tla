----------------------------- MODULE MCHelpline -----------------------------
(* Small instances of Helpline for TLC.                                    *)
EXTENDS Helpline, TLC

CONSTANTS c1, c2, w1, w2

OneCall == {c1}
TwoCalls == {c1, c2}
OneWorker == {w1}
TwoWorkers == {w1, w2}

Row1 == [number |-> <<49>>, creditcard |-> <<50>>]
Row0 == [number |-> <<>>, creditcard |-> <<49>>]
NoRows == {<<>>}
OneRow == {<<Row1>>}
TwoRows == {<<Row0, Row1>>}

\* A call that has reached the question for a uid (seven keys, of which the
\* last one of the card made it a support call), and all is quiet;
\* two numbers are registered.
AskedForUid ==
  [state |-> STATE_SUP_ID, buf |-> <<>>, number |-> <<>>, secret |-> <<>>,
   dumb |-> TRUE]

InitAtSupport ==
  /\ clients = [c \in Calls |-> AskedForUid]
  /\ db \in TwoRows
  /\ queue = <<>>
  /\ pc = [w \in Workers |-> "idle"]
  /\ job = [w \in Workers |-> Idle]
  /\ cur = [w \in Workers |-> NoSession]
  /\ newfile = [w \in Workers |-> "none"]
  /\ router = [c \in Calls |-> "done"]
  /\ chan = [c \in Calls |-> "up"]
  /\ playing = [c \in Calls |-> "plain"]
  /\ pressed = [c \in Calls |-> 2]
  /\ replies = {}
  /\ written = {<<db[u].number, db[u].creditcard>> : u \in DOMAIN db}

EitherSpec == (Init \/ InitAtSupport) /\ [][Next]_vars

WorkerSymmetry == Permutations(TwoWorkers)
CallSymmetry == Permutations(TwoCalls)

=============================================================================
