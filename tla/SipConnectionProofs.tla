----------------------- MODULE SipConnectionProofs -----------------------
(* Theorems about SipConnection, for any number of calls and any limit.    *)
EXTENDS SipConnection, TLAPS

-----------------------------------------------------------------------------
(***************************************************************************)
(* The timeouter by itself, for any number of calls and any limit.         *)
(***************************************************************************)

\* Records carry the time their call was connected, and what is being
\* dropped has been connected long enough.
RecordsMatch ==
  /\ \A p \in connections : started[p[2]] = p[1]
  /\ \A c \in dropping : started[c] # -1
  /\ lastExecute <= now
  /\ \A c \in Calls : started[c] <= lastExecute

TimeouterInv == /\ TimeouterTypeOK /\ RecordsMatch
                /\ NeverTooEarly /\ Remembered /\ RecordIsRecent

\* Only the post-hook records and drops.
LEMMA ExecuteKeeps ==
  ASSUME TimeouterInv, NEW c \in Calls, Execute(c)
  PROVE  TimeouterInv'
<1> USE LimitAssumption, TimeAssumption
<1> DEFINE recorded == connections \cup {<<now, c>>}
           overdue  == {p \in recorded : Overdue(p)}
<1>1. /\ connections' = recorded \ overdue
      /\ dropping' = dropping \cup {p[2] : p \in overdue}
      /\ up' = up /\ now' = now /\ lastExecute' = now
      /\ started' = [started EXCEPT ![c] = now] /\ started[c] = -1
  BY DEF Execute
<1>2. /\ now \in 0 .. MaxTime /\ started \in [Calls -> -1 .. MaxTime]
      /\ connections \subseteq (0 .. MaxTime) \X Calls
      /\ dropping \subseteq Calls /\ up \subseteq Calls
  BY DEF TimeouterInv, TimeouterTypeOK
<1>3. \A p \in recorded : p[1] \in 0 .. MaxTime /\ p[2] \in Calls /\ p = <<p[1], p[2]>>
  BY <1>2
<1>4. \A p \in recorded : started'[p[2]] = p[1]
  BY <1>1, <1>2, <1>3 DEF TimeouterInv, RecordsMatch
<1>5. TimeouterTypeOK'
  BY <1>1, <1>2, <1>3 DEF TimeouterTypeOK
<1>6. RecordsMatch'
  <2>1. \A d \in dropping' : started'[d] # -1
    BY <1>1, <1>2, <1>3, <1>4 DEF TimeouterInv, RecordsMatch
  <2>3. \A d \in Calls : started'[d] <= lastExecute'
    BY <1>1, <1>2 DEF TimeouterInv, RecordsMatch, TimeouterTypeOK
  <2>4. QED
    BY <1>1, <1>2, <1>4, <2>1, <2>3 DEF RecordsMatch
<1>7. NeverTooEarly'
  <2>1. ASSUME NEW d \in dropping' PROVE now' - started'[d] > Limit
    <3>1. CASE d \in dropping
      BY <1>1, <1>2, <3>1 DEF TimeouterInv, NeverTooEarly, RecordsMatch
    <3>2. CASE d \notin dropping
      <4>1. PICK p \in overdue : d = p[2]
        BY <1>1, <2>1, <3>2
      <4>2. now - p[1] > Limit /\ started'[d] = p[1]
        BY <1>4, <4>1 DEF Overdue, Age
      <4>3. QED
        BY <1>1, <4>2
    <3>3. QED
      BY <3>1, <3>2
  <2>2. QED
    BY <2>1 DEF NeverTooEarly
<1>8. Remembered'
  <2>1. ASSUME NEW d \in up', started'[d] # -1, d \notin dropping' PROVE <<started'[d], d>> \in connections'
    <3>1. <<started'[d], d>> \in recorded
      BY <1>1, <1>2, <2>1 DEF TimeouterInv, Remembered, RecordsMatch
    <3>2. <<started'[d], d>> \notin overdue
      BY <1>1, <2>1, <3>1
    <3>3. QED
      BY <1>1, <3>1, <3>2
  <2>2. QED
    BY <2>1 DEF Remembered
<1>9. RecordIsRecent'
  BY <1>1, <1>2, <1>3 DEF RecordIsRecent, Overdue, Age
<1>10. QED
  BY <1>5, <1>6, <1>7, <1>8, <1>9 DEF TimeouterInv

\* Every other step keeps the record as it is.
LEMMA TNextKeeps == ASSUME TimeouterInv, [TNext]_tvars PROVE TimeouterInv'
<1> USE LimitAssumption, TimeAssumption
<1>1. CASE Tick
  <2>1. NeverTooEarly'
    BY <1>1 DEF Tick, TimeouterInv, TimeouterTypeOK, NeverTooEarly
  <2>2. QED
    BY <1>1, <2>1 DEF Tick, TimeouterInv, TimeouterTypeOK, RecordsMatch, Remembered,
         RecordIsRecent
<1>2. ASSUME NEW c \in Calls, Execute(c) PROVE TimeouterInv'
  BY <1>2, ExecuteKeeps
<1>3. ASSUME NEW c \in Calls, Connect(c) \/ Drop(c) \/ Hangup(c) PROVE TimeouterInv'
  BY <1>3 DEF Connect, Drop, Hangup, TimeouterInv, TimeouterTypeOK, RecordsMatch, NeverTooEarly,
       Remembered, RecordIsRecent
<1>4. CASE UNCHANGED tvars
  BY <1>4 DEF tvars, TimeouterInv, TimeouterTypeOK, RecordsMatch, NeverTooEarly,
       Remembered, RecordIsRecent
<1>5. QED
  BY <1>1, <1>2, <1>3, <1>4 DEF TNext

\* Calls are dropped only when their time is up, and none is forgotten.
THEOREM TimeouterCorrect ==
  TSpec => [](TimeouterTypeOK /\ NeverTooEarly /\ Remembered /\ RecordIsRecent)
<1>1. TInit => TimeouterInv
  BY TimeAssumption DEF TInit, TimeouterInv, TimeouterTypeOK, RecordsMatch, NeverTooEarly,
     Remembered, RecordIsRecent
<1>2. TimeouterInv /\ [TNext]_tvars => TimeouterInv'
  BY TNextKeeps
<1>3. TimeouterInv => TimeouterTypeOK /\ NeverTooEarly /\ Remembered /\ RecordIsRecent
  BY DEF TimeouterInv
<1>4. QED
  BY <1>1, <1>2, <1>3, PTL DEF TSpec

\* No call is dropped before its time is up.
THEOREM NeverTooEarlyHolds == TSpec => []NeverTooEarly
BY TimeouterCorrect, PTL

-----------------------------------------------------------------------------
(***************************************************************************)
(* The calls of the SIP channel.                                           *)
(***************************************************************************)

(***************************************************************************)
(* The connection alone.  What is left of a dialog that was answered and   *)
(* that nobody has ended is enough for a BYE.                              *)
(***************************************************************************)
Consistent(k) ==
    /\ k \in Connection
    /\ k.hangups = IF k.hungup THEN 1 ELSE 0
    /\ k.tr = "process" => k.answers = <<>> /\ (k.left \/ k.byebye)
    /\ k.answers = <<200>> /\ ~ k.left /\ ~ k.bye =>
         k.byebye /\ k.state = "Established" /\ (k.tr = "final" \/ k.localTag)

ByeDue(k) == k.answers = <<200>> /\ ~ k.left /\ ~ k.bye
Finished(k) == k.tr # "process" => Len(k.answers) = 1

\* An answer to a transaction that waits for one is the first.
LEMMA AnswerIsFirst ==
  ASSUME NEW k, Consistent(k), k.tr = "process", NEW code \in Codes
  PROVE  /\ Append(k.answers, code) = <<code>>
         /\ Append(k.answers, code) \in Answers
<1>1. k.answers = <<>>
  BY DEF Consistent
<1>2. Append(k.answers, code) = <<code>>
  BY <1>1
<1>3. QED
  BY <1>2 DEF Answers

\* clearTransaction leaves the dialog fit for a BYE if one is due.
LEMMA ClearKeeps ==
  ASSUME NEW k, Consistent(k), Finished(k)
  PROVE  LET a == ClearTransaction(k)
         IN  /\ a \in Connection /\ a.tr = "none" /\ Len(a.answers) = 1
             /\ a.hungup = k.hungup /\ a.hangups = k.hangups /\ a.left = k.left
             /\ a.state = k.state /\ a.bye = k.bye
             /\ a.answers = <<200>> =>
                  /\ k.answers = <<200>> /\ a.byebye = k.byebye
                  /\ (k.tr = "final" /\ k.hungup) \/ k.localTag => a.localTag
<1>1. k \in Connection
  BY DEF Consistent
<1>2. CASE k.tr = "process"
  <2> DEFINE s == Append(k.answers, 487)
             f == [k EXCEPT !.tr = "final", !.answers = s]
  <2>1. 487 \in Codes /\ 200 # 487
    BY DEF Codes
  <2>2. s = <<487>> /\ s \in Answers
    BY <1>2, <2>1, AnswerIsFirst
  <2>3. ClearTransaction(k) = [f EXCEPT !.tr = "none", !.byebye = FALSE]
    BY <1>2 DEF ClearTransaction, SetResponse
  <2>4. s # <<200>> /\ Len(s) = 1 /\ s \in Answers
    BY <2>1, <2>2
  <2> HIDE DEF s
  <2> DEFINE a == ClearTransaction(k)
  <2>5. a \in Connection
    <3>1. f \in Connection
      BY <1>1, <2>4 DEF Connection
    <3> HIDE DEF f
    <3>2. [f EXCEPT !.tr = "none", !.byebye = FALSE] \in Connection
      BY <3>1 DEF Connection
    <3>3. QED
      BY <2>3, <3>2
  <2>6. a.tr = "none" /\ a.answers = s
    BY <1>1, <2>3 DEF Connection
  <2>7. /\ a.hungup = k.hungup /\ a.hangups = k.hangups /\ a.left = k.left
        /\ a.state = k.state /\ a.bye = k.bye
    BY <1>1, <2>3 DEF Connection
  <2> HIDE DEF a
  <2>8. /\ a \in Connection /\ a.tr = "none" /\ Len(a.answers) = 1 /\ a.answers # <<200>>
    BY <2>4, <2>5, <2>6
  <2>9. QED
    BY <2>7, <2>8 DEF a
<1>3. CASE k.tr # "process"
  <2> DEFINE g == k.localTag \/ (k.tr = "final" /\ k.hungup)
             a == [k EXCEPT !.tr = "none", !.localTag = g]
  <2>1. g \in BOOLEAN
    BY <1>1 DEF Connection
  <2>2. ClearTransaction(k) = a
    BY <1>1, <1>3 DEF ClearTransaction, Connection, Finished
  <2>3. (k.tr = "final" /\ k.hungup) \/ k.localTag => g
    OBVIOUS
  <2> HIDE DEF g
  <2>4. /\ a \in Connection /\ a.tr = "none" /\ a.localTag = g
        /\ a.answers = k.answers /\ a.byebye = k.byebye
        /\ a.hungup = k.hungup /\ a.hangups = k.hangups /\ a.left = k.left
        /\ a.state = k.state /\ a.bye = k.bye
    BY <1>1, <2>1 DEF Connection
  <2> HIDE DEF a
  <2>5. Len(k.answers) = 1
    BY <1>3 DEF Finished
  <2>6. QED
    BY <2>2, <2>3, <2>4, <2>5
<1>4. QED
  BY <1>2, <1>3

\* The end of a call that is marked leaves no BYE due.
LEMMA EndCallCloses ==
  ASSUME NEW k, Consistent(k), Finished(k), k.hungup
  PROVE  LET a == EndCall(k)
         IN  /\ Consistent(a) /\ a.tr = "none" /\ Len(a.answers) = 1 /\ a.hungup
             /\ a.left = k.left /\ ~ ByeDue(a)
<1> DEFINE cl == ClearTransaction(k)
<1>1. /\ cl \in Connection /\ cl.tr = "none" /\ Len(cl.answers) = 1
      /\ cl.hungup /\ cl.hangups = 1 /\ cl.left = k.left
      /\ cl.state = k.state /\ cl.bye = k.bye
      /\ cl.answers = <<200>> =>
           /\ k.answers = <<200>> /\ cl.byebye = k.byebye
           /\ (k.tr = "final" /\ k.hungup) \/ k.localTag => cl.localTag
  BY ClearKeeps DEF Consistent
<1>2. k \in Connection
  BY DEF Consistent
<1> HIDE DEF cl
<1>3. CASE k.state = "Incoming" /\ k.tr # "none"
  <2>1. EndCall(k) = cl
    BY <1>3 DEF EndCall, cl
  <2>2. ~ ByeDue(cl)
    BY <1>1, <1>3 DEF ByeDue, Consistent
  <2>3. QED
    BY <1>1, <2>1, <2>2 DEF Consistent, ByeDue
<1>4. CASE ~ (k.state = "Incoming" /\ k.tr # "none")
  <2> DEFINE a == [cl EXCEPT !.state = "Cleared", !.byebye = FALSE,
                             !.bye = @ \/ (cl.byebye /\ cl.localTag)]
  <2>1. EndCall(k) = a
    BY <1>4 DEF EndCall, cl
  <2>2. a \in Connection /\ a.tr = "none" /\ a.answers = cl.answers /\ a.hungup
        /\ a.hangups = 1 /\ a.left = k.left /\ a.bye = (cl.bye \/ (cl.byebye /\ cl.localTag))
    BY <1>1 DEF Connection
  <2>3. ~ ByeDue(a)
    <3>1. a.answers = <<200>> /\ ~ k.left /\ ~ k.bye => cl.byebye /\ cl.localTag
      BY <1>1, <2>2 DEF Consistent
    <3>2. QED
      BY <1>1, <2>2, <3>1 DEF ByeDue
  <2> HIDE DEF a
  <2>4. QED
    BY <1>1, <2>1, <2>2, <2>3 DEF Consistent, ByeDue
<1>5. QED
  BY <1>3, <1>4

\* Marking a call counts its hang-up.
LEMMA MarkCounts ==
  ASSUME NEW k, Consistent(k), ~ k.hungup
  PROVE  LET a == Marked(k)
         IN  /\ Consistent(a) /\ a.hungup /\ a.left = k.left /\ a.tr = k.tr
             /\ a.answers = k.answers
<1>1. k \in Connection /\ k.hangups = 0
  BY DEF Consistent
<1>2. Marked(k) = [k EXCEPT !.hungup = TRUE, !.hangups = 1]
  BY <1>1 DEF Marked
<1>3. [k EXCEPT !.hungup = TRUE, !.hangups = 1] \in Connection
  BY <1>1 DEF Connection
<1>4. QED
  BY <1>1, <1>2, <1>3 DEF Consistent, Connection


\* An answer to a call that is not hung up leaves a dialog fit for a BYE.
LEMMA AnswerKeeps ==
  ASSUME NEW k, Consistent(k), ~ k.hungup
  PROVE  LET a == [SetResponse(k, 200) EXCEPT !.state = "Established"]
         IN  /\ Consistent(a) /\ ~ a.hungup /\ a.left = k.left
             /\ a.tr # "process" /\ (Finished(k) => Finished(a))
<1>1. k \in Connection
  BY DEF Consistent
<1>2. CASE k.tr = "process"
  <2> DEFINE s == Append(k.answers, 200)
             a == [k EXCEPT !.tr = "final", !.answers = s, !.state = "Established"]
  <2>1. s = <<200>> /\ s \in Answers
    BY <1>2, AnswerIsFirst DEF Codes
  <2>2. [SetResponse(k, 200) EXCEPT !.state = "Established"] = a
    BY <1>1, <1>2 DEF SetResponse, Connection
  <2>3. Len(s) = 1 /\ s \in Answers
    BY <2>1
  <2> HIDE DEF s
  <2>4. a \in Connection /\ a.tr = "final" /\ a.answers = s /\ a.state = "Established"
    BY <1>1, <2>3 DEF Connection
  <2>5. /\ a.hungup = k.hungup /\ a.hangups = k.hangups /\ a.left = k.left
        /\ a.bye = k.bye /\ a.byebye = k.byebye
    BY <1>1 DEF Connection
  <2> HIDE DEF a
  <2>6. k.left \/ k.byebye
    BY <1>2 DEF Consistent
  <2>7. Consistent(a)
    BY <2>4, <2>5, <2>6 DEF Consistent
  <2>8. QED
    BY <2>2, <2>3, <2>4, <2>5, <2>7 DEF Finished
<1>3. CASE k.tr # "process"
  <2> DEFINE a == [k EXCEPT !.state = "Established"]
  <2>1. [SetResponse(k, 200) EXCEPT !.state = "Established"] = a
    BY <1>3 DEF SetResponse
  <2>2. a \in Connection /\ a.state = "Established"
    BY <1>1 DEF Connection
  <2>3. /\ a.hungup = k.hungup /\ a.hangups = k.hangups /\ a.left = k.left /\ a.tr = k.tr
        /\ a.bye = k.bye /\ a.byebye = k.byebye /\ a.localTag = k.localTag
        /\ a.answers = k.answers
    BY <1>1 DEF Connection
  <2> HIDE DEF a
  <2>4. Consistent(a)
    BY <1>3, <2>2, <2>3 DEF Consistent
  <2>5. QED
    BY <1>3, <2>1, <2>2, <2>3, <2>4 DEF Finished
<1>4. QED
  BY <1>2, <1>3

\* A refusal leaves no BYE due that was not due before.
LEMMA RejectKeeps ==
  ASSUME NEW k, Consistent(k)
  PROVE  LET a == SetResponse(k, 500)
         IN  /\ Consistent(a) /\ a.hungup = k.hungup /\ a.left = k.left
             /\ (Finished(k) => Finished(a)) /\ (ByeDue(a) => ByeDue(k))
<1>1. k \in Connection
  BY DEF Consistent
<1>2. CASE k.tr = "process"
  <2> DEFINE s == Append(k.answers, 500)
             a == [k EXCEPT !.tr = "final", !.answers = s]
  <2>1. 500 \in Codes /\ 500 # 200
    BY DEF Codes
  <2>2. s = <<500>> /\ s \in Answers
    BY <1>2, <2>1, AnswerIsFirst
  <2>3. SetResponse(k, 500) = a
    BY <1>2 DEF SetResponse
  <2>4. s \in Answers /\ s # <<200>>
    BY <2>1, <2>2
  <2> HIDE DEF s
  <2>5. Len(s) = 1
    BY <2>2
  <2>6. a \in Connection /\ a.tr = "final" /\ a.answers = s
    BY <1>1, <2>4 DEF Connection
  <2>7. a.hungup = k.hungup /\ a.hangups = k.hangups /\ a.left = k.left
    BY <1>1 DEF Connection
  <2> HIDE DEF a
  <2>8. QED
    BY <2>3, <2>4, <2>5, <2>6, <2>7 DEF Consistent, Finished, ByeDue
<1>3. CASE k.tr # "process"
  BY <1>3 DEF SetResponse
<1>4. QED
  BY <1>2, <1>3

\* The caller's CANCEL or BYE takes the BYE from us.
LEMMA LeavingKeeps ==
  ASSUME NEW k, Consistent(k)
  PROVE  LET a == [k EXCEPT !.byebye = FALSE, !.left = TRUE]
         IN  /\ Consistent(a) /\ a.left /\ a.hungup = k.hungup /\ a.tr = k.tr
             /\ a.answers = k.answers
BY DEF Consistent, Connection

\* The end of the INVITE's transaction leaves the tags of the dialog.
LEMMA AckKeeps ==
  ASSUME NEW k, Consistent(k), k.tr = "final"
  PROVE  LET a == [k EXCEPT !.tr = "none", !.localTag = TRUE]
         IN  /\ Consistent(a) /\ a.hungup = k.hungup /\ a.left = k.left
             /\ a.tr = "none" /\ a.answers = k.answers /\ (ByeDue(a) => ByeDue(k))
BY DEF Consistent, Connection, ByeDue

(***************************************************************************)
(* One call.                                                               *)
(***************************************************************************)
CallInv(c) ==
    /\ Consistent(conn[c])
    /\ route[c] = "idle" => c \notin up /\ c \notin ending /\ c \notin freed /\ network[c] = "idle"
    /\ route[c] # "idle" => Finished(conn[c])
    /\ network[c] = "clear" => conn[c].left
    /\ network[c] = "end" => conn[c].hungup
    /\ conn[c].hungup /\ network[c] # "end" => ~ ByeDue(conn[c])
    /\ c \in freed => /\ route[c] = "done" /\ network[c] = "idle"
                      /\ c \notin up /\ c \notin ending
                      /\ conn[c].hungup /\ conn[c].tr = "none"

SipInv == /\ conn \in [Calls -> Connection]
          /\ route \in [Calls -> RouteSteps] /\ network \in [Calls -> NetworkSteps]
          /\ \A c \in Calls : CallInv(c)

Same(d) == /\ conn'[d] = conn[d] /\ route'[d] = route[d] /\ network'[d] = network[d]
           /\ d \in up' <=> d \in up
           /\ d \in ending' <=> d \in ending
           /\ d \in freed' <=> d \in freed

\* A step of one call leaves the others alone.
LEMMA OthersKeep ==
  ASSUME SipInv, NEW c \in Calls, CallInv(c)',
         conn' \in [Calls -> Connection],
         route' \in [Calls -> RouteSteps], network' \in [Calls -> NetworkSteps],
         \A d \in Calls \ {c} : Same(d)
  PROVE  SipInv'
<1>1. ASSUME NEW d \in Calls, d # c PROVE CallInv(d)'
  BY <1>1 DEF SipInv, CallInv, Same
<1>2. QED
  BY <1>1 DEF SipInv

\* The Router thread.
LEMMA RouterKeeps == ASSUME SipInv, NEW c \in Calls, Router(c) PROVE SipInv'
<1>1. CallInv(c) /\ Consistent(conn[c]) /\ conn[c] \in Connection
  BY DEF SipInv, CallInv, Consistent
<1>2. CASE Routed(c) \/ Leave(c)
  <2>1. CallInv(c)'
    BY <1>1, <1>2 DEF Routed, Leave, CallInv, SipInv, Goes, tvars
  <2>2. /\ conn' \in [Calls -> Connection]
        /\ route' \in [Calls -> RouteSteps] /\ network' \in [Calls -> NetworkSteps]
    BY <1>2 DEF RouteSteps, NetworkSteps, Routed, Leave, SipInv, Goes, tvars
  <2>3. ASSUME NEW d \in Calls \ {c} PROVE Same(d)
    BY <1>2, <2>3 DEF Routed, Leave, Goes, Same, tvars, SipInv
  <2>4. QED
    BY <2>1, <2>2, <2>3, OthersKeep
<1>3. CASE ConnectDumb(c)
  <2>1. CallInv(c)'
    BY <1>1, <1>3 DEF ConnectDumb, Connect, CallInv, SipInv, Goes
  <2>2. /\ conn' \in [Calls -> Connection]
        /\ route' \in [Calls -> RouteSteps] /\ network' \in [Calls -> NetworkSteps]
    BY <1>3 DEF RouteSteps, NetworkSteps, ConnectDumb, Connect, SipInv, Goes
  <2>3. ASSUME NEW d \in Calls \ {c} PROVE Same(d)
    BY <1>3, <2>3 DEF ConnectDumb, Connect, Goes, Same, SipInv
  <2>4. QED
    BY <2>1, <2>2, <2>3, OthersKeep
<1>4. CASE Reject(c)
  <2> DEFINE a == SetResponse(conn[c], 500)
  <2>1. /\ Consistent(a) /\ a.hungup = conn[c].hungup /\ a.left = conn[c].left
        /\ (Finished(conn[c]) => Finished(a)) /\ (ByeDue(a) => ByeDue(conn[c]))
    BY <1>1, RejectKeeps
  <2> HIDE DEF a
  <2>2. conn' = [conn EXCEPT ![c] = a] /\ route' = [route EXCEPT ![c] = "leaving"]
        /\ UNCHANGED <<tvars, network, ending, freed>> /\ route[c] \in {"routing", "routed"}
    BY <1>4 DEF Reject, Becomes, Goes, a
  <2>3. CallInv(c)'
    BY <1>1, <2>1, <2>2 DEF CallInv, SipInv, tvars
  <2>4. /\ conn' \in [Calls -> Connection]
        /\ route' \in [Calls -> RouteSteps] /\ network' \in [Calls -> NetworkSteps]
    BY <2>1, <2>2 DEF RouteSteps, NetworkSteps, SipInv, tvars, Consistent
  <2>5. ASSUME NEW d \in Calls \ {c} PROVE Same(d)
    BY <2>1, <2>2, <2>5 DEF Same, tvars, SipInv
  <2>6. QED
    BY <2>3, <2>4, <2>5, OthersKeep
<1>5. CASE Answer(c)
  <2> DEFINE a == [SetResponse(conn[c], 200) EXCEPT !.state = "Established"]
  <2>1. CASE conn[c].hungup
    <3>1. CallInv(c)'
      BY <1>1, <1>5, <2>1 DEF Answer, CallInv, SipInv, Goes, tvars
    <3>2. /\ conn' \in [Calls -> Connection]
          /\ route' \in [Calls -> RouteSteps] /\ network' \in [Calls -> NetworkSteps]
      BY <1>5, <2>1 DEF RouteSteps, NetworkSteps, Answer, SipInv, Goes, tvars
    <3>3. ASSUME NEW d \in Calls \ {c} PROVE Same(d)
      BY <1>5, <2>1, <3>3 DEF Answer, Goes, Same, tvars, SipInv
    <3>4. QED
      BY <3>1, <3>2, <3>3, OthersKeep
  <2>2. CASE ~ conn[c].hungup
    <3>1. /\ Consistent(a) /\ ~ a.hungup /\ a.left = conn[c].left
          /\ (Finished(conn[c]) => Finished(a))
      BY <1>1, <2>2, AnswerKeeps
    <3>2. conn' = [conn EXCEPT ![c] = a] /\ route' = [route EXCEPT ![c] = "answered"]
          /\ UNCHANGED <<tvars, network, ending, freed>> /\ route[c] = "connected"
      BY <1>5, <2>2 DEF Answer, Goes
    <3> HIDE DEF a
    <3>3. CallInv(c)'
      BY <1>1, <2>2, <3>1, <3>2 DEF CallInv, SipInv, tvars
    <3>4. /\ conn' \in [Calls -> Connection]
          /\ route' \in [Calls -> RouteSteps] /\ network' \in [Calls -> NetworkSteps]
      BY <3>1, <3>2 DEF RouteSteps, NetworkSteps, SipInv, tvars, Consistent
    <3>5. ASSUME NEW d \in Calls \ {c} PROVE Same(d)
      BY <3>1, <3>2, <3>5 DEF Same, tvars, SipInv
    <3>6. QED
      BY <3>3, <3>4, <3>5, OthersKeep
  <2>3. QED
    BY <2>1, <2>2
<1>6. CASE Record(c)
  BY <1>6 DEF Record, Execute, svars, SipInv, CallInv
<1>7. QED
  BY <1>2, <1>3, <1>4, <1>5, <1>6 DEF Router

\* What a step has to show when it changes one call.
LEMMA OneCallKeeps ==
  ASSUME SipInv, NEW c \in Calls, NEW k \in Connection,
         NEW r \in RouteSteps, NEW n \in NetworkSteps,
         conn' = [conn EXCEPT ![c] = k],
         route' = [route EXCEPT ![c] = r], network' = [network EXCEPT ![c] = n],
         \A d \in Calls \ {c} : /\ d \in up' <=> d \in up
                                /\ d \in ending' <=> d \in ending
                                /\ d \in freed' <=> d \in freed,
         CallInv(c)'
  PROVE  SipInv'
<1>1. /\ conn' \in [Calls -> Connection]
      /\ route' \in [Calls -> RouteSteps] /\ network' \in [Calls -> NetworkSteps]
  BY DEF SipInv
<1>2. ASSUME NEW d \in Calls \ {c} PROVE Same(d)
  BY <1>2 DEF Same, SipInv
<1>3. QED
  BY <1>1, <1>2, OthersKeep

\* What the caller sends, and the end of the INVITE's transaction.
LEMMA CallerKeeps == ASSUME SipInv, NEW c \in Calls, Caller(c) PROVE SipInv'
<1>1. /\ CallInv(c) /\ Consistent(conn[c]) /\ conn[c] \in Connection
      /\ conn \in [Calls -> Connection] /\ route \in [Calls -> RouteSteps]
      /\ network \in [Calls -> NetworkSteps]
  BY DEF SipInv, CallInv, Consistent
<1>2. "routing" \in RouteSteps /\ {"idle", "clear", "hangup", "end"} \subseteq NetworkSteps
  BY DEF RouteSteps, NetworkSteps
<1>3. CASE Invite(c)
  <2>1. NewConnection \in Connection /\ Consistent(NewConnection)
    BY DEF NewConnection, Connection, Consistent, Answers
  <2>2. /\ ~ NewConnection.hungup /\ NewConnection.tr = "process"
    BY DEF NewConnection
  <2>3. /\ conn' = [conn EXCEPT ![c] = NewConnection]
        /\ route' = [route EXCEPT ![c] = "routing"] /\ network' = network
        /\ UNCHANGED <<tvars, ending, freed>> /\ route[c] = "idle"
    BY <1>3 DEF Invite, Becomes, Goes
  <2>4. CallInv(c)'
    BY <1>1, <2>1, <2>2, <2>3 DEF CallInv, Finished, tvars
  <2>5. network' = [network EXCEPT ![c] = network[c]] /\ network[c] \in NetworkSteps
    BY <1>1, <2>3
  <2>6. QED
    BY <1>2, <2>1, <2>3, <2>4, <2>5, OneCallKeeps DEF tvars
<1>4. CASE Cancel(c) \/ Bye(c)
  <2> DEFINE a == [conn[c] EXCEPT !.byebye = FALSE, !.left = TRUE]
  <2>1. /\ Consistent(a) /\ a.left /\ a.hungup = conn[c].hungup /\ a.tr = conn[c].tr
        /\ a.answers = conn[c].answers
    BY <1>1, LeavingKeeps
  <2>2. a \in Connection
    BY <2>1 DEF Consistent
  <2> HIDE DEF a
  <2>3. PICK n \in {"clear", "hangup"} :
          /\ conn' = [conn EXCEPT ![c] = a] /\ network' = [network EXCEPT ![c] = n]
          /\ route' = route /\ UNCHANGED <<tvars, ending, freed>>
    BY <1>4 DEF Cancel, Bye, Becomes, Continues, a
  <2>4. Referenced(c)
    BY <1>4 DEF Cancel, Bye
  <2>5. CallInv(c)'
    BY <1>1, <2>1, <2>3, <2>4 DEF CallInv, Finished, ByeDue, Referenced, tvars
  <2>6. route' = [route EXCEPT ![c] = route[c]] /\ route[c] \in RouteSteps /\ n \in NetworkSteps
    BY <1>1, <1>2, <2>3
  <2>7. QED
    BY <2>2, <2>3, <2>5, <2>6, OneCallKeeps DEF tvars
<1>5. CASE Ack(c)
  <2> DEFINE a == [conn[c] EXCEPT !.tr = "none", !.localTag = TRUE]
             n == IF conn[c].state = "Established" THEN "idle" ELSE "hangup"
  <2>1. conn[c].tr = "final" /\ Referenced(c) /\ network[c] = "idle"
    BY <1>5 DEF Ack, NetworkIdle
  <2>2. /\ Consistent(a) /\ a.hungup = conn[c].hungup /\ a.left = conn[c].left
        /\ a.tr = "none" /\ a.answers = conn[c].answers /\ (ByeDue(a) => ByeDue(conn[c]))
    BY <1>1, <2>1, AckKeeps
  <2>3. a \in Connection
    BY <2>2 DEF Consistent
  <2> HIDE DEF a
  <2>4. /\ conn' = [conn EXCEPT ![c] = a] /\ network' = [network EXCEPT ![c] = n]
        /\ route' = route /\ UNCHANGED <<tvars, ending, freed>>
    BY <1>5 DEF Ack, Becomes, Continues, a
  <2>5. n \in {"idle", "hangup"}
    OBVIOUS
  <2> HIDE DEF n
  <2>6. CallInv(c)'
    BY <1>1, <2>1, <2>2, <2>4, <2>5 DEF CallInv, Finished, Referenced, tvars
  <2>7. route' = [route EXCEPT ![c] = route[c]] /\ route[c] \in RouteSteps /\ n \in NetworkSteps
    BY <1>1, <1>2, <2>4, <2>5
  <2>8. QED
    BY <2>3, <2>4, <2>6, <2>7, OneCallKeeps DEF tvars
<1>6. CASE NoAck(c)
  <2>1. /\ Referenced(c) /\ network[c] = "idle"
        /\ conn' = conn /\ network' = [network EXCEPT ![c] = "hangup"]
        /\ route' = route /\ UNCHANGED <<tvars, ending, freed>>
    BY <1>6 DEF NoAck, Continues, NetworkIdle
  <2>2. CallInv(c)'
    BY <1>1, <2>1 DEF CallInv, Referenced, tvars
  <2>3. /\ route' = [route EXCEPT ![c] = route[c]] /\ route[c] \in RouteSteps
        /\ conn' = [conn EXCEPT ![c] = conn[c]]
    BY <1>1, <2>1
  <2>4. QED
    BY <1>1, <1>2, <2>1, <2>2, <2>3, OneCallKeeps DEF tvars
<1>7. QED
  BY <1>3, <1>4, <1>5, <1>6 DEF Caller

\* hangup, and what doCancel does before it.
LEMMA NetworkKeeps == ASSUME SipInv, NEW c \in Calls, Network(c) PROVE SipInv'
<1>1. /\ CallInv(c) /\ Consistent(conn[c]) /\ conn[c] \in Connection
      /\ conn \in [Calls -> Connection] /\ route \in [Calls -> RouteSteps]
      /\ network \in [Calls -> NetworkSteps]
  BY DEF SipInv, CallInv, Consistent
<1>2. {"idle", "clear", "hangup", "end"} \subseteq NetworkSteps
  BY DEF NetworkSteps
<1>3. network[c] # "idle" /\ route' = route /\ ending' = ending /\ freed' = freed
  BY DEF Network, Clear, MarkHungUp, End
<1>4. route[c] # "idle" /\ c \notin freed /\ Finished(conn[c])
  BY <1>1, <1>3 DEF CallInv
<1>5. route' = [route EXCEPT ![c] = route[c]] /\ route[c] \in RouteSteps
  BY <1>1, <1>3
<1>6. ASSUME NEW d \in Calls \ {c} PROVE d \in up' <=> d \in up
  BY <1>6 DEF Network, Clear, MarkHungUp, End, Unlink, Hangup, tvars
<1>7. CASE Clear(c)
  <2> DEFINE a == ClearTransaction(conn[c])
  <2>1. /\ a \in Connection /\ a.tr = "none" /\ Len(a.answers) = 1
        /\ a.hungup = conn[c].hungup /\ a.hangups = conn[c].hangups /\ a.left = conn[c].left
    BY <1>1, <1>4, ClearKeeps
  <2> HIDE DEF a
  <2>2. /\ conn' = [conn EXCEPT ![c] = a] /\ network' = [network EXCEPT ![c] = "hangup"]
        /\ conn[c].left
    BY <1>1, <1>7 DEF Clear, Becomes, Continues, CallInv, a
  <2>3. Consistent(a) /\ ~ ByeDue(a)
    BY <1>1, <2>1, <2>2 DEF Consistent, ByeDue
  <2>4. CallInv(c)'
    BY <1>1, <1>3, <1>4, <2>1, <2>2, <2>3 DEF CallInv, Finished
  <2>5. QED
    BY <1>2, <1>3, <1>5, <1>6, <2>1, <2>2, <2>4, OneCallKeeps
<1>8. CASE MarkHungUp(c)
  <2>1. CASE conn[c].hungup
    <3>1. /\ conn' = [conn EXCEPT ![c] = conn[c]] /\ network' = [network EXCEPT ![c] = "idle"]
          /\ conn' = conn /\ network[c] = "hangup"
      BY <1>1, <1>8, <2>1 DEF MarkHungUp, Continues
    <3>2. CallInv(c)'
      BY <1>1, <1>3, <1>4, <3>1 DEF CallInv
    <3>3. QED
      BY <1>1, <1>2, <1>3, <1>5, <1>6, <3>1, <3>2, OneCallKeeps
  <2>2. CASE ~ conn[c].hungup
    <3> DEFINE a == Marked(conn[c])
    <3>1. /\ Consistent(a) /\ a.hungup /\ a.left = conn[c].left /\ a.tr = conn[c].tr
          /\ a.answers = conn[c].answers
      BY <1>1, <2>2, MarkCounts
    <3> HIDE DEF a
    <3>2. /\ conn' = [conn EXCEPT ![c] = a] /\ network' = [network EXCEPT ![c] = "end"]
      BY <1>8, <2>2 DEF MarkHungUp, Becomes, Continues, a
    <3>3. CallInv(c)'
      BY <1>1, <1>3, <1>4, <3>1, <3>2 DEF CallInv, Finished
    <3>4. a \in Connection
      BY <3>1 DEF Consistent
    <3>5. QED
      BY <1>2, <1>3, <1>5, <1>6, <3>2, <3>3, <3>4, OneCallKeeps
  <2>3. QED
    BY <2>1, <2>2
<1>9. CASE End(c)
  <2> DEFINE a == EndCall(conn[c])
  <2>1. conn[c].hungup
    BY <1>1, <1>9 DEF End, CallInv
  <2>2. /\ Consistent(a) /\ a.tr = "none" /\ Len(a.answers) = 1 /\ a.hungup
        /\ a.left = conn[c].left /\ ~ ByeDue(a)
    BY <1>1, <1>4, <2>1, EndCallCloses
  <2> HIDE DEF a
  <2>3. /\ conn' = [conn EXCEPT ![c] = a] /\ network' = [network EXCEPT ![c] = "idle"]
    BY <1>9 DEF End, Becomes, Continues, a
  <2>4. CallInv(c)'
    BY <1>1, <1>3, <1>4, <2>2, <2>3 DEF CallInv, Finished
  <2>5. a \in Connection
    BY <2>2 DEF Consistent
  <2>6. QED
    BY <1>2, <1>3, <1>5, <1>6, <2>3, <2>4, <2>5, OneCallKeeps
<1>10. QED
  BY <1>7, <1>8, <1>9 DEF Network

\* The other side, the workers and the end of a channel.
LEMMA WorkerKeeps ==
  ASSUME SipInv, NEW c \in Calls, PeerEnds(c) \/ Worker(c)
  PROVE  SipInv'
<1>1. /\ CallInv(c) /\ Consistent(conn[c]) /\ conn[c] \in Connection
      /\ conn \in [Calls -> Connection] /\ route \in [Calls -> RouteSteps]
      /\ network \in [Calls -> NetworkSteps]
  BY DEF SipInv, CallInv, Consistent
<1>2. CASE PeerEnds(c)
  BY <1>2 DEF PeerEnds, Hangup, SipInv, CallInv
<1>3. CASE Disconnected(c)
  BY <1>3 DEF Disconnected, tvars, SipInv, CallInv
<1>4. CASE DropCall(c)
  BY <1>4 DEF DropCall, Drop, svars, SipInv, CallInv
<1>5. CASE Destroy(c)
  <2> DEFINE e == IF conn[c].hungup THEN conn[c] ELSE EndCall(Marked(conn[c]))
             a == ClearTransaction(e)
  <2>1. /\ route[c] = "done" /\ ~ Referenced(c) /\ network' = network /\ route' = route
        /\ conn' = [conn EXCEPT ![c] = a] /\ freed' = freed \cup {c}
        /\ ending' = ending /\ up' = up
    BY <1>5 DEF Destroy, Becomes, tvars
  <2>2. /\ network[c] = "idle" /\ c \notin up /\ c \notin ending /\ Finished(conn[c])
    BY <1>1, <2>1 DEF Referenced, CallInv
  <2>3. Consistent(e) /\ Finished(e) /\ e.hungup /\ ~ ByeDue(e)
    <3>1. CASE conn[c].hungup
      BY <1>1, <2>2, <3>1 DEF CallInv
    <3>2. CASE ~ conn[c].hungup
      <4> DEFINE m == Marked(conn[c])
      <4>1. Consistent(m) /\ m.hungup /\ m.tr = conn[c].tr /\ m.answers = conn[c].answers
        BY <1>1, <3>2, MarkCounts
      <4>2. Finished(m)
        BY <2>2, <4>1 DEF Finished
      <4> HIDE DEF m
      <4>3. /\ Consistent(EndCall(m)) /\ Len(EndCall(m).answers) = 1 /\ EndCall(m).hungup
            /\ ~ ByeDue(EndCall(m))
        BY <4>1, <4>2, EndCallCloses
      <4>4. QED
        BY <3>2, <4>3 DEF Finished, m
    <3>3. QED
      BY <3>1, <3>2
  <2> HIDE DEF e
  <2>4. /\ a \in Connection /\ a.tr = "none" /\ Len(a.answers) = 1
        /\ a.hungup = e.hungup /\ a.hangups = e.hangups /\ a.left = e.left /\ a.bye = e.bye
        /\ a.answers = <<200>> => e.answers = <<200>>
    BY <2>3, ClearKeeps
  <2> HIDE DEF a
  <2>5. ~ ByeDue(a) /\ a.hungup
    BY <2>3, <2>4 DEF ByeDue
  <2>6. Consistent(a)
    BY <2>3, <2>4, <2>5 DEF Consistent, ByeDue
  <2>7. CallInv(c)'
    BY <1>1, <2>1, <2>2, <2>4, <2>5, <2>6 DEF CallInv, Finished
  <2>8. /\ route' = [route EXCEPT ![c] = route[c]] /\ route[c] \in RouteSteps
        /\ network' = [network EXCEPT ![c] = network[c]] /\ network[c] \in NetworkSteps
    BY <1>1, <2>1
  <2>9. QED
    BY <2>1, <2>4, <2>7, <2>8, OneCallKeeps
<1>6. QED
  BY <1>2, <1>3, <1>4, <1>5 DEF Worker

\* A call that has not begun has nothing to close.
LEMMA SipInitially == Init => SipInv
<1> SUFFICES ASSUME Init PROVE SipInv
  OBVIOUS
<1> DEFINE k == [NewConnection EXCEPT !.tr = "none"]
<1>1. NewConnection \in Connection
  BY DEF NewConnection, Connection, Answers
<1>2. /\ k \in Connection /\ k.tr = "none" /\ ~ k.hungup /\ k.hangups = 0
      /\ k.answers = <<>>
  BY <1>1 DEF NewConnection, Connection
<1>3. <<>> # <<200>>
  OBVIOUS
<1> HIDE DEF k
<1>4. Consistent(k)
  BY <1>2, <1>3 DEF Consistent
<1>5. conn = [c \in Calls |-> k]
  BY DEF Init, k
<1>6. QED
  BY <1>2, <1>4, <1>5 DEF Init, TInit, SipInv, CallInv, RouteSteps, NetworkSteps

\* Every step changes one call at most.
LEMMA SipInductive == SipInv /\ [Next]_vars => SipInv'
<1> SUFFICES ASSUME SipInv, [Next]_vars PROVE SipInv'
  OBVIOUS
<1>1. CASE Pass \/ UNCHANGED vars
  BY <1>1 DEF Pass, Tick, vars, tvars, svars, SipInv, CallInv
<1>2. CASE \E c \in Calls : Router(c) \/ Caller(c) \/ Network(c) \/ PeerEnds(c) \/ Worker(c)
  BY <1>2, RouterKeeps, CallerKeeps, NetworkKeeps, WorkerKeeps
<1>3. QED
  BY <1>1, <1>2 DEF Next

\* The session of a call is ended by one chan.hangup.
THEOREM HungUpOnceHolds == Spec => []HungUpOnce
<1>1. SipInv => HungUpOnce
  <2>1. ASSUME SipInv, NEW c \in Calls
        PROVE  conn[c].hangups <= 1 /\ (c \in freed => conn[c].hangups = 1)
    BY <2>1 DEF SipInv, CallInv, Consistent
  <2>2. QED
    BY <2>1 DEF HungUpOnce
<1>2. QED
  BY <1>1, SipInitially, SipInductive, PTL DEF Spec

\* The caller of a channel that is gone knows how its call ended.
THEOREM CallIsClosedHolds == Spec => []CallIsClosed
<1>1. SipInv => CallIsClosed
  <2>1. ASSUME SipInv, NEW c \in Calls, c \in freed
        PROVE  Len(conn[c].answers) = 1 /\ ~ ByeDue(conn[c])
    BY <2>1 DEF SipInv, CallInv, Finished
  <2>2. QED
    BY <2>1 DEF CallIsClosed, ByeDue
<1>2. QED
  BY <1>1, SipInitially, SipInductive, PTL DEF Spec

\* The calls of the SIP channel are calls as the timeouter sees them, so what
\* it promises holds of them.
THEOREM TimeouterImplemented == Spec => TSpec
<1>1. Init => TInit
  BY DEF Init
<1>2. [Next]_vars => [TNext]_tvars
  BY DEF Next, Pass, Router, Routed, ConnectDumb, Reject, Answer, Record, Leave,
     Caller, Invite, Cancel, Bye, Ack, NoAck, Network, Clear, MarkHungUp, End, Unlink,
     Worker, PeerEnds, Disconnected, DropCall, Destroy, TNext, vars
<1>3. QED
  BY <1>1, <1>2, PTL DEF Spec, TSpec

\* No call is dropped early or forgotten, whatever the SIP channel does.
THEOREM SipCallsAreTimed == Spec => [](NeverTooEarly /\ Remembered)
BY TimeouterImplemented, TimeouterCorrect, PTL

\* Messages refer to calls, and calls are what is destroyed.
LEMMA NamesAreCalls ==
  ASSUME ending \subseteq Calls, freed \subseteq Calls, [Next]_vars
  PROVE  ending' \subseteq Calls /\ freed' \subseteq Calls
<1>1. CASE Pass \/ UNCHANGED vars
  BY <1>1 DEF Pass, vars, svars
<1>2. ASSUME NEW c \in Calls, Router(c) \/ Caller(c) \/ Network(c) \/ PeerEnds(c) \/ Worker(c)
      PROVE  ending' \subseteq ending \cup {c} /\ freed' \subseteq freed \cup {c}
  BY <1>2 DEF Router, Routed, ConnectDumb, Reject, Answer, Record, Leave, svars,
     Caller, Invite, Cancel, Bye, Ack, NoAck, Network, Clear, MarkHungUp, End,
     Worker, PeerEnds, Disconnected, DropCall, Destroy
<1>3. QED
  BY <1>1, <1>2 DEF Next

\* Every variable of the SIP channel and of the timeouter keeps its type: a
\* call's transaction, state and answers are those hangup is written for.
THEOREM SipTypeCorrect == Spec => []TypeOK
<1> DEFINE Named == ending \subseteq Calls /\ freed \subseteq Calls
<1>1. Spec => []TimeouterTypeOK
  BY TimeouterImplemented, TimeouterCorrect, PTL
<1>2. Init => SipInv /\ Named
  BY SipInitially DEF Init
<1>3. SipInv /\ Named /\ [Next]_vars => (SipInv /\ Named)'
  BY SipInductive, NamesAreCalls
<1>4. Spec => [](SipInv /\ Named)
  BY <1>2, <1>3, PTL DEF Spec
<1>5. TimeouterTypeOK /\ SipInv /\ Named => TypeOK
  BY DEF TypeOK, SipInv
<1>6. QED
  BY <1>1, <1>4, <1>5, PTL
=============================================================================
