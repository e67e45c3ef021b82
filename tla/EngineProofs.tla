---------------------------- MODULE EngineProofs ----------------------------
(***************************************************************************)
(* Theorems about EngineLoop and the queue it uses, for any messages,      *)
(* nodes and workers, any limits of the pool, and handlers that wait for   *)
(* any other messages.                                                     *)
(***************************************************************************)
EXTENDS EngineLoop, FiniteSetTheorems, SequenceTheorems, TLAPS

ListNode == [id : Nodes, obj : Msgs \cup {Null}]

\* The list of messages: its first node is the root, and only that one may be
\* empty; no node is in it twice, and the cached node is in it.
ListOK ==
    /\ messages \in Seq(ListNode)
    /\ Len(messages) >= 1
    /\ messages[1].id = Root
    /\ messages[1].obj = Null => Len(messages) = 1
    /\ \A i \in DOMAIN messages : i > 1 => messages[i].obj # Null
    /\ \A i, j \in DOMAIN messages : messages[i].id = messages[j].id => i = j
    /\ msgAppend \in NodesOf(messages)

QueueInv ==
    /\ TypeOK
    /\ ListOK
    /\ sent \in Seq(Msgs) /\ taken \in Seq(Msgs)
    /\ FirstInFirstOut

-----------------------------------------------------------------------------
(* The list *)

\* A node is written and read as it is.
LEMMA NodeType ==
    ASSUME NEW n \in Nodes, NEW o \in Msgs \cup {Null}
    PROVE  Node(n, o) \in ListNode /\ Node(n, o).id = n /\ Node(n, o).obj = o
BY DEF Node, ListNode

\* A message appended to the empty list fills its root.
LEMMA FilledRoot ==
    ASSUME ListOK, NEW m \in Msgs, AppendEntry(m), QueueEmpty
    PROVE  messages' = <<Node(Root, m)>> /\ msgAppend' = Root
<1>1. Len(messages) = 1 /\ Last(messages) = messages[1]
  BY DEF ListOK, QueueEmpty, Last
<1>2. msgAppend' = Root
  BY <1>1 DEF AppendEntry, NodeForAppend, QueueEmpty, ListOK
<1>3. messages' = Append(Front(messages), Node(Root, m))
  BY <1>1, <1>2 DEF AppendEntry, AppendAt, ListOK
<1>4. Front(messages) = <<>>
  BY <1>1, SubSeqEmpty DEF Front
<1>5. QED
  BY <1>2, <1>3, <1>4

\* A message appended to another list comes behind it, in a node that is new.
LEMMA Lengthened ==
    ASSUME ListOK, NEW m \in Msgs, AppendEntry(m), ~ QueueEmpty
    PROVE  /\ msgAppend' \in Nodes \ NodesOf(messages)
           /\ messages' = Append(messages, Node(msgAppend', m))
<1>1. Last(messages) = messages[Len(messages)] /\ Len(messages) \in DOMAIN messages
  BY DEF ListOK, Last
<1>2. Last(messages).obj # Null
  BY <1>1 DEF ListOK, QueueEmpty
<1>3. msgAppend' \in Nodes \ NodesOf(messages)
  BY <1>2 DEF AppendEntry, NodeForAppend, FreeNodes
<1>4. msgAppend' # Last(messages).id
  BY <1>1, <1>3 DEF NodesOf
<1>5. QED
  BY <1>3, <1>4 DEF AppendEntry, AppendAt, ListOK

\* The entries that wait, one by one.
LEMMA WaitingType ==
    ASSUME ListOK
    PROVE  /\ Waiting \in Seq(Msgs)
           /\ QueueEmpty => Waiting = <<>>
           /\ ~ QueueEmpty => /\ Len(Waiting) = Len(messages)
                              /\ \A i \in DOMAIN messages : Waiting[i] = messages[i].obj
<1>1. CASE QueueEmpty
  BY <1>1 DEF Waiting, QueueEmpty
<1>2. CASE ~ QueueEmpty
  <2>1. Waiting = [i \in 1 .. Len(messages) |-> messages[i].obj]
    BY <1>2 DEF Waiting, QueueEmpty, ListOK
  <2>2. ASSUME NEW i \in 1 .. Len(messages)
        PROVE  messages[i].obj \in Msgs
    <3>1. messages[i] \in ListNode
      BY DEF ListOK
    <3>2. messages[i].obj # Null
      BY <1>2 DEF ListOK, QueueEmpty
    <3>3. QED
      BY <3>1, <3>2 DEF ListNode
  <2>3. QED
    BY <1>2, <2>1, <2>2, IsASeq DEF ListOK
<1>3. QED
  BY <1>1, <1>2

\* enqueue keeps the list in shape and puts the message behind the others.
LEMMA AppendKeeps ==
    ASSUME ListOK, NEW m \in Msgs, AppendEntry(m)
    PROVE  ListOK' /\ Waiting' = Append(Waiting, m)
<1>0. Null \notin Msgs /\ Root \in Nodes
  BY MsgsAssumption, RootAssumption
<1>1. CASE QueueEmpty
  <2>1. messages' = <<Node(Root, m)>> /\ msgAppend' = Root
    BY <1>1, FilledRoot
  <2>2. /\ Node(Root, m) \in ListNode
        /\ Node(Root, m).id = Root /\ Node(Root, m).obj = m
    BY <1>0, NodeType
  <2>3. ListOK'
    BY <1>0, <2>1, <2>2 DEF ListOK, NodesOf
  <2>4. Waiting' = <<m>>
    BY <1>0, <2>1, <2>2 DEF Waiting
  <2>5. Waiting = <<>>
    BY <1>1, WaitingType
  <2>6. QED
    BY <2>3, <2>4, <2>5
<1>2. CASE ~ QueueEmpty
  <2> DEFINE l == Len(messages)
  <2>1. PICK n \in Nodes \ NodesOf(messages) :
          n = msgAppend' /\ messages' = Append(messages, Node(n, m))
    BY <1>2, Lengthened
  <2>2. /\ Node(n, m) \in ListNode
        /\ Node(n, m).id = n /\ Node(n, m).obj = m
    BY NodeType
  <2>3. /\ messages' \in Seq(ListNode)
        /\ Len(messages') = l + 1
        /\ \A i \in 1 .. l : messages'[i] = messages[i]
        /\ messages'[l + 1] = Node(n, m)
    BY <2>1, <2>2, AppendProperties DEF ListOK
  <2>4. \A i \in 1 .. l : messages[i].id # n
    BY <2>1 DEF NodesOf, ListOK
  <2>5. ListOK'
    <3>1. DOMAIN messages = 1 .. l /\ DOMAIN messages' = 1 .. l + 1 /\ l \in Nat /\ l >= 1
      BY <2>3 DEF ListOK
    <3>2. messages'[1] = messages[1] /\ messages[1].obj # Null
      BY <1>2, <2>3, <3>1 DEF QueueEmpty
    <3>3. \A i \in 1 .. l + 1 : i > 1 => messages'[i].obj # Null
      BY <1>0, <2>2, <2>3, <3>1 DEF ListOK
    <3>4. \A i, j \in 1 .. l + 1 : messages'[i].id = messages'[j].id => i = j
      BY <2>2, <2>3, <2>4, <3>1 DEF ListOK
    <3>5. (msgAppend \in NodesOf(messages))'
      BY <2>1, <2>2, <2>3, <3>1 DEF NodesOf
    <3>6. QED
      BY <2>3, <3>1, <3>2, <3>3, <3>4, <3>5 DEF ListOK
  <2>6. Waiting' = Append(Waiting, m)
    <3>1. ~ QueueEmpty' /\ l \in Nat /\ l >= 1
      BY <1>2, <2>3 DEF QueueEmpty, ListOK
    <3>3. /\ Waiting \in Seq(Msgs) /\ Len(Waiting) = l
          /\ \A i \in 1 .. l : Waiting[i] = messages[i].obj
      BY <1>2, <3>1, WaitingType DEF ListOK
    <3>2. /\ Waiting' \in Seq(Msgs) /\ Len(Waiting') = l + 1
          /\ \A i \in 1 .. l + 1 : Waiting'[i] = messages'[i].obj
      <4>1. Waiting' = [i \in 1 .. l + 1 |-> messages'[i].obj]
        BY <2>3, <3>1 DEF Waiting, QueueEmpty
      <4>2. \A i \in 1 .. l + 1 : messages'[i].obj \in Msgs
        <5>1. \A i \in 1 .. l : messages'[i].obj \in Msgs
          BY <2>3, <3>3
        <5>2. messages'[l + 1].obj \in Msgs
          BY <2>2, <2>3
        <5>3. QED
          BY <3>1, <5>1, <5>2
      <4>3. QED
        BY <3>1, <4>1, <4>2, IsASeq
    <3>4. /\ Append(Waiting, m) \in Seq(Msgs) /\ Len(Append(Waiting, m)) = l + 1
          /\ \A i \in 1 .. l : Append(Waiting, m)[i] = Waiting[i]
          /\ Append(Waiting, m)[l + 1] = m
      BY <3>3, AppendProperties
    <3>5. \A i \in 1 .. l + 1 : Waiting'[i] = Append(Waiting, m)[i]
      BY <2>2, <2>3, <3>1, <3>2, <3>3, <3>4
    <3>6. QED
      BY <3>2, <3>4, <3>5, SeqEqual
  <2>7. QED
    BY <2>5, <2>6
<1>3. QED
  BY <1>1, <1>2

\* The node of the first message gives its place to the next one's entry.
LEMMA FirstRemoved ==
    ASSUME ListOK, ~ QueueEmpty, messages' = RemoveEntry(messages, 1),
           NEW l \in Nat, l = Len(messages)
    PROVE  /\ messages' \in Seq(ListNode)
           /\ l = 1 => messages' = <<Node(Root, Null)>>
           /\ l > 1 => /\ Len(messages') = l - 1
                      /\ messages'[1] = Node(Root, messages[2].obj)
                      /\ \A i \in 2 .. l - 1 : messages'[i] = messages[i + 1]
<1>0. Root \in Nodes /\ l \in Nat /\ l >= 1 /\ messages \in Seq(ListNode)
  BY RootAssumption DEF ListOK
<1>1. CASE l = 1
  <2>1. messages' = [messages EXCEPT ![1] = Node(Root, Null)]
    BY <1>1 DEF RemoveEntry, ReplaceAt, ListOK
  <2>2. PICK first : first = Node(Root, Null)
    OBVIOUS
  <2>3. first \in ListNode
    BY <1>0, <2>2, NodeType
  <2>4. messages' \in Seq(ListNode) /\ Len(messages') = 1 /\ messages'[1] = first
    <3>1. PICK list : list = [messages EXCEPT ![1] = first]
      OBVIOUS
    <3>2. list \in Seq(ListNode) /\ Len(list) = l /\ list[1] = first
      BY <1>0, <2>3, <3>1
    <3>3. QED
      BY <1>1, <2>1, <2>2, <3>1, <3>2
  <2>5. messages' = <<first>>
    BY <2>4
  <2>6. QED
    BY <1>1, <2>2, <2>4, <2>5
<1>2. CASE l > 1
  <2>1. PICK first : first = Node(Root, messages[2].obj)
    OBVIOUS
  <2>2. first \in ListNode
    <3>1. messages[2] \in ListNode
      BY <1>0, <1>2
    <3>2. messages[2].obj \in Msgs \cup {Null}
      BY <3>1 DEF ListNode
    <3>3. QED
      BY <1>0, <2>1, <3>2, NodeType
  <2>3. PICK list : list = [messages EXCEPT ![1] = first]
    OBVIOUS
  <2>4. /\ list \in Seq(ListNode) /\ Len(list) = l
        /\ list[1] = first /\ \A i \in 2 .. l : list[i] = messages[i]
    BY <1>0, <2>2, <2>3
  <2>5. messages' = SubSeq(list, 1, 1) \o SubSeq(list, 3, l)
    BY <1>2, <2>1, <2>3, <2>4 DEF RemoveEntry, ReplaceAt, RemoveAt, ListOK
  <2>6. PICK a : a = SubSeq(list, 1, 1)
    OBVIOUS
  <2>7. PICK b : b = SubSeq(list, 3, l)
    OBVIOUS
  <2>8. \A i \in 1 .. l : list[i] \in ListNode
    BY <2>4
  <2>9. a \in Seq(ListNode) /\ Len(a) = 1 /\ a[1] = first
    BY <1>0, <1>2, <2>4, <2>6, <2>8, SubSeqProperties
  <2>10. /\ b \in Seq(ListNode) /\ Len(b) = l - 2
         /\ \A i \in 1 .. l - 2 : b[i] = list[i + 2]
    <3>1. /\ b \in Seq(ListNode)
          /\ Len(b) = IF 3 <= l THEN l - 3 + 1 ELSE 0
          /\ \A i \in 1 .. l - 3 + 1 : b[i] = list[3 + i - 1]
      BY <1>0, <2>7, <2>8, SubSeqProperties
    <3>2. l - 3 + 1 = l - 2 /\ \A i \in 1 .. l - 2 : 3 + i - 1 = i + 2
      BY <1>0, <1>2
    <3>3. QED
      BY <1>0, <1>2, <3>1, <3>2
  <2>11. /\ messages' \in Seq(ListNode) /\ Len(messages') = l - 1
         /\ \A i \in 1 .. l - 1 : messages'[i] = IF i <= 1 THEN a[i] ELSE b[i - 1]
    <3>1. messages' = a \o b
      BY <2>5, <2>6, <2>7
    <3>2. /\ a \o b \in Seq(ListNode) /\ Len(a \o b) = Len(a) + Len(b)
          /\ \A i \in 1 .. Len(a) + Len(b) :
               (a \o b)[i] = IF i <= Len(a) THEN a[i] ELSE b[i - Len(a)]
      BY <2>9, <2>10, ConcatProperties
    <3>3. /\ messages' \in Seq(ListNode) /\ Len(messages') = 1 + (l - 2)
          /\ \A i \in 1 .. 1 + (l - 2) : messages'[i] = IF i <= 1 THEN a[i] ELSE b[i - 1]
      BY <2>9, <2>10, <3>1, <3>2
    <3>4. 1 + (l - 2) = l - 1
      BY <1>0
    <3>5. QED
      BY <3>3, <3>4
  <2>12. messages'[1] = Node(Root, messages[2].obj)
    BY <1>0, <1>2, <2>1, <2>9, <2>11
  <2>13. ASSUME NEW i \in 2 .. l - 1
         PROVE  messages'[i] = messages[i + 1]
    BY <1>0, <2>4, <2>10, <2>11
  <2>14. QED
    BY <1>2, <2>11, <2>12, <2>13
<1>3. QED
  BY <1>0, <1>1, <1>2

\* dequeueOne keeps the list in shape and takes the first of those that wait.
LEMMA RemoveKeeps ==
    ASSUME ListOK, ~ QueueEmpty, messages' = RemoveEntry(messages, 1),
           msgAppend' = AppendAfterRemoval
    PROVE  /\ ListOK'
           /\ messages[1].obj \in Msgs /\ Waiting' \in Seq(Msgs)
           /\ Waiting = <<messages[1].obj>> \o Waiting'
<1>0. PICK l \in Nat : l = Len(messages) /\ l >= 1
  BY DEF ListOK
<1>1. /\ Root \in Nodes /\ messages \in Seq(ListNode) /\ DOMAIN messages = 1 .. l
      /\ messages[1].obj # Null
  BY <1>0, RootAssumption DEF ListOK, QueueEmpty
<1>2. \A i \in 1 .. l : messages[i] \in ListNode
  BY <1>0, <1>1
<1>3. \A i \in 1 .. l : messages[i].obj \in Msgs
  BY <1>0, <1>1, <1>2 DEF ListOK, ListNode
<1>4. messages[1].obj \in Msgs
  BY <1>0, <1>3
<1>5. /\ Waiting \in Seq(Msgs) /\ Len(Waiting) = l
      /\ \A i \in 1 .. l : Waiting[i] = messages[i].obj
  BY <1>0, <1>1, WaitingType
<1>6. CASE l = 1
  <2>1. messages' = <<Node(Root, Null)>>
    BY <1>0, <1>6, FirstRemoved
  <2>2. /\ Node(Root, Null) \in ListNode
        /\ Node(Root, Null).id = Root /\ Node(Root, Null).obj = Null
    BY <1>1, NodeType
  <2>3. msgAppend' = Root
    <3>1. msgAppend \in {messages[i].id : i \in 1 .. 1}
      BY <1>0, <1>1, <1>6 DEF ListOK, NodesOf
    <3>2. messages[1].id = Root
      BY DEF ListOK
    <3>3. QED
      BY <1>0, <1>6, <3>1, <3>2 DEF AppendAfterRemoval
  <2>4. ListOK'
    <3>1. PICK first \in ListNode : first = Node(Root, Null)
      BY <2>2
    <3>2. /\ messages' \in Seq(ListNode) /\ Len(messages') = 1
          /\ messages'[1] = first /\ DOMAIN messages' = {1}
      <4>1. PICK list : list = <<first>>
        OBVIOUS
      <4>2. /\ list \in Seq(ListNode) /\ Len(list) = 1
            /\ list[1] = first /\ DOMAIN list = {1}
        BY <4>1
      <4>3. messages' = list
        BY <2>1, <3>1, <4>1
      <4>4. QED
        BY <4>2, <4>3
    <3>3. first.id = Root
      BY <2>2, <3>1
    <3>4. NodesOf(messages)' = {Root}
      BY <3>2, <3>3 DEF NodesOf
    <3>5. QED
      BY <2>3, <3>2, <3>3, <3>4 DEF ListOK
  <2>5. Waiting' = <<>>
    BY <2>1, <2>2 DEF Waiting
  <2>6. Waiting = <<messages[1].obj>>
    BY <1>5, <1>6
  <2>7. <<messages[1].obj>> \o <<>> = <<messages[1].obj>>
    BY <1>4
  <2>8. QED
    BY <1>4, <2>4, <2>5, <2>6, <2>7
<1>7. CASE l > 1
  <2>1. /\ messages' \in Seq(ListNode) /\ Len(messages') = l - 1
        /\ messages'[1] = Node(Root, messages[2].obj)
        /\ \A i \in 2 .. l - 1 : messages'[i] = messages[i + 1]
    BY <1>0, <1>7, FirstRemoved
  <2>2. messages[2].obj \in Msgs
    BY <1>3, <1>7
  <2>3. messages'[1].id = Root /\ messages'[1].obj = messages[2].obj
    BY <1>1, <2>1, <2>2, NodeType
  <2>4. DOMAIN messages' = 1 .. l - 1 /\ l - 1 \in Nat
    BY <1>7, <2>1
  <2>5. \A i \in 1 .. l - 1 : messages'[i].obj = messages[i + 1].obj
    BY <1>7, <2>1, <2>3
  <2>6. Null \notin Msgs
    BY MsgsAssumption
  <2>7. \A i \in 2 .. l : messages[i].id # Root
    BY <1>0, <1>1 DEF ListOK
  <2>8. \A i, j \in 1 .. l - 1 : messages'[i].id = messages'[j].id => i = j
    <3>1. ASSUME NEW i \in 1 .. l - 1, NEW j \in 1 .. l - 1,
                 messages'[i].id = messages'[j].id
          PROVE  i = j
      <4>1. CASE i = 1 \/ j = 1
        BY <2>1, <2>3, <2>7, <3>1, <4>1
      <4>2. CASE i # 1 /\ j # 1
        <5>1. i \in 2 .. l - 1 /\ j \in 2 .. l - 1 /\ i + 1 \in 1 .. l /\ j + 1 \in 1 .. l
          BY <4>2
        <5>2. messages[i + 1].id = messages[j + 1].id
          BY <2>1, <3>1, <5>1
        <5>3. i + 1 = j + 1
          BY <1>1, <5>1, <5>2 DEF ListOK
        <5>4. QED
          BY <5>3
      <4>3. QED
        BY <4>1, <4>2
    <3>2. QED
      BY <3>1
  <2>9. msgAppend' \in NodesOf(messages)'
    <3>1. NodesOf(messages)' = {messages'[i].id : i \in 1 .. l - 1}
      BY <2>4 DEF NodesOf
    <3>2. PICK k \in 1 .. l : msgAppend = messages[k].id
      BY <1>1 DEF ListOK, NodesOf
    <3>3. CASE k = 1 \/ k = 2
      <4>1. msgAppend' = Root
        BY <1>0, <1>7, <3>2, <3>3 DEF AppendAfterRemoval, ListOK
      <4>2. QED
        BY <1>7, <2>3, <3>1, <4>1
    <3>4. CASE k > 2
      <4>1. messages[2].id # messages[k].id
        BY <1>1, <1>7, <3>4 DEF ListOK
      <4>2. msgAppend' = messages[k].id
        BY <3>2, <4>1 DEF AppendAfterRemoval
      <4>3. k - 1 \in 2 .. l - 1 /\ (k - 1) + 1 = k
        BY <3>4
      <4>4. messages'[k - 1] = messages[k]
        BY <2>1, <4>3
      <4>5. QED
        BY <3>1, <4>2, <4>3, <4>4
    <3>5. QED
      BY <3>3, <3>4
  <2>10. \A i \in 1 .. l - 1 : messages'[i].obj \in Msgs
    BY <1>3, <2>5
  <2>11. ListOK'
    BY <1>7, <2>1, <2>3, <2>4, <2>6, <2>8, <2>9, <2>10 DEF ListOK
  <2>12. /\ Waiting' \in Seq(Msgs) /\ Len(Waiting') = l - 1
         /\ \A i \in 1 .. l - 1 : Waiting'[i] = messages[i + 1].obj
    <3>1. messages'[1].obj # Null
      BY <2>2, <2>3, <2>6
    <3>2. Waiting' = [i \in 1 .. l - 1 |-> messages'[i].obj]
      BY <2>4, <3>1 DEF Waiting
    <3>3. QED
      BY <2>4, <2>5, <2>10, <3>2, IsASeq
  <2>13. Waiting = <<messages[1].obj>> \o Waiting'
    <3>1. PICK h \in Msgs : h = messages[1].obj
      BY <1>4
    <3>2. PICK w \in Seq(Msgs) : w = Waiting'
      BY <2>12
    <3>3. <<h>> \in Seq(Msgs) /\ Len(<<h>>) = 1 /\ <<h>>[1] = h
      OBVIOUS
    <3>4. /\ <<h>> \o w \in Seq(Msgs) /\ Len(<<h>> \o w) = 1 + (l - 1)
          /\ \A i \in 1 .. 1 + (l - 1) :
               (<<h>> \o w)[i] = IF i <= 1 THEN <<h>>[i] ELSE w[i - 1]
      BY <2>12, <3>2, <3>3, ConcatProperties
    <3>5. 1 + (l - 1) = l
      OBVIOUS
    <3>6. \A i \in 1 .. l : (<<h>> \o w)[i] = Waiting[i]
      <4>1. ASSUME NEW i \in 1 .. l PROVE (<<h>> \o w)[i] = Waiting[i]
        <5>1. CASE i = 1
          BY <1>5, <1>7, <3>1, <3>3, <3>4, <3>5, <5>1
        <5>2. CASE i # 1
          <6>1. i - 1 \in 1 .. l - 1 /\ (i - 1) + 1 = i /\ ~ (i <= 1)
            BY <5>2
          <6>2. w[i - 1] = messages[i].obj
            BY <2>12, <3>2, <6>1
          <6>3. QED
            BY <1>5, <3>4, <3>5, <6>1, <6>2
        <5>3. QED
          BY <5>1, <5>2
      <4>2. QED
        BY <4>1
    <3>7. <<h>> \o w = Waiting
      BY <1>5, <3>4, <3>5, <3>6, SeqEqual
    <3>8. QED
      BY <3>1, <3>2, <3>7
  <2>14. QED
    BY <1>4, <2>11, <2>12, <2>13
<1>8. QED
  BY <1>0, <1>6, <1>7

-----------------------------------------------------------------------------
(* The queue *)

\* The constructor makes an empty list.
LEMMA QueueInit == ASSUME Init PROVE QueueInv
<1>0. Root \in Nodes /\ Null \notin Msgs
  BY RootAssumption, MsgsAssumption
<1>1. PICK first \in ListNode : first = Node(Root, Null)
  BY <1>0, NodeType
<1>2. first.id = Root /\ first.obj = Null
  BY <1>0, <1>1, NodeType
<1>3. /\ messages \in Seq(ListNode) /\ Len(messages) = 1
      /\ messages[1] = first /\ DOMAIN messages = {1}
  BY <1>1 DEF Init, Empty
<1>4. ListOK
  <2>1. NodesOf(messages) = {Root}
    BY <1>2, <1>3 DEF NodesOf
  <2>2. QED
    BY <1>2, <1>3, <2>1 DEF ListOK, Init
<1>5. TypeOK
  BY <1>0, <1>3 DEF TypeOK, Init, ListNode
<1>6. FirstInFirstOut /\ sent \in Seq(Msgs) /\ taken \in Seq(Msgs)
  BY <1>2, <1>3 DEF Init, FirstInFirstOut, Waiting
<1>7. QED
  BY <1>4, <1>5, <1>6 DEF QueueInv

\* A node of a list is a node.
LEMMA NodesType ==
    ASSUME NEW list \in Seq(ListNode), NEW n \in NodesOf(list)
    PROVE  n \in Nodes
<1>1. PICK k \in DOMAIN list : n = list[k].id
  BY DEF NodesOf
<1>2. list[k] \in ListNode
  OBVIOUS
<1>3. QED
  BY <1>1, <1>2 DEF ListNode

\* enqueue, dequeueOne and the end of a dispatch keep the invariant.
LEMMA QueueNext == ASSUME QueueInv, [Next]_vars PROVE QueueInv'
<1> USE DEF QueueInv
<1>0. working \in [Workers -> Msgs \cup {Null}] /\ Waiting \in Seq(Msgs)
  BY WaitingType DEF TypeOK
<1>1. ASSUME NEW m \in Msgs, Enqueue(m) PROVE QueueInv'
  <2>1. ListOK' /\ Waiting' = Append(Waiting, m)
    BY <1>1, AppendKeeps DEF Enqueue
  <2>2. UNCHANGED <<working, taken>> /\ sent' = Append(sent, m)
    BY <1>1 DEF Enqueue
  <2>3. sent' \in Seq(Msgs)
    BY <2>2
  <2>4. FirstInFirstOut'
    <3>1. PICK w \in Seq(Msgs) : w = Waiting
      BY <1>0
    <3>2. Append(w, m) = w \o <<m>> /\ Append(taken \o w, m) = (taken \o w) \o <<m>>
      BY AppendIsConcat, ConcatProperties
    <3>3. taken \o (w \o <<m>>) = (taken \o w) \o <<m>>
      BY ConcatAssociative
    <3>4. QED
      BY <2>1, <2>2, <3>1, <3>2, <3>3 DEF FirstInFirstOut
  <2>5. TypeOK'
    <3>1. messages' \in Seq(ListNode) /\ msgAppend' \in NodesOf(messages')
      BY <2>1 DEF ListOK, NodesOf
    <3>2. QED
      BY <1>0, <2>2, <3>1, NodesType DEF TypeOK, ListNode
  <2>6. QED
    BY <2>1, <2>2, <2>3, <2>4, <2>5
<1>2. ASSUME NEW w \in Workers, DequeueOne(w) PROVE QueueInv'
  <2>1. ~ QueueEmpty
    BY <1>2 DEF DequeueOne, QueueEmpty
  <2>2. /\ ListOK'
        /\ messages[1].obj \in Msgs /\ Waiting' \in Seq(Msgs)
        /\ Waiting = <<messages[1].obj>> \o Waiting'
    BY <1>2, <2>1, RemoveKeeps DEF DequeueOne
  <2>3. PICK m \in Msgs : m = messages[1].obj
    BY <2>2
  <2>4. sent' = sent /\ taken' = Append(taken, m) /\ working' = [working EXCEPT ![w] = m]
    BY <1>2, <2>3 DEF DequeueOne
  <2>5. taken' \in Seq(Msgs)
    BY <2>4
  <2>6. FirstInFirstOut'
    <3>1. PICK rest \in Seq(Msgs) : rest = Waiting'
      BY <2>2
    <3>2. Append(taken, m) = taken \o <<m>>
      BY AppendIsConcat
    <3>3. (taken \o <<m>>) \o rest = taken \o (<<m>> \o rest)
      BY ConcatAssociative
    <3>4. QED
      BY <2>2, <2>3, <2>4, <3>1, <3>2, <3>3 DEF FirstInFirstOut
  <2>7. working' \in [Workers -> Msgs \cup {Null}]
    BY <1>0, <2>4
  <2>8. TypeOK'
    <3>1. messages' \in Seq(ListNode) /\ msgAppend' \in NodesOf(messages')
      BY <2>2 DEF ListOK, NodesOf
    <3>2. QED
      BY <2>7, <3>1, NodesType DEF TypeOK, ListNode
  <2>9. QED
    BY <2>2, <2>4, <2>5, <2>6, <2>8
<1>3. ASSUME NEW w \in Workers, Destruct(w) PROVE QueueInv'
  BY <1>0, <1>3
  DEF Destruct, TypeOK, ListOK, QueueInv, FirstInFirstOut, Waiting, NodesOf
<1>4. CASE UNCHANGED vars
  BY <1>4 DEF vars, TypeOK, ListOK, QueueInv, FirstInFirstOut, Waiting, NodesOf
<1>5. QED
  BY <1>1, <1>2, <1>3, <1>4 DEF Next, Worker

\* Threads that use the queue of the hub take messages in the order they were
\* enqueued.
THEOREM QueueKeepsOrder == Spec => []FirstInFirstOut
<1>1. Init => QueueInv
  BY QueueInit
<1>2. QueueInv /\ [Next]_vars => QueueInv'
  BY QueueNext
<1>3. QueueInv => FirstInFirstOut
  BY DEF QueueInv
<1>4. QED
  BY <1>1, <1>2, <1>3, PTL DEF Spec

-----------------------------------------------------------------------------
(* The engine implements the queue *)

\* What the main thread does besides its own dispatching, and what a worker
\* does besides dispatching, leaves the queue alone.
Aside ==
    \/ Turn \/ LookForWorkers \/ AskForWorkers \/ CreateWorker \/ EndTurn
    \/ HaltPlugins \/ CancelAll \/ WaitedEnough \/ AllGone \/ Finish \/ Halt
    \/ \E w \in Threads : Kill(w) \/ Poll(w) \/ GoIdle(w) \/ Leave(w)

\* The queue is left alone by these.
LEMMA AsideKeepsQueue == ASSUME Aside PROVE UNCHANGED vars
BY DEF Aside, Turn, LookForWorkers, AskForWorkers, CreateWorker, EndTurn, HaltPlugins,
   CancelAll, WaitedEnough, AllGone, Finish, Halt, Kill, Poll, GoIdle, Leave, queue

\* Every other step serves or enqueues.
LEMMA EngineSteps ==
    ASSUME EngineNext
    PROVE  Aside \/ ServeMain \/ (\E w \in Threads : Serve(w)) \/ (\E m \in Msgs : EnqueueAny(m))
BY DEF EngineNext, MainThread, WorkerThread, Aside

\* A step of the engine is a step of the queue or leaves it alone.
LEMMA EngineStepsQueue == ASSUME [EngineNext]_evars PROVE [Next]_vars
<1>1. CASE Aside
  BY <1>1, AsideKeepsQueue
<1>2. CASE ServeMain
  BY <1>2, MainAssumption DEF ServeMain, HandlersReturn, Next, Worker
<1>3. ASSUME NEW w \in Threads, Serve(w) PROVE Next
  BY <1>3 DEF Serve, HandlersReturn, Next, Worker, Threads
<1>4. ASSUME NEW m \in Msgs, EnqueueAny(m) PROVE Next
  BY <1>4 DEF EnqueueAny, Next
<1>5. CASE UNCHANGED evars
  BY <1>5 DEF evars, queue
<1>6. QED
  BY <1>1, <1>2, <1>3, <1>4, <1>5, EngineSteps

\* The engine with its pool of workers, its failures and its end uses the
\* queue as MessageQueue says.
THEOREM EngineUsesQueue == EngineSpec => Spec
<1>1. EngineInit => Init
  BY DEF EngineInit
<1>2. [EngineNext]_evars => [Next]_vars
  BY EngineStepsQueue
<1>3. QED
  BY <1>1, <1>2, PTL DEF EngineSpec, Spec

\* So the engine keeps the order of messages, too.
THEOREM FirstInFirstOutHolds == EngineSpec => []FirstInFirstOut
BY QueueKeepsOrder, EngineUsesQueue, PTL

-----------------------------------------------------------------------------
(* The pool *)

\* Who was counted runs or could not be created; the workers still to be
\* created fit into the limit.
PoolOK ==
    /\ pool \subseteq Threads /\ polling \subseteq pool
    /\ failures \in 0 .. MaxFailures
    /\ count = Cardinality(pool) + failures
    /\ count <= MaxWorkers
    /\ build \in 0 .. MaxWorkers
    /\ loop = "build" => build >= 1 /\ count + build <= MaxWorkers
Looping == {"turn", "look", "quiet", "build", "rest"}
Ending == {"halt", "drain", "wait", "kill", "drainlast", "done"}
LoopOK ==
    /\ loop \in Looping \cup Ending
    /\ stops \in -1 .. MaxStop
    /\ loop \in Looping => stops >= 0
FlagsOK == makeworker \in BOOLEAN /\ haltcode \in BOOLEAN /\ cancelled \in BOOLEAN

\* Only a killed worker leaves a message behind; at the end nobody works.
WorkOK ==
    /\ loop \notin {"kill", "drainlast", "done"} =>
         \A w \in Threads : working[w] # Null => w \in polling
    /\ loop \in {"drainlast", "done"} => pool = {}
    /\ loop = "done" => QueueEmpty /\ working[Main] = Null

EngineInv == QueueInv /\ PoolOK /\ LoopOK /\ FlagsOK /\ WorkOK

\* Sets of threads are finite.
LEMMA PoolFinite ==
    ASSUME NEW P \in SUBSET Threads
    PROVE  IsFiniteSet(P) /\ Cardinality(P) \in Nat
<1>1. Threads \in SUBSET Workers
  BY DEF Threads
<1>2. P \in SUBSET Workers
  BY <1>1
<1>3. QED
  BY <1>2, ThreadsAssumption, FS_Subset, FS_CardinalityType

\* While workers are created there is a thread for one more.
LEMMA FreeThreadType ==
    ASSUME EngineInv, loop = "build"
    PROVE  FreeThread \in Threads /\ FreeThread \notin pool
<1>1. Cardinality(pool) < MaxWorkers
  <2>1. Cardinality(pool) \in Nat
    BY PoolFinite DEF EngineInv, PoolOK
  <2>2. QED
    BY <2>1, PoolAssumption DEF EngineInv, PoolOK
<1>2. pool # Threads
  <2>1. Cardinality(Threads) \in Nat /\ Cardinality(Threads) >= MaxWorkers
    BY PoolFinite, ThreadsAssumption
  <2>2. QED
    BY <1>1, <2>1, PoolAssumption
<1>3. PICK w \in Threads \ pool : TRUE
  BY <1>2 DEF EngineInv, PoolOK
<1>4. working[w] = Null
  BY <1>3 DEF EngineInv, PoolOK, WorkOK
<1>5. QED
  BY <1>4 DEF FreeThread

\* The engine starts with an empty queue and no workers.
LEMMA EngineStarts == ASSUME EngineInit PROVE EngineInv
<1>1. QueueInv
  BY QueueInit DEF EngineInit
<1>2. PoolOK
  BY FS_EmptySet, PoolAssumption DEF EngineInit, PoolOK
<1>3. LoopOK
  BY PoolAssumption DEF EngineInit, LoopOK, Looping, Ending
<1>4. FlagsOK
  BY DEF EngineInit, FlagsOK
<1>5. WorkOK
  BY DEF EngineInit, Init, WorkOK, Threads
<1>6. QED
  BY <1>1, <1>2, <1>3, <1>4, <1>5 DEF EngineInv

\* Of the pool, a step of the main thread changes what it builds, a worker
\* whether it polls or runs.
LEMMA PoolNext == ASSUME EngineInv, [EngineNext]_evars PROVE PoolOK'
<1> USE DEF EngineInv, PoolOK, LoopOK
<1>0. MaxWorkers \in Nat /\ MinWorkers \in Nat \ {0} /\ AddWorkers \in Nat \ {0}
      /\ MinWorkers <= MaxWorkers /\ MaxFailures \in Nat
  BY PoolAssumption
<1>1. /\ IsFiniteSet(pool) /\ Cardinality(pool) \in Nat /\ failures \in Nat
      /\ count \in Nat /\ build \in Nat
  BY <1>0, PoolFinite
<1>2. CASE LookForWorkers
  <2>1. UNCHANGED <<pool, polling, failures, count>>
    BY <1>2 DEF LookForWorkers, workers
  <2>2. CASE loop' = "build"
    <3>1. count < MaxWorkers /\ build' = ToBuild
      BY <1>2, <2>2 DEF LookForWorkers, At
    <3>2. ToBuild \in Nat /\ ToBuild >= 1 /\ count + ToBuild <= MaxWorkers
      BY <1>0, <1>1, <3>1 DEF ToBuild, Lower
    <3>3. QED
      BY <1>0, <1>1, <2>1, <3>1, <3>2
  <2>3. CASE loop' # "build"
    <3>1. build' = build
      BY <1>2, <2>3 DEF LookForWorkers, At
    <3>2. QED
      BY <1>0, <1>1, <2>1, <2>3, <3>1
  <2>4. QED
    BY <2>2, <2>3
<1>3. CASE CreateWorker
  <2>1. loop = "build" /\ build >= 1 /\ count + build <= MaxWorkers
    BY <1>3 DEF CreateWorker, At
  <2>2. build' = build - 1 /\ count' = count + 1 /\ polling' = polling
    BY <1>3 DEF CreateWorker
  <2>3. build' \in 0 .. MaxWorkers /\ count' <= MaxWorkers
    BY <1>0, <1>1, <2>1, <2>2
  <2>4. loop' = "build" => build' >= 1 /\ count' + build' <= MaxWorkers
    BY <1>0, <1>1, <1>3, <2>1, <2>2 DEF CreateWorker, At
  <2>5. CASE pool' = pool \cup {FreeThread} /\ UNCHANGED failures
    <3>1. PICK w \in Threads : w = FreeThread /\ w \notin pool
      BY <2>1, FreeThreadType
    <3>2. Cardinality(pool') = Cardinality(pool) + 1
      BY <1>1, <2>5, <3>1, FS_AddElement
    <3>3. QED
      BY <1>1, <2>2, <2>3, <2>4, <2>5, <3>1, <3>2
  <2>6. CASE failures < MaxFailures /\ failures' = failures + 1 /\ UNCHANGED pool
    BY <1>0, <1>1, <2>2, <2>3, <2>4, <2>6
  <2>7. QED
    BY <1>3, <2>5, <2>6 DEF CreateWorker
<1>4. ASSUME NEW w \in Threads, Kill(w) \/ Leave(w) PROVE PoolOK'
  <2>1. /\ w \in pool /\ pool' = pool \ {w} /\ count' = count - 1
        /\ polling' \subseteq polling \ {w} /\ UNCHANGED <<failures, build, loop>>
    BY <1>4 DEF Kill, Leave, main
  <2>2. Cardinality(pool') = Cardinality(pool) - 1
    BY <1>1, <2>1, FS_RemoveElement
  <2>3. QED
    BY <1>0, <1>1, <2>1, <2>2
<1>5. ASSUME NEW w \in Threads, Poll(w) \/ GoIdle(w) PROVE PoolOK'
  BY <1>5 DEF Poll, GoIdle, main
<1>6. CASE \/ Turn \/ AskForWorkers \/ EndTurn \/ HaltPlugins \/ CancelAll
           \/ WaitedEnough \/ AllGone \/ Finish
  <2>1. UNCHANGED <<pool, count, polling, failures, build>> /\ loop' # "build"
    BY <1>6 DEF Turn, AskForWorkers, EndTurn, HaltPlugins, CancelAll, WaitedEnough,
       AllGone, Finish, At, workers
  <2>2. QED
    BY <2>1
<1>7. CASE \/ Halt \/ ServeMain \/ UNCHANGED evars
           \/ (\E w \in Threads : Serve(w)) \/ (\E m \in Msgs : EnqueueAny(m))
  <2>1. UNCHANGED <<pool, count, polling, failures, build, loop>>
    BY <1>7 DEF Halt, ServeMain, Serve, EnqueueAny, workers, main, evars
  <2>2. QED
    BY <2>1
<1>8. QED
  BY <1>2, <1>3, <1>4, <1>5, <1>6, <1>7, EngineSteps DEF Aside

\* The main thread goes from turn to turn and then to its end.
LEMMA LoopNext == ASSUME EngineInv, [EngineNext]_evars PROVE LoopOK'
<1> USE DEF EngineInv, LoopOK, Looping, Ending
<1>0. MaxStop \in Nat
  BY PoolAssumption
<1>1. CASE Turn
  BY <1>0, <1>1 DEF Turn, At
<1>2. CASE LookForWorkers \/ AskForWorkers \/ CreateWorker \/ EndTurn
  <2>1. stops' = stops /\ loop \in Looping /\ loop' \in Looping \cup {"halt"}
    BY <1>2 DEF LookForWorkers, AskForWorkers, CreateWorker, EndTurn, At
  <2>2. QED
    BY <2>1
<1>3. CASE HaltPlugins \/ CancelAll \/ WaitedEnough \/ AllGone \/ Finish
  <2>1. stops' = stops /\ loop' \in Ending
    BY <1>3 DEF HaltPlugins, CancelAll, WaitedEnough, AllGone, Finish, At
  <2>2. QED
    BY <2>1
<1>4. CASE \/ Halt \/ ServeMain \/ UNCHANGED evars
           \/ (\E w \in Threads : Serve(w) \/ Kill(w) \/ Poll(w) \/ GoIdle(w) \/ Leave(w))
           \/ (\E m \in Msgs : EnqueueAny(m))
  <2>1. stops' = stops /\ loop' = loop
    BY <1>4 DEF Halt, ServeMain, Serve, Kill, Poll, GoIdle, Leave, EnqueueAny, main, evars
  <2>2. QED
    BY <2>1
<1>5. QED
  BY <1>1, <1>2, <1>3, <1>4, EngineSteps DEF Aside

\* The flags stay flags.
LEMMA FlagsNext == ASSUME EngineInv, [EngineNext]_evars PROVE FlagsOK'
<1>1. /\ makeworker' \in {makeworker, TRUE, FALSE}
      /\ haltcode' \in {haltcode, TRUE}
      /\ cancelled' \in {cancelled, TRUE}
  <2>1. CASE \/ Turn \/ LookForWorkers \/ AskForWorkers \/ CreateWorker \/ EndTurn
             \/ HaltPlugins \/ CancelAll \/ WaitedEnough \/ AllGone \/ Finish \/ Halt
    BY <2>1 DEF Turn, LookForWorkers, AskForWorkers, CreateWorker, EndTurn, HaltPlugins,
       CancelAll, WaitedEnough, AllGone, Finish, Halt, workers
  <2>2. ASSUME NEW w \in Threads, Kill(w) \/ Poll(w) \/ GoIdle(w) \/ Leave(w) \/ Serve(w)
        PROVE  /\ makeworker' \in {makeworker, FALSE}
               /\ haltcode' = haltcode /\ cancelled' = cancelled
    BY <2>2 DEF Kill, Poll, GoIdle, Leave, Serve, main, workers
  <2>3. CASE ServeMain \/ UNCHANGED evars \/ (\E m \in Msgs : EnqueueAny(m))
    BY <2>3 DEF ServeMain, EnqueueAny, main, workers, evars
  <2>4. QED
    BY <2>1, <2>2, <2>3, EngineSteps DEF Aside
<1>2. QED
  BY <1>1 DEF EngineInv, FlagsOK

\* Workers hold messages only while they poll, until they are killed; when all
\* are gone the main thread takes what is left, and nobody enqueues any more.
LEMMA WorkNext == ASSUME EngineInv, [EngineNext]_evars PROVE WorkOK'
<1> DEFINE Late == {"kill", "drainlast", "done"}
<1> USE DEF EngineInv, WorkOK
<1>0. /\ pool \subseteq Threads /\ polling \subseteq pool
      /\ working \in [Workers -> Msgs \cup {Null}]
      /\ Threads \subseteq Workers /\ Main \in Workers /\ Main \notin Threads
  BY MainAssumption DEF PoolOK, QueueInv, TypeOK, Threads
<1>1. CASE Aside
  <2>1. UNCHANGED <<messages, working>> /\ (QueueEmpty <=> QueueEmpty')
    BY <1>1, AsideKeepsQueue DEF vars, QueueEmpty
  <2>2. CASE \/ Turn \/ LookForWorkers \/ AskForWorkers \/ CreateWorker \/ EndTurn
             \/ HaltPlugins \/ CancelAll
    <3>1. loop \notin Late /\ loop' \notin Late /\ polling' = polling
      BY <2>2 DEF Turn, LookForWorkers, AskForWorkers, CreateWorker, EndTurn, HaltPlugins,
         CancelAll, At, workers
    <3>2. QED
      BY <2>1, <3>1
  <2>3. CASE WaitedEnough
    BY <2>3 DEF WaitedEnough, At
  <2>4. CASE AllGone
    BY <2>4 DEF AllGone, workers
  <2>5. CASE Finish
    BY <2>1, <2>5 DEF Finish, At, workers
  <2>6. CASE Halt
    BY <2>1, <2>6 DEF Halt, workers
  <2>7. ASSUME NEW w \in Threads, Kill(w) PROVE WorkOK'
    BY <2>1, <2>7 DEF Kill, main
  <2>8. ASSUME NEW w \in Threads, Poll(w) \/ GoIdle(w) \/ Leave(w) PROVE WorkOK'
    BY <2>1, <2>8 DEF Poll, GoIdle, Leave, main
  <2>9. QED
    BY <1>1, <2>2, <2>3, <2>4, <2>5, <2>6, <2>7, <2>8 DEF Aside
<1>2. ASSUME NEW w \in Threads, Serve(w) PROVE WorkOK'
  <2>1. w \in polling /\ UNCHANGED <<pool, polling, loop>>
    BY <1>2 DEF Serve, workers, main
  <2>2. loop \notin {"drainlast", "done"}
    BY <1>0, <2>1
  <2>3. \A v \in Threads \ {w} : working'[v] = working[v]
    <3>1. PICK o : working' = [working EXCEPT ![w] = o]
      BY <1>2 DEF Serve, HandlersReturn, DequeueOne, Destruct
    <3>2. QED
      BY <1>0, <3>1
  <2>4. QED
    BY <2>1, <2>2, <2>3
<1>3. CASE ServeMain
  <2>1. loop \in {"drain", "drainlast"} /\ UNCHANGED <<pool, polling, loop>>
    BY <1>3 DEF ServeMain, workers, main
  <2>2. \A v \in Threads : working'[v] = working[v]
    BY <1>0, <1>3 DEF ServeMain, HandlersReturn, DequeueOne, Destruct
  <2>3. QED
    BY <2>1, <2>2
<1>4. ASSUME NEW m \in Msgs, EnqueueAny(m) PROVE WorkOK'
  <2>1. UNCHANGED <<pool, polling, loop, working>>
    BY <1>4 DEF EnqueueAny, Enqueue, workers, main
  <2>2. loop # "done"
    BY <1>4 DEF EnqueueAny
  <2>3. QED
    BY <2>1, <2>2
<1>5. CASE UNCHANGED evars
  BY <1>5 DEF evars, queue, vars, workers, main, QueueEmpty
<1>6. QED
  BY <1>1, <1>2, <1>3, <1>4, <1>5, EngineSteps

\* Every step keeps the invariant of the engine.
LEMMA EngineGoesOn == ASSUME EngineInv, [EngineNext]_evars PROVE EngineInv'
<1>1. QueueInv'
  BY EngineStepsQueue, QueueNext DEF EngineInv
<1>2. QED
  BY <1>1, PoolNext, LoopNext, FlagsNext, WorkNext DEF EngineInv

\* There are never more workers than maxworkers, whoever is counted without
\* running, and every variable keeps its type.
THEOREM EngineTypeCorrect == EngineSpec => []EngineTypeOK
<1>1. EngineInit => EngineInv
  BY EngineStarts
<1>2. EngineInv /\ [EngineNext]_evars => EngineInv'
  BY EngineGoesOn
<1>3. EngineInv => EngineTypeOK
  <2>1. SUFFICES ASSUME EngineInv PROVE EngineTypeOK
    OBVIOUS
  <2>2. MaxWorkers \in Nat /\ MaxFailures \in Nat
    BY PoolAssumption
  <2>3. pool \subseteq Threads /\ polling \subseteq pool
    BY <2>1 DEF EngineInv, PoolOK
  <2>4. Cardinality(pool) \in Nat
    BY <2>3, PoolFinite
  <2>5. count \in Cardinality(pool) .. MaxWorkers /\ build \in 0 .. MaxWorkers
        /\ failures \in 0 .. MaxFailures
    BY <2>1, <2>2, <2>4 DEF EngineInv, PoolOK
  <2>6. {makeworker, haltcode, cancelled} \subseteq BOOLEAN
    BY <2>1 DEF EngineInv, FlagsOK
  <2>7. QED
    BY <2>1, <2>3, <2>5, <2>6
    DEF EngineInv, QueueInv, LoopOK, Looping, Ending, EngineTypeOK
<1>4. QED
  BY <1>1, <1>2, <1>3, PTL DEF EngineSpec

\* Of a list that is empty everything was taken, so what was not dispatched
\* is with a worker.
LEMMA EndIsClean == ASSUME EngineInv PROVE NothingLeftBehind
<1>1. SUFFICES ASSUME loop = "done"
               PROVE  /\ QueueEmpty
                      /\ \A m \in ToSet(sent) \ Dispatched :
                           \E w \in Threads \ pool : working[w] = m
  BY DEF NothingLeftBehind
<1>2. QueueEmpty /\ working[Main] = Null /\ pool = {}
  BY <1>1 DEF EngineInv, WorkOK
<1>3. sent = taken
  <2>1. Waiting = <<>> /\ taken \in Seq(Msgs)
    BY <1>2, WaitingType DEF EngineInv, QueueInv
  <2>2. taken \o <<>> = taken
    BY <2>1, ConcatEmptySeq
  <2>3. QED
    BY <2>1, <2>2 DEF EngineInv, QueueInv, FirstInFirstOut
<1>4. ASSUME NEW m \in ToSet(sent) \ Dispatched
      PROVE  \E w \in Threads \ pool : working[w] = m
  <2>1. PICK w \in Workers : working[w] = m
    BY <1>3, <1>4 DEF Dispatched
  <2>2. m \in Msgs
    BY DEF EngineInv, QueueInv, ToSet
  <2>3. w # Main
    BY <1>2, <2>1, <2>2, MsgsAssumption
  <2>4. QED
    BY <1>2, <2>1, <2>3 DEF Threads
<1>5. QED
  BY <1>2, <1>4

\* When the engine has ended no message is left in the queue: each was
\* dispatched, or its worker was killed in a handler.
THEOREM NothingLeftBehindHolds == EngineSpec => []NothingLeftBehind
<1>1. EngineInit => EngineInv
  BY EngineStarts
<1>2. EngineInv /\ [EngineNext]_evars => EngineInv'
  BY EngineGoesOn
<1>3. EngineInv => NothingLeftBehind
  BY EndIsClean
<1>4. QED
  BY <1>1, <1>2, <1>3, PTL DEF EngineSpec
=============================================================================
