--------------------------- MODULE PostHooksProofs ---------------------------
(***************************************************************************)
(* Theorems about PostHooks, for any hooks and nodes, any finite set of    *)
(* threads and any number of changes.                                      *)
(***************************************************************************)
EXTENDS PostHooks, FiniteSetTheorems, SequenceTheorems, WellFoundedInduction, TLAPS

HookNode == [id : Nodes, obj : Hooks \cup {Null}]

\* Nodes and entries are in a list once, and the root comes first.
NodesOnce(list) ==
    \A i, j \in DOMAIN list : list[i].id = list[j].id => i = j
EntriesOnce(list) ==
    \A i, j \in DOMAIN list : list[i].obj = list[j].obj /\ list[i].obj # Null => i = j
ListOK(list) ==
    /\ list \in Seq(HookNode)
    /\ Len(list) >= 1
    /\ list[1].id = Root
    /\ NodesOnce(list)
    /\ EntriesOnce(list)

EntriesOf(list) == {list[i].obj : i \in DOMAIN list} \ {Null}

\* A walk ran a hook, or ran it exactly once.
Ran(walk, h) == \E i \in DOMAIN walk : walk[i] = h
RanOnce(walk, h) == \E i \in DOMAIN walk : \A j \in DOMAIN walk : walk[j] = h <=> j = i

Walking == {t \in Threads : running[t] # Null}

\* A walk stands at a node of the list; of the hooks that stayed it ran those
\* up to there, once, and none behind, and the one it runs, if it stayed, is
\* the one of its node.
Progress(t) ==
    running[t] # Null =>
        /\ at[t] \in NodesOf(hooks)
        /\ \A p \in DOMAIN hooks : hooks[p].id = at[t] =>
             \A i \in DOMAIN hooks : hooks[i].obj \in stayed[t] =>
                 /\ i <= p => RanOnce(walked[t], hooks[i].obj)
                 /\ i > p => ~ Ran(walked[t], hooks[i].obj)
                 /\ hooks[i].obj = running[t] => i = p
\* At its end it ran all of them.
Complete(t) ==
    running[t] = Null /\ walked[t] # <<>> => \A h \in stayed[t] : RanOnce(walked[t], h)

HooksOK ==
    /\ ListOK(hooks)
    /\ EntriesOf(hooks) = known
    /\ hookAppend \in NodesOf(hooks)
WalksTyped ==
    /\ walked \in [Threads -> Seq(Hooks)]
    /\ stayed \in [Threads -> SUBSET known]
Counted == hookCount = Cardinality(Walking)
WalksOK == \A t \in Threads : Progress(t) /\ Complete(t)

PInv ==
    /\ TypeOK
    /\ HooksOK
    /\ WalksTyped
    /\ Counted
    /\ WalksOK

-----------------------------------------------------------------------------
(* Numbers and lists *)

\* A set of numbers has a least one; what follows by induction is proved with
\* the least counterexample.
LEMMA LeastNumber ==
    ASSUME NEW T, T \subseteq Nat, T # {}
    PROVE  \E x \in T : \A y \in T : x <= y
<1> DEFINE Below == {0 .. n : n \in T}
<1>1. ASSUME NEW b \in Below
      PROVE  b \in FiniteSubsetsOf(Nat)
  <2>1. PICK n \in T : b = 0 .. n
    OBVIOUS
  <2>2. IsFiniteSet(b)
    BY <2>1, FS_Interval
  <2>3. b \subseteq Nat
    BY <2>1
  <2> QED
    BY <2>2, <2>3 DEF FiniteSubsetsOf
<1>2. Below # {}
  OBVIOUS
<1>3. PICK b \in Below : \A a \in Below : <<a, b>> \notin StrictSubsetOrdering(Nat)
  <2> HIDE DEF Below
  <2> QED
    BY <1>1, <1>2, FS_StrictSubsetOrderingWellFounded, WFMin
<1>4. PICK x \in T : b = 0 .. x
  OBVIOUS
<1>5. ASSUME NEW y \in T
      PROVE  x <= y
  <2>1. <<0 .. y, 0 .. x>> \notin StrictSubsetOrdering(Nat)
    BY <1>3, <1>4
  <2>2. 0 .. y \in SUBSET Nat /\ 0 .. x \in SUBSET Nat
    OBVIOUS
  <2>3. ~ (0 .. y \subseteq 0 .. x) \/ 0 .. y = 0 .. x
    BY <2>1, <2>2 DEF StrictSubsetOrdering
  <2>4. x \in Nat /\ y \in Nat
    OBVIOUS
  <2>5. y < x => 0 .. y \subseteq 0 .. x /\ x \in 0 .. x /\ x \notin 0 .. y
    BY <2>4
  <2> QED
    BY <2>3, <2>4, <2>5
<1> QED
  BY <1>5

\* A list by its places.
LEMMA ListParts ==
    ASSUME NEW list, ListOK(list)
    PROVE  /\ list \in Seq(HookNode) /\ Len(list) \in Nat /\ Len(list) >= 1
           /\ DOMAIN list = 1 .. Len(list) /\ 1 \in DOMAIN list
           /\ \A i \in DOMAIN list : list[i] \in HookNode
           /\ Last(list) = list[Len(list)] /\ Len(list) \in DOMAIN list
<1>1. list \in Seq(HookNode) /\ Len(list) >= 1
  BY DEF ListOK
<1>2. Len(list) \in Nat /\ DOMAIN list = 1 .. Len(list)
  BY <1>1, LenProperties
<1>3. \A i \in 1 .. Len(list) : list[i] \in HookNode
  BY <1>1, ElementOfSeq
<1>4. Last(list) = list[Len(list)]
  BY DEF Last
<1> QED
  BY <1>1, <1>2, <1>3, <1>4

\* A node is written and read as it is.
LEMMA NodeType ==
    ASSUME NEW n \in Nodes, NEW o \in Hooks \cup {Null}
    PROVE  Node(n, o) \in HookNode /\ Node(n, o).id = n /\ Node(n, o).obj = o
BY DEF Node, HookNode

LEMMA NodeParts ==
    ASSUME NEW x \in HookNode
    PROVE  x.id \in Nodes /\ x.obj \in Hooks \cup {Null}
BY DEF HookNode

\* skipNull finds the first entry at or after a place.
LEMMA SkipNullFinds ==
    ASSUME NEW list, ListOK(list), NEW i \in Nat,
           NEW k, k = SkipNull(list, i)
    PROVE  \/ /\ k = 0
              /\ \A j \in DOMAIN list : j >= i => list[j].obj = Null
           \/ /\ k \in DOMAIN list /\ k >= i /\ k # 0 /\ list[k].obj # Null
              /\ \A j \in DOMAIN list : j >= i /\ j < k => list[j].obj = Null
<1> DEFINE full == {j \in DOMAIN list : j >= i /\ list[j].obj # Null}
<1>1. full \subseteq Nat /\ \A j \in full : j # 0
  BY ListParts
<1>2. k = IF full = {} THEN 0 ELSE CHOOSE m \in full : \A j \in full : m <= j
  BY DEF SkipNull
<1>3. CASE full = {}
  BY <1>2, <1>3
<1>4. CASE full # {}
  <2>1. \E m \in full : \A j \in full : m <= j
    <3> HIDE DEF full
    <3> QED
      BY <1>1, <1>4, LeastNumber
  <2>2. k \in full /\ \A j \in full : k <= j
    <3> HIDE DEF full
    <3> QED
      BY <1>2, <1>4, <2>1
  <2>3. ASSUME NEW j \in DOMAIN list, j >= i, j < k
        PROVE  list[j].obj = Null
    <3>1. j \in Nat /\ k \in Nat
      BY <1>1, <2>2, ListParts
    <3>2. j \notin full
      BY <2>2, <2>3, <3>1
    <3> QED
      BY <2>3, <3>2
  <2> QED
    BY <1>1, <2>2, <2>3
<1> QED
  BY <1>3, <1>4

\* A node of the list is found at its place.
LEMMA PlaceFound ==
    ASSUME NEW list, NEW n \in NodesOf(list)
    PROVE  PlaceOf(list, n) \in DOMAIN list /\ list[PlaceOf(list, n)].id = n
<1>1. \E i \in DOMAIN list : list[i].id = n
  BY DEF NodesOf
<1> QED
  BY <1>1 DEF PlaceOf

\* A node gets another entry, one that is not in the list.
LEMMA EntrySet ==
    ASSUME NEW list, ListOK(list), NEW p \in DOMAIN list,
           NEW o \in Hooks \cup {Null}, o = Null \/ o \notin EntriesOf(list),
           NEW new, new = ReplaceAt(list, p, Node(list[p].id, o))
    PROVE  /\ ListOK(new)
           /\ DOMAIN new = DOMAIN list
           /\ \A j \in DOMAIN list :
                /\ new[j].id = list[j].id
                /\ new[j].obj = IF j = p THEN o ELSE list[j].obj
<1>1. /\ list \in Seq(HookNode) /\ Len(list) \in Nat /\ Len(list) >= 1
      /\ DOMAIN list = 1 .. Len(list) /\ 1 \in DOMAIN list /\ list[1].id = Root
  BY ListParts DEF ListOK
<1>2. PICK x : x = Node(list[p].id, o)
  OBVIOUS
<1>3. x \in HookNode /\ x.id = list[p].id /\ x.obj = o
  <2>1. list[p].id \in Nodes
    BY ListParts, NodeParts
  <2> QED
    BY <1>2, <2>1, NodeType
<1>4. new = [list EXCEPT ![p] = x]
  BY <1>2 DEF ReplaceAt
<1>5. /\ new \in Seq(HookNode) /\ Len(new) = Len(list) /\ DOMAIN new = DOMAIN list
      /\ \A j \in DOMAIN list : new[j] = IF j = p THEN x ELSE list[j]
  BY <1>1, <1>3, <1>4, ExceptSeq
<1>6. \A j \in DOMAIN list : new[j].id = list[j].id
  BY <1>3, <1>5
<1>7. \A j \in DOMAIN list : new[j].obj = IF j = p THEN o ELSE list[j].obj
  BY <1>3, <1>5
<1>8. NodesOnce(new)
  BY <1>5, <1>6 DEF ListOK, NodesOnce
<1>9. EntriesOnce(new)
  <2>1. EntriesOnce(list)
    BY DEF ListOK
  <2>2. o # Null => \A j \in DOMAIN list : list[j].obj # o
    BY DEF EntriesOf
  <2> QED
    BY <1>5, <1>7, <2>1, <2>2 DEF EntriesOnce
<1>10. ListOK(new)
  BY <1>1, <1>5, <1>6, <1>8, <1>9 DEF ListOK
<1> QED
  BY <1>5, <1>6, <1>7, <1>10

Behind(list, x) == Append(list, x)

\* A list gets another node behind it, with an entry that is not in the list.
LEMMA NodeAdded ==
    ASSUME NEW list, ListOK(list), NEW x \in HookNode, x.id \notin NodesOf(list),
           x.obj = Null \/ x.obj \notin EntriesOf(list),
           NEW new, new = Behind(list, x)
    PROVE  ListOK(new)
<1>1. PICK l \in Nat : l = Len(list) /\ l >= 1 /\ DOMAIN list = 1 .. l
  BY ListParts
<1>2. list \in Seq(HookNode) /\ list[1].id = Root /\ NodesOnce(list) /\ EntriesOnce(list)
  BY DEF ListOK
<1>3. /\ new \in Seq(HookNode) /\ Len(new) = l + 1 /\ new[l + 1] = x
      /\ \A j \in 1 .. l : new[j] = list[j]
  BY <1>1, <1>2, AppendProperties DEF Behind
<1>4. DOMAIN new = 1 .. l + 1 /\ DOMAIN new = DOMAIN list \cup {l + 1}
      /\ l + 1 \notin DOMAIN list /\ 1 \in DOMAIN list
  <2>1. DOMAIN new = 1 .. l + 1
    BY <1>3, LenProperties
  <2> QED
    BY <1>1, <2>1
<1>5. \A j \in DOMAIN list : list[j].id # x.id
  BY DEF NodesOf
<1>6. NodesOnce(new)
  BY <1>1, <1>2, <1>3, <1>4, <1>5 DEF NodesOnce
<1>7. x.obj # Null => \A j \in DOMAIN list : list[j].obj # x.obj
  BY DEF EntriesOf
<1>8. EntriesOnce(new)
  BY <1>1, <1>2, <1>3, <1>4, <1>7 DEF EntriesOnce
<1>9. ListOK(new)
  BY <1>1, <1>2, <1>3, <1>4, <1>6, <1>8 DEF ListOK
<1> QED
  BY <1>1, <1>3, <1>4, <1>9

\* The nodes before it stay.
LEMMA BehindKeeps ==
    ASSUME NEW list, ListOK(list), NEW x \in HookNode, NEW j \in DOMAIN list,
           NEW new, new = Behind(list, x)
    PROVE  new[j] = list[j]
<1>1. list \in Seq(HookNode) /\ j \in 1 .. Len(list)
  BY ListParts
<1> QED
  BY <1>1, AppendProperties DEF Behind

\* It is the only new one.
LEMMA BehindIsLast ==
    ASSUME NEW list, ListOK(list), NEW x \in HookNode,
           NEW new, new = Behind(list, x)
    PROVE  /\ DOMAIN new = DOMAIN list \cup {Len(new)} /\ Len(new) \notin DOMAIN list
           /\ new[Len(new)] = x
<1>1. PICK l \in Nat : l = Len(list) /\ l >= 1 /\ DOMAIN list = 1 .. l
  BY ListParts
<1>2. list \in Seq(HookNode)
  BY DEF ListOK
<1>3. new \in Seq(HookNode) /\ Len(new) = l + 1 /\ new[l + 1] = x
  BY <1>1, <1>2, AppendProperties DEF Behind
<1>4. DOMAIN new = 1 .. l + 1
  BY <1>3, LenProperties
<1> QED
  BY <1>1, <1>3, <1>4

\* The last node replaced, as append does it.
LEMMA LastReplaced ==
    ASSUME NEW list, ListOK(list), NEW x \in HookNode
    PROVE  Append(Front(list), x) = ReplaceAt(list, Len(list), x)
<1>1. PICK l \in Nat : l = Len(list) /\ l >= 1 /\ DOMAIN list = 1 .. l
  BY ListParts
<1>2. list \in Seq(HookNode) /\ \A i \in 1 .. l : list[i] \in HookNode
  BY <1>1, ListParts
<1>3. PICK front : front = Front(list)
  OBVIOUS
<1>4. front = SubSeq(list, 1, l - 1)
  BY <1>1, <1>3 DEF Front
<1>5. /\ front \in Seq(HookNode) /\ Len(front) = l - 1
      /\ \A i \in 1 .. l - 1 : front[i] = list[i]
  <2>1. /\ SubSeq(list, 1, l - 1) \in Seq(HookNode)
        /\ Len(SubSeq(list, 1, l - 1)) = IF 1 <= l - 1 THEN l - 1 - 1 + 1 ELSE 0
        /\ \A i \in 1 .. l - 1 - 1 + 1 : SubSeq(list, 1, l - 1)[i] = list[1 + i - 1]
    <3>1. 1 \in Int /\ l - 1 \in Int /\ \A i \in 1 .. l - 1 : list[i] \in HookNode
      BY <1>1, <1>2
    <3> QED
      BY <3>1, SubSeqProperties
  <2>2. l - 1 - 1 + 1 = l - 1 /\ \A i \in 1 .. l - 1 : 1 + i - 1 = i
    BY <1>1
  <2> QED
    BY <1>1, <1>4, <2>1, <2>2
<1>6. PICK a : a = Append(front, x)
  OBVIOUS
<1>7. PICK b : b = [list EXCEPT ![l] = x]
  OBVIOUS
<1>8. /\ a \in Seq(HookNode) /\ Len(a) = l
      /\ \A i \in 1 .. l : a[i] = IF i = l THEN x ELSE list[i]
  <2>1. /\ a \in Seq(HookNode) /\ Len(a) = (l - 1) + 1
        /\ \A i \in 1 .. l - 1 : a[i] = front[i]
        /\ a[(l - 1) + 1] = x
    BY <1>5, <1>6, AppendProperties
  <2>2. (l - 1) + 1 = l
    BY <1>1
  <2> QED
    BY <1>1, <1>5, <2>1, <2>2
<1>9. /\ b \in Seq(HookNode) /\ Len(b) = l
      /\ \A i \in 1 .. l : b[i] = IF i = l THEN x ELSE list[i]
  BY <1>1, <1>2, <1>7, ExceptSeq
<1>10. a = b
  BY <1>8, <1>9, SeqEqual
<1> QED
  BY <1>1, <1>3, <1>6, <1>7, <1>10 DEF ReplaceAt

\* setHook appends a hook that is not in the list: in the last node if that is
\* empty, in a new one otherwise; the other nodes stay as they are.
LEMMA HookAppended ==
    ASSUME NEW list, ListOK(list), NEW n \in Nodes, NodeForAppend(list, n),
           NEW h \in Hooks, h \notin EntriesOf(list),
           NEW new, new = AppendAt(list, n, h)
    PROVE  /\ ListOK(new)
           /\ DOMAIN list \subseteq DOMAIN new
           /\ \A j \in DOMAIN list : new[j].id = list[j].id
           /\ \E p \in DOMAIN new :
                /\ new[p].id = n /\ new[p].obj = h
                /\ \A j \in DOMAIN new \ {p} : j \in DOMAIN list /\ new[j].obj = list[j].obj
                /\ p \in DOMAIN list => list[p].obj = Null
<1> DEFINE l == Len(list)
<1>0. l \in DOMAIN list /\ Last(list) = list[l] /\ Null \notin Hooks
  BY ListParts, HooksAssumption
<1>1. Node(n, h) \in HookNode /\ Node(n, h).id = n /\ Node(n, h).obj = h
  BY NodeType
<1>2. CASE list[l].obj = Null
  <2>1. n = list[l].id
    BY <1>0, <1>2 DEF NodeForAppend
  <2>2. new = ReplaceAt(list, l, Node(list[l].id, h))
    BY <1>0, <1>1, <2>1, LastReplaced DEF AppendAt
  <2>3. /\ ListOK(new) /\ DOMAIN new = DOMAIN list
        /\ \A j \in DOMAIN list :
             /\ new[j].id = list[j].id
             /\ new[j].obj = IF j = l THEN h ELSE list[j].obj
    BY <1>0, <2>2, EntrySet
  <2>4. new[l].id = n /\ new[l].obj = h
    BY <1>0, <2>1, <2>3
  <2> QED
    BY <1>0, <1>2, <2>3, <2>4
<1>3. CASE list[l].obj # Null
  <2>1. n \notin NodesOf(list)
    BY <1>0, <1>3 DEF NodeForAppend, FreeNodes
  <2>2. n # Last(list).id
    BY <1>0, <2>1 DEF NodesOf
  <2>3. PICK x \in HookNode : x = Node(n, h) /\ x.id = n /\ x.obj = h
    BY <1>1
  <2>4. new = Behind(list, x)
    BY <2>2, <2>3 DEF AppendAt, Behind
  <2>5. /\ ListOK(new)
        /\ \A j \in DOMAIN list : new[j] = list[j]
    BY <2>1, <2>3, <2>4, NodeAdded, BehindKeeps
  <2>6. PICK p : p = Len(new)
    OBVIOUS
  <2>7. DOMAIN new = DOMAIN list \cup {p} /\ p \notin DOMAIN list /\ new[p] = x
    BY <2>4, <2>6, BehindIsLast
  <2>8. new[p].id = n /\ new[p].obj = h
    BY <2>3, <2>7
  <2> QED
    BY <2>5, <2>7, <2>8
<1> QED
  BY <1>2, <1>3

-----------------------------------------------------------------------------
(* Compacting *)

\* What is kept of the first n nodes of a list: the same entries, in nodes of
\* theirs.
KeptOf(kept, list, n) ==
    IF n = 0 THEN kept = <<>>
    ELSE /\ ListOK(kept)
         /\ \A j \in DOMAIN kept : \E i \in 1 .. n : kept[j].id = list[i].id
         /\ \A j \in DOMAIN kept : kept[j].obj # Null =>
              \E i \in 1 .. n : kept[j].obj = list[i].obj
         /\ \A i \in 1 .. n : list[i].obj # Null =>
              \E j \in DOMAIN kept : kept[j].obj = list[i].obj

\* The next node keeps it so.
LEMMA MovedKeeps ==
    ASSUME NEW list, ListOK(list), NEW n \in Nat, n + 1 \in DOMAIN list,
           NEW kept, KeptOf(kept, list, n)
    PROVE  KeptOf(Moved(kept, list[n + 1]), list, n + 1)
<1> DEFINE x == list[n + 1]
           new == Moved(kept, x)
<1>1. /\ x \in HookNode /\ x.id \in Nodes /\ x.obj \in Hooks \cup {Null}
      /\ 1 .. n + 1 \subseteq DOMAIN list /\ n + 1 # 0 /\ n + 1 \in 1 .. n + 1
      /\ 1 .. n \subseteq 1 .. n + 1 /\ \A i \in 1 .. n : i # n + 1
      /\ \A i \in 1 .. n + 1 : i = n + 1 \/ i \in 1 .. n
  <2>1. x \in HookNode /\ DOMAIN list = 1 .. Len(list) /\ Len(list) \in Nat
    BY ListParts
  <2>2. x.id \in Nodes /\ x.obj \in Hooks \cup {Null}
    BY <2>1, NodeParts
  <2> QED
    BY <2>1, <2>2
<1>2. \A i \in 1 .. n : list[i].id # x.id /\ (x.obj # Null => list[i].obj # x.obj)
  BY <1>1 DEF ListOK, NodesOnce, EntriesOnce
<1>3. CASE n = 0
  <2>1. kept = <<>>
    BY <1>3 DEF KeptOf
  <2>2. x.id = Root
    BY <1>3 DEF ListOK
  <2> HIDE DEF x
  <2>3. new = <<x>>
    BY <2>1 DEF Moved
  <2>4. PICK one : one = <<x>>
    OBVIOUS
  <2>5. one \in Seq(HookNode) /\ Len(one) = 1 /\ one[1] = x /\ DOMAIN one = {1}
    BY <1>1, <2>4
  <2>6. ListOK(one)
    BY <2>2, <2>5 DEF ListOK, NodesOnce, EntriesOnce
  <2>7. \A i \in 1 .. 1 : list[i] = x
    BY <1>3 DEF x
  <2>8. KeptOf(one, list, 1)
    BY <2>5, <2>6, <2>7 DEF KeptOf
  <2> QED
    BY <1>3, <2>3, <2>4, <2>8 DEF x
<1>4. CASE n # 0
  <2>1. ListOK(kept) /\ kept # <<>>
    <3>1. ListOK(kept)
      BY <1>4 DEF KeptOf
    <3> QED
      BY <3>1 DEF ListOK
  <2> DEFINE k == Len(kept)
  <2>2. k \in DOMAIN kept /\ Last(kept) = kept[k]
    BY <2>1, ListParts
  <2>3. x.id \notin NodesOf(kept)
    BY <1>2, <1>4 DEF KeptOf, NodesOf
  <2>4. x.obj = Null \/ x.obj \notin EntriesOf(kept)
    BY <1>2, <1>4 DEF KeptOf, EntriesOf
  <2>5. /\ \A j \in DOMAIN kept : \E i \in 1 .. n + 1 : kept[j].id = list[i].id
        /\ \A j \in DOMAIN kept : kept[j].obj # Null =>
              \E i \in 1 .. n + 1 : kept[j].obj = list[i].obj
        /\ \A i \in 1 .. n : list[i].obj # Null =>
              \E j \in DOMAIN kept : kept[j].obj = list[i].obj
    BY <1>1, <1>4 DEF KeptOf
  <2>6. CASE kept[k].obj = Null
    <3> HIDE DEF x, k
    <3>1. new = ReplaceAt(kept, k, Node(kept[k].id, x.obj))
      BY <2>1, <2>2, <2>6 DEF Moved, k
    <3>2. /\ ListOK(new) /\ DOMAIN new = DOMAIN kept
          /\ \A j \in DOMAIN kept :
               /\ new[j].id = kept[j].id
               /\ new[j].obj = IF j = k THEN x.obj ELSE kept[j].obj
      <4> HIDE DEF new
      <4> QED
        BY <1>1, <2>1, <2>2, <2>4, <3>1, EntrySet
    <3> HIDE DEF new
    <3>3. \A j \in DOMAIN new : \E i \in 1 .. n + 1 : new[j].id = list[i].id
      BY <2>5, <3>2
    <3>4. \A j \in DOMAIN new : new[j].obj # Null => \E i \in 1 .. n + 1 : new[j].obj = list[i].obj
      BY <1>1, <2>5, <3>2 DEF x
    <3>5. \A i \in 1 .. n : list[i].obj # Null => \E j \in DOMAIN new : new[j].obj = list[i].obj
      BY <2>5, <2>6, <3>2
    <3>6. \A i \in 1 .. n + 1 : list[i].obj # Null => \E j \in DOMAIN new : new[j].obj = list[i].obj
      BY <1>1, <2>2, <3>2, <3>5 DEF x
    <3> QED
      BY <1>1, <3>2, <3>3, <3>4, <3>6 DEF KeptOf, new, x
  <2>7. CASE kept[k].obj # Null
    <3> HIDE DEF x
    <3>1. new = Behind(kept, x)
      BY <2>2, <2>7 DEF Moved, Behind
    <3> HIDE DEF new, k
    <3>2. ListOK(new)
      BY <1>1, <2>1, <2>3, <2>4, <3>1, NodeAdded
    <3>3. \A j \in DOMAIN kept : new[j] = kept[j]
      BY <1>1, <2>1, <3>1, BehindKeeps
    <3>4. PICK p : p = Len(new)
      OBVIOUS
    <3>5. DOMAIN new = DOMAIN kept \cup {p} /\ new[p] = x
      BY <1>1, <2>1, <3>1, <3>4, BehindIsLast
    <3>6. \A j \in DOMAIN new : \E i \in 1 .. n + 1 : new[j].id = list[i].id
      BY <1>1, <2>5, <3>3, <3>5 DEF x
    <3>7. \A j \in DOMAIN new : new[j].obj # Null => \E i \in 1 .. n + 1 : new[j].obj = list[i].obj
      BY <1>1, <2>5, <3>3, <3>5 DEF x
    <3>8. \A i \in 1 .. n : list[i].obj # Null => \E j \in DOMAIN new : new[j].obj = list[i].obj
      BY <2>5, <3>3, <3>5
    <3>9. \A i \in 1 .. n + 1 : list[i].obj # Null => \E j \in DOMAIN new : new[j].obj = list[i].obj
      BY <1>1, <3>5, <3>8 DEF x
    <3> QED
      BY <1>1, <3>2, <3>6, <3>7, <3>9 DEF KeptOf, new, x
  <2> QED
    BY <2>6, <2>7
<1> QED
  BY <1>3, <1>4

\* The walk that compacts a list, up to a node.
Walks(f, list, m) ==
    f = [n \in 0 .. m |-> IF n = 0 THEN <<>> ELSE Moved(f[n - 1], list[n])]

\* There is such a walk to each node.
LEMMA WalkExists ==
    ASSUME NEW list, NEW l \in Nat
    PROVE  \E f : Walks(f, list, l)
<1> DEFINE bad == {m \in 0 .. l : ~ \E f : Walks(f, list, m)}
<1>1. CASE bad = {}
  BY <1>1
<1>2. CASE bad # {}
  <2>1. PICK m \in bad : \A y \in bad : m <= y
    <3>1. bad \subseteq Nat
      OBVIOUS
    <3> HIDE DEF bad
    <3> QED
      BY <1>2, <3>1, LeastNumber
  <2>2. m \in 0 .. l /\ ~ \E f : Walks(f, list, m)
    OBVIOUS
  <2>3. CASE m = 0
    <3> DEFINE f == [n \in 0 .. 0 |-> <<>>]
    <3>1. f = [n \in 0 .. 0 |-> IF n = 0 THEN <<>> ELSE Moved(f[n - 1], list[n])]
      OBVIOUS
    <3> QED
      BY <2>2, <2>3, <3>1 DEF Walks
  <2>4. CASE m # 0
    <3>1. m - 1 \in 0 .. l /\ ~ m <= m - 1
      BY <2>2, <2>4
    <3>2. m - 1 \notin bad
      BY <2>1, <3>1
    <3>3. PICK g : Walks(g, list, m - 1)
      BY <3>1, <3>2
    <3> HIDE DEF bad
    <3> DEFINE f == [n \in 0 .. m |-> IF n = m THEN Moved(g[m - 1], list[m]) ELSE g[n]]
    <3>4. \A n \in 0 .. m - 1 : f[n] = g[n]
      BY <2>2, <2>4
    <3>5. f[m] = Moved(f[m - 1], list[m])
      BY <2>2, <2>4, <3>4
    <3>6. ASSUME NEW n \in 0 .. m - 1
          PROVE  g[n] = IF n = 0 THEN <<>> ELSE Moved(g[n - 1], list[n])
      BY <3>3 DEF Walks
    <3>7. ASSUME NEW n \in 0 .. m
          PROVE  f[n] = IF n = 0 THEN <<>> ELSE Moved(f[n - 1], list[n])
      <4>1. CASE n = m
        BY <2>4, <3>5, <4>1
      <4>2. CASE n # m
        <5>1. n \in 0 .. m - 1 /\ (n # 0 => n - 1 \in 0 .. m - 1)
          BY <2>2, <4>2
        <5>2. f[n] = g[n] /\ (n # 0 => f[n - 1] = g[n - 1])
          BY <3>4, <5>1
        <5> HIDE DEF f
        <5> QED
          BY <3>6, <5>1, <5>2
      <4> QED
        BY <4>1, <4>2
    <3>8. f = [n \in 0 .. m |-> f[n]]
      OBVIOUS
    <3>9. Walks(f, list, m)
      <4> HIDE DEF f
      <4> QED
        BY <3>7, <3>8 DEF Walks
    <3> QED
      BY <2>2, <3>9
  <2> QED
    BY <2>3, <2>4
<1> QED
  BY <1>1, <1>2

\* Compacting takes it to the end.
LEMMA CompactedByWalk ==
    ASSUME NEW list, NEW l \in Nat, l = Len(list)
    PROVE  \E f : Walks(f, list, l) /\ Compacted(list) = f[l]
<1> DEFINE W(f) == f = [n \in 0 .. Len(list) |->
                          IF n = 0 THEN <<>> ELSE Moved(f[n - 1], list[n])]
           kept == CHOOSE f : W(f)
<1>1. \E f : W(f)
  BY WalkExists DEF Walks
<1>2. W(kept)
  <2> HIDE DEF W
  <2> QED
    BY <1>1
<1>3. Compacted(list) = kept[Len(list)]
  BY DEF Compacted
<1>4. Walks(kept, list, l)
  <2> HIDE DEF kept
  <2> QED
    BY <1>2 DEF Walks
<1> QED
  BY <1>3, <1>4

\* Compacting keeps the entries, each once, in nodes of the list.
LEMMA CompactedKeeps ==
    ASSUME NEW list, ListOK(list)
    PROVE  KeptOf(Compacted(list), list, Len(list))
<1>1. PICK l \in Nat : l = Len(list) /\ DOMAIN list = 1 .. l
  BY ListParts
<1>2. PICK f : Walks(f, list, l) /\ Compacted(list) = f[l]
  BY <1>1, CompactedByWalk
<1>3. ASSUME NEW n \in 0 .. l
      PROVE  f[n] = IF n = 0 THEN <<>> ELSE Moved(f[n - 1], list[n])
  BY <1>2 DEF Walks
<1> DEFINE bad == {n \in 0 .. l : ~ KeptOf(f[n], list, n)}
<1>4. CASE bad = {}
  <2>1. KeptOf(f[l], list, l)
    BY <1>4
  <2> QED
    BY <1>1, <1>2, <2>1
<1>5. CASE bad # {}
  <2>1. PICK m \in bad : \A y \in bad : m <= y
    <3>1. bad \subseteq Nat
      OBVIOUS
    <3> HIDE DEF bad
    <3> QED
      BY <1>5, <3>1, LeastNumber
  <2>2. m \in 0 .. l /\ ~ KeptOf(f[m], list, m)
    OBVIOUS
  <2>3. CASE m = 0
    BY <1>3, <2>2, <2>3 DEF KeptOf
  <2>4. CASE m # 0
    <3>1. m - 1 \in 0 .. l /\ ~ m <= m - 1
      BY <2>2, <2>4
    <3>2. m - 1 \notin bad
      BY <2>1, <3>1
    <3>3. PICK k \in Nat : k = m - 1 /\ k + 1 = m /\ k + 1 \in DOMAIN list
      BY <1>1, <2>2, <2>4
    <3>4. KeptOf(f[k], list, k)
      BY <3>1, <3>2, <3>3
    <3>5. f[m] = Moved(f[k], list[k + 1])
      BY <1>3, <2>2, <2>4, <3>3
    <3>6. PICK kept : kept = f[k]
      OBVIOUS
    <3>7. KeptOf(Moved(kept, list[k + 1]), list, k + 1)
      BY <3>3, <3>4, <3>6, MovedKeeps
    <3> QED
      BY <2>2, <3>3, <3>5, <3>6, <3>7
  <2> QED
    BY <2>3, <2>4
<1> QED
  BY <1>4, <1>5

\* So a compacted list is one of the same hooks.
LEMMA CompactedIsList ==
    ASSUME NEW list, ListOK(list)
    PROVE  /\ ListOK(Compacted(list))
           /\ EntriesOf(Compacted(list)) = EntriesOf(list)
<1>1. PICK l \in Nat : l = Len(list) /\ DOMAIN list = 1 .. l /\ l # 0
  BY ListParts
<1>2. PICK new : new = Compacted(list)
  OBVIOUS
<1>3. KeptOf(new, list, l)
  BY <1>1, <1>2, CompactedKeeps
<1>4. /\ ListOK(new)
      /\ \A j \in DOMAIN new : new[j].obj # Null =>
           \E i \in DOMAIN list : new[j].obj = list[i].obj
      /\ \A i \in DOMAIN list : list[i].obj # Null =>
           \E j \in DOMAIN new : new[j].obj = list[i].obj
  BY <1>1, <1>3 DEF KeptOf
<1>5. EntriesOf(new) = EntriesOf(list)
  BY <1>4 DEF EntriesOf
<1> QED
  BY <1>2, <1>4, <1>5

-----------------------------------------------------------------------------
(* Walks *)

\* A list changed under the walks: the nodes are where they were, and the
\* hooks of a set are at the same nodes as before.
ChangedBut(list, new, hs) ==
    /\ DOMAIN list \subseteq DOMAIN new
    /\ \A j \in DOMAIN list : new[j].id = list[j].id
    /\ \A j \in DOMAIN new : new[j].obj \in hs =>
         j \in DOMAIN list /\ list[j].obj = new[j].obj

\* A walk is not disturbed by what happens to hooks that did not stay.
LEMMA ProgressKept ==
    ASSUME NEW t \in Threads, Progress(t), Complete(t), ListOK(hooks), ListOK(hooks'),
           ChangedBut(hooks, hooks', stayed'[t]), stayed'[t] \subseteq stayed[t],
           running'[t] = running[t], at'[t] = at[t], walked'[t] = walked[t]
    PROVE  Progress(t)' /\ Complete(t)'
<1>1. Complete(t)'
  BY DEF Complete
<1>2. ASSUME running[t] # Null
      PROVE  at[t] \in NodesOf(hooks')
  BY <1>2 DEF Progress, NodesOf, ChangedBut
<1>3. ASSUME running[t] # Null,
             NEW p \in DOMAIN hooks', hooks'[p].id = at[t],
             NEW i \in DOMAIN hooks', hooks'[i].obj \in stayed'[t]
      PROVE  /\ i <= p => RanOnce(walked[t], hooks'[i].obj)
             /\ i > p => ~ Ran(walked[t], hooks'[i].obj)
             /\ hooks'[i].obj = running[t] => i = p
  <2>1. PICK q \in DOMAIN hooks : hooks[q].id = at[t]
    BY <1>3 DEF Progress, NodesOf
  <2>2. q \in DOMAIN hooks' /\ hooks'[q].id = at[t]
    BY <2>1 DEF ChangedBut
  <2>3. p = q
    BY <1>3, <2>2 DEF ListOK, NodesOnce
  <2>4. i \in DOMAIN hooks /\ hooks[i].obj = hooks'[i].obj /\ hooks[i].obj \in stayed[t]
    BY <1>3 DEF ChangedBut
  <2> QED
    BY <1>3, <2>1, <2>3, <2>4 DEF Progress
<1> QED
  BY <1>1, <1>2, <1>3 DEF Progress

\* What setHook leaves alone keeps its type.
LEMMA WalksKept ==
    ASSUME PInv, UNCHANGED <<hookCount, at, running, walked>>,
           known' \subseteq Hooks, stayed' \in [Threads -> SUBSET known'],
           ListOK(hooks'), hookAppend' \in Nodes, hookHole' \in BOOLEAN,
           \A t \in Threads : /\ stayed'[t] \subseteq stayed[t]
                              /\ ChangedBut(hooks, hooks', stayed'[t])
    PROVE  TypeOK' /\ WalksTyped' /\ Counted' /\ WalksOK'
<1>1. TypeOK'
  BY DEF PInv, TypeOK, ListOK, HookNode
<1>2. WalksTyped'
  BY DEF PInv, WalksTyped
<1>3. Counted'
  BY DEF PInv, Counted, Walking
<1>4. WalksOK'
  BY ProgressKept DEF PInv, WalksOK, HooksOK
<1> QED
  BY <1>1, <1>2, <1>3, <1>4

\* Setting a hook keeps the invariant.
LEMMA AddKeeps ==
    ASSUME PInv, NEW h \in Hooks, AddHook(h)
    PROVE  PInv'
<1>1. /\ ListOK(hooks) /\ EntriesOf(hooks) = known /\ hookAppend \in NodesOf(hooks)
      /\ known \subseteq Hooks /\ h \notin known /\ Null \notin Hooks
      /\ stayed \in [Threads -> SUBSET known]
  BY HooksAssumption DEF PInv, HooksOK, AddHook, TypeOK, WalksTyped
<1>2. PICK n \in Nodes : /\ NodeForAppend(hooks, n)
                         /\ hooks' = AppendAt(hooks, n, h) /\ hookAppend' = n
  BY <1>1 DEF AddHook
<1>3. /\ known' = known \cup {h}
      /\ UNCHANGED <<hookCount, hookHole, at, running, walked, stayed>>
  BY DEF AddHook
<1>4. /\ ListOK(hooks') /\ DOMAIN hooks \subseteq DOMAIN hooks'
      /\ \A j \in DOMAIN hooks : hooks'[j].id = hooks[j].id
  BY <1>1, <1>2, HookAppended
<1>5. PICK p \in DOMAIN hooks' :
        /\ hooks'[p].id = n /\ hooks'[p].obj = h
        /\ \A j \in DOMAIN hooks' \ {p} : j \in DOMAIN hooks /\ hooks'[j].obj = hooks[j].obj
        /\ p \in DOMAIN hooks => hooks[p].obj = Null
  BY <1>1, <1>2, HookAppended
<1>6. EntriesOf(hooks') = known'
  <2>1. \A o : o \in EntriesOf(hooks') => o \in known'
    BY <1>1, <1>3, <1>5 DEF EntriesOf
  <2>2. h \in EntriesOf(hooks')
    BY <1>1, <1>5 DEF EntriesOf
  <2>3. \A o \in known : o \in EntriesOf(hooks')
    BY <1>1, <1>4, <1>5 DEF EntriesOf
  <2> QED
    BY <1>3, <2>1, <2>2, <2>3
<1>7. hookAppend' \in NodesOf(hooks') /\ hookAppend' \in Nodes
  BY <1>2, <1>5 DEF NodesOf
<1>8. ASSUME NEW t \in Threads
      PROVE  stayed'[t] \subseteq stayed[t] /\ ChangedBut(hooks, hooks', stayed'[t])
  <2>1. h \notin stayed'[t] /\ stayed'[t] = stayed[t]
    BY <1>1, <1>3
  <2> QED
    BY <1>4, <1>5, <2>1 DEF ChangedBut
<1>9. known' \subseteq Hooks /\ stayed' \in [Threads -> SUBSET known'] /\ hookHole' \in BOOLEAN
  BY <1>1, <1>3 DEF PInv, TypeOK
<1>10. TypeOK' /\ WalksTyped' /\ Counted' /\ WalksOK'
  BY <1>3, <1>4, <1>7, <1>8, <1>9, WalksKept
<1>11. HooksOK'
  BY <1>4, <1>6, <1>7 DEF HooksOK
<1> QED
  BY <1>10, <1>11 DEF PInv

\* Removing one, too.
LEMMA RemoveKeeps ==
    ASSUME PInv, NEW h \in Hooks, RemoveHook(h)
    PROVE  PInv'
<1>1. /\ ListOK(hooks) /\ EntriesOf(hooks) = known /\ hookAppend \in NodesOf(hooks)
      /\ known \subseteq Hooks /\ Null \notin Hooks /\ hookAppend \in Nodes
      /\ stayed \in [Threads -> SUBSET known]
  BY HooksAssumption DEF PInv, HooksOK, TypeOK, WalksTyped
<1>2. PICK p \in DOMAIN hooks : hooks[p].obj = h /\ hooks' = ClearEntry(hooks, p)
  BY DEF RemoveHook
<1>3. /\ known' = known \ {h} /\ hookHole' = TRUE
      /\ stayed' = [t \in Threads |-> stayed[t] \ {h}]
      /\ UNCHANGED <<hookAppend, hookCount, at, running, walked>>
  BY DEF RemoveHook
<1>4. /\ ListOK(hooks') /\ DOMAIN hooks' = DOMAIN hooks
      /\ \A j \in DOMAIN hooks :
           /\ hooks'[j].id = hooks[j].id
           /\ hooks'[j].obj = IF j = p THEN Null ELSE hooks[j].obj
  BY <1>1, <1>2, EntrySet DEF ClearEntry
<1>5. EntriesOf(hooks') = known'
  <2>1. \A j \in DOMAIN hooks : j # p => hooks[j].obj # h
    BY <1>1, <1>2 DEF ListOK, EntriesOnce
  <2>2. \A o : o \in EntriesOf(hooks') => o \in known'
    BY <1>1, <1>3, <1>4, <2>1 DEF EntriesOf
  <2>3. \A o \in known' : o \in EntriesOf(hooks')
    BY <1>1, <1>2, <1>3, <1>4 DEF EntriesOf
  <2> QED
    BY <2>2, <2>3
<1>6. hookAppend' \in NodesOf(hooks') /\ hookAppend' \in Nodes
  BY <1>1, <1>3, <1>4 DEF NodesOf
<1>7. ASSUME NEW t \in Threads
      PROVE  stayed'[t] \subseteq stayed[t] /\ ChangedBut(hooks, hooks', stayed'[t])
  <2>1. stayed'[t] = stayed[t] \ {h} /\ Null \notin stayed'[t]
    BY <1>1, <1>3
  <2> QED
    BY <1>4, <2>1 DEF ChangedBut
<1>8. known' \subseteq Hooks /\ stayed' \in [Threads -> SUBSET known'] /\ hookHole' \in BOOLEAN
  BY <1>1, <1>3
<1>9. TypeOK' /\ WalksTyped' /\ Counted' /\ WalksOK'
  BY <1>3, <1>4, <1>6, <1>7, <1>8, WalksKept
<1>10. HooksOK'
  BY <1>4, <1>5, <1>6 DEF HooksOK
<1> QED
  BY <1>9, <1>10 DEF PInv

\* What a walk ran when it runs one more hook.
LEMMA RanMore ==
    ASSUME NEW s \in Seq(Hooks), NEW h \in Hooks, NEW new, new = Append(s, h)
    PROVE  /\ new \in Seq(Hooks)
           /\ \A g : g # h /\ ~ Ran(s, g) => ~ Ran(new, g)
           /\ \A g : g # h /\ RanOnce(s, g) => RanOnce(new, g)
           /\ ~ Ran(s, h) => RanOnce(new, h)
<1>1. PICK l \in Nat : l = Len(s) /\ DOMAIN s = 1 .. l
  BY LenProperties
<1>2. /\ new \in Seq(Hooks) /\ Len(new) = l + 1
      /\ \A i \in 1 .. l : new[i] = s[i]
      /\ new[l + 1] = h
  BY <1>1, AppendProperties
<1>3. DOMAIN new = 1 .. l + 1
  BY <1>2, LenProperties
<1>4. DOMAIN new = DOMAIN s \cup {l + 1} /\ l + 1 \notin DOMAIN s
  BY <1>1, <1>3
<1>5. \A i \in DOMAIN s : new[i] = s[i]
  BY <1>1, <1>2
<1>6. \A g : g # h /\ ~ Ran(s, g) => ~ Ran(new, g)
  BY <1>2, <1>4, <1>5 DEF Ran
<1>7. \A g : g # h /\ RanOnce(s, g) => RanOnce(new, g)
  BY <1>2, <1>4, <1>5 DEF RanOnce
<1>8. ~ Ran(s, h) => RanOnce(new, h)
  BY <1>2, <1>4, <1>5 DEF Ran, RanOnce
<1> QED
  BY <1>2, <1>6, <1>7, <1>8

\* A thread goes on to an entry, or its walk ends.
LEMMA GoesOn ==
    ASSUME at \in [Threads -> Nodes \cup {Null}], running \in [Threads -> Hooks \cup {Null}],
           walked \in [Threads -> Seq(Hooks)],
           NEW t \in Threads, NEW list, ListOK(list), NEW i \in Nat, GoTo(t, list, i),
           NEW k, k = SkipNull(list, i)
    PROVE  /\ at' \in [Threads -> Nodes \cup {Null}]
           /\ running' \in [Threads -> Hooks \cup {Null}]
           /\ walked' \in [Threads -> Seq(Hooks)]
           /\ \A v \in Threads \ {t} :
                at'[v] = at[v] /\ running'[v] = running[v] /\ walked'[v] = walked[v]
           /\ k = 0 => running'[t] = Null /\ walked'[t] = walked[t]
           /\ k # 0 => /\ list[k].obj \in Hooks
                       /\ at'[t] = list[k].id /\ running'[t] = list[k].obj
                       /\ walked'[t] = Append(walked[t], list[k].obj)
<1>1. CASE k = 0
  <2>1. /\ at' = [at EXCEPT ![t] = Null] /\ running' = [running EXCEPT ![t] = Null]
        /\ walked' = walked
    BY <1>1 DEF GoTo
  <2> QED
    BY <1>1, <2>1
<1>2. CASE k # 0
  <2>1. k \in DOMAIN list /\ list[k].obj # Null
    BY <1>2, SkipNullFinds
  <2>2. PICK n : n = list[k]
    OBVIOUS
  <2>3. n \in HookNode /\ n.id \in Nodes /\ n.obj \in Hooks
    BY <2>1, <2>2, ListParts, NodeParts
  <2>4. /\ at' = [at EXCEPT ![t] = n.id] /\ running' = [running EXCEPT ![t] = n.obj]
        /\ walked' = [walked EXCEPT ![t] = Append(@, n.obj)]
    BY <1>2, <2>2 DEF GoTo
  <2>5. Append(walked[t], n.obj) \in Seq(Hooks)
    BY <2>3, RanMore
  <2> QED
    BY <1>2, <2>2, <2>3, <2>4, <2>5
<1> QED
  BY <1>1, <1>2

\* A walk that ran the hooks before a place and none behind goes on well.
LEMMA WalkGoesOn ==
    ASSUME at \in [Threads -> Nodes \cup {Null}], running \in [Threads -> Hooks \cup {Null}],
           walked \in [Threads -> Seq(Hooks)],
           NEW t \in Threads, ListOK(hooks'), stayed'[t] \subseteq EntriesOf(hooks'),
           NEW i \in Nat, GoTo(t, hooks', i),
           \A j \in DOMAIN hooks' : hooks'[j].obj \in stayed'[t] =>
               /\ j < i => RanOnce(walked[t], hooks'[j].obj)
               /\ j >= i => ~ Ran(walked[t], hooks'[j].obj)
    PROVE  Progress(t)' /\ Complete(t)'
<1>1. PICK k : k = SkipNull(hooks', i)
  OBVIOUS
<1>2. /\ Null \notin stayed'[t]
      /\ \A h \in stayed'[t] : \E j \in DOMAIN hooks' : hooks'[j].obj = h
      /\ DOMAIN hooks' \subseteq Nat
  <2>1. /\ Null \notin EntriesOf(hooks')
        /\ \A h \in EntriesOf(hooks') : \E j \in DOMAIN hooks' : hooks'[j].obj = h
    BY DEF EntriesOf
  <2>2. DOMAIN hooks' \subseteq Nat
    BY ListParts
  <2> QED
    BY <2>1, <2>2
<1>3. CASE k = 0
  <2>1. running'[t] = Null /\ walked'[t] = walked[t]
    BY <1>1, <1>3 DEF GoTo
  <2>2. \A j \in DOMAIN hooks' : j >= i => hooks'[j].obj = Null
    BY <1>1, <1>3, SkipNullFinds
  <2>3. ASSUME NEW h \in stayed'[t]
        PROVE  RanOnce(walked[t], h)
    <3>1. PICK j \in DOMAIN hooks' : hooks'[j].obj = h
      BY <1>2
    <3>2. j \in Nat /\ ~ j >= i
      BY <1>2, <2>2, <3>1
    <3> QED
      BY <3>1, <3>2
  <2> QED
    BY <2>1, <2>3 DEF Progress, Complete
<1>4. CASE k # 0
  <2>1. /\ k \in DOMAIN hooks' /\ k >= i /\ hooks'[k].obj # Null
        /\ \A j \in DOMAIN hooks' : j >= i /\ j < k => hooks'[j].obj = Null
    BY <1>1, <1>4, SkipNullFinds
  <2>2. PICK h : h = hooks'[k].obj
    OBVIOUS
  <2>3. /\ h \in Hooks /\ at'[t] = hooks'[k].id /\ running'[t] = h
        /\ walked'[t] = Append(walked[t], h)
    BY <1>1, <1>4, <2>2, GoesOn
  <2>4. /\ \A g : g # h /\ ~ Ran(walked[t], g) => ~ Ran(walked'[t], g)
        /\ \A g : g # h /\ RanOnce(walked[t], g) => RanOnce(walked'[t], g)
        /\ ~ Ran(walked[t], h) => RanOnce(walked'[t], h)
    BY <2>3, RanMore
  <2>5. running'[t] # Null /\ at'[t] \in NodesOf(hooks')
    BY <2>1, <2>2, <2>3 DEF NodesOf
  <2>6. \A p \in DOMAIN hooks' : hooks'[p].id = at'[t] => p = k
    BY <2>1, <2>3 DEF ListOK, NodesOnce
  <2>7. \A j \in DOMAIN hooks' : j # k => hooks'[j].obj # h
    BY <2>1, <2>2 DEF ListOK, EntriesOnce
  <2>8. ASSUME NEW j \in DOMAIN hooks', hooks'[j].obj \in stayed'[t]
        PROVE  /\ j <= k => RanOnce(walked'[t], hooks'[j].obj)
               /\ j > k => ~ Ran(walked'[t], hooks'[j].obj)
    <3>0. j \in Nat /\ k \in Nat
      BY <1>2, <2>1
    <3>1. CASE j < i
      <4>1. RanOnce(walked[t], hooks'[j].obj) /\ j < k
        BY <2>1, <2>8, <3>0, <3>1
      <4> QED
        BY <2>4, <2>7, <3>0, <4>1
    <3>2. CASE j >= i /\ j < k
      BY <1>2, <2>1, <2>8, <3>2
    <3>3. CASE j = k
      <4>1. ~ Ran(walked[t], h)
        BY <2>1, <2>2, <2>8, <3>3
      <4> QED
        BY <2>2, <2>4, <3>0, <3>3, <4>1
    <3>4. CASE j > k
      <4>1. ~ Ran(walked[t], hooks'[j].obj) /\ j # k
        BY <2>1, <2>8, <3>0, <3>4
      <4> QED
        BY <2>4, <2>7, <3>0, <3>4, <4>1
    <3> QED
      BY <3>0, <3>1, <3>2, <3>3, <3>4
  <2> QED
    BY <2>3, <2>5, <2>6, <2>7, <2>8 DEF Progress, Complete
<1> QED
  BY <1>3, <1>4

\* The threads that walk, when one begins or ends.
LEMMA WalkersCount ==
    ASSUME NEW t \in Threads,
           \A v \in Threads \ {t} : running'[v] = running[v]
    PROVE  /\ Cardinality(Walking) \in Nat
           /\ (running[t] = Null) <=> (running'[t] = Null)
                => Cardinality(Walking') = Cardinality(Walking)
           /\ running[t] = Null /\ running'[t] # Null
                => Cardinality(Walking') = Cardinality(Walking) + 1
           /\ running[t] # Null /\ running'[t] = Null
                => Cardinality(Walking') = Cardinality(Walking) - 1
           /\ Cardinality(Walking') \in 0 .. Cardinality(Threads)
<1>1. IsFiniteSet(Walking) /\ IsFiniteSet(Walking')
  BY ThreadsAssumption, FS_Subset DEF Walking
<1>2. Cardinality(Walking) \in Nat /\ Cardinality(Walking') \in Nat
  BY <1>1, FS_CardinalityType
<1>3. Cardinality(Walking') <= Cardinality(Threads) /\ Cardinality(Threads) \in Nat
  BY ThreadsAssumption, FS_Subset, FS_CardinalityType DEF Walking
<1>4. ((running[t] = Null) <=> (running'[t] = Null)) => Walking' = Walking
  BY DEF Walking
<1>5. running[t] = Null /\ running'[t] # Null => Walking' = Walking \cup {t} /\ t \notin Walking
  BY DEF Walking
<1>6. running[t] # Null /\ running'[t] = Null => Walking' = Walking \ {t} /\ t \in Walking
  BY DEF Walking
<1>7. running[t] = Null /\ running'[t] # Null => Cardinality(Walking') = Cardinality(Walking) + 1
  BY <1>1, <1>5, FS_AddElement
<1>8. running[t] # Null /\ running'[t] = Null => Cardinality(Walking') = Cardinality(Walking) - 1
  BY <1>1, <1>6, FS_RemoveElement
<1> QED
  BY <1>2, <1>3, <1>4, <1>7, <1>8

\* A dispatched message is passed to the first hook.
LEMMA DispatchedKeeps ==
    ASSUME PInv, NEW t \in Threads, Dispatched(t)
    PROVE  PInv'
<1>1. /\ ListOK(hooks) /\ EntriesOf(hooks) = known /\ hookAppend \in NodesOf(hooks)
      /\ at \in [Threads -> Nodes \cup {Null}] /\ running \in [Threads -> Hooks \cup {Null}]
      /\ walked \in [Threads -> Seq(Hooks)] /\ stayed \in [Threads -> SUBSET known]
      /\ hookCount = Cardinality(Walking) /\ known \subseteq Hooks
  BY DEF PInv, HooksOK, TypeOK, WalksTyped, Counted
<1>2. /\ running[t] = Null /\ walked[t] = <<>>
      /\ hooks' = IF MayCompact THEN Compacted(hooks) ELSE hooks
      /\ hookAppend' = IF MayCompact THEN AfterCompact(hooks') ELSE hookAppend
      /\ hookHole' = IF MayCompact THEN FALSE ELSE hookHole
      /\ GoTo(t, hooks', 1)
      /\ hookCount' = IF SkipNull(hooks', 1) = 0 THEN hookCount ELSE hookCount + 1
      /\ stayed' = [stayed EXCEPT ![t] = known] /\ known' = known
  BY DEF Dispatched
<1>3. ListOK(hooks') /\ EntriesOf(hooks') = known'
  BY <1>1, <1>2, CompactedIsList
<1>4. HooksOK'
  <2>1. MayCompact => hookAppend' \in NodesOf(hooks')
    <3>1. Root \in NodesOf(hooks')
      BY <1>3, ListParts DEF ListOK, NodesOf
    <3> QED
      BY <1>2, <3>1 DEF AfterCompact
  <2>2. hookAppend' \in NodesOf(hooks')
    BY <1>1, <1>2, <2>1
  <2> QED
    BY <1>3, <2>2 DEF HooksOK
<1>5. PICK k : k = SkipNull(hooks', 1)
  OBVIOUS
<1>6. /\ at' \in [Threads -> Nodes \cup {Null}] /\ running' \in [Threads -> Hooks \cup {Null}]
      /\ walked' \in [Threads -> Seq(Hooks)]
      /\ \A v \in Threads \ {t} :
           at'[v] = at[v] /\ running'[v] = running[v] /\ walked'[v] = walked[v]
      /\ k = 0 => running'[t] = Null
      /\ k # 0 => hooks'[k].obj \in Hooks /\ running'[t] = hooks'[k].obj
  BY <1>1, <1>2, <1>3, <1>5, GoesOn
<1>7. Counted' /\ hookCount' \in 0 .. Cardinality(Threads)
  <2>1. /\ k = 0 => Cardinality(Walking') = Cardinality(Walking)
        /\ k # 0 => Cardinality(Walking') = Cardinality(Walking) + 1
        /\ Cardinality(Walking') \in 0 .. Cardinality(Threads)
    BY <1>2, <1>6, HooksAssumption, WalkersCount
  <2>2. hookCount' = Cardinality(Walking')
    BY <1>1, <1>2, <1>5, <2>1
  <2> QED
    BY <2>1, <2>2 DEF Counted, Walking
<1>8. WalksTyped'
  BY <1>1, <1>2, <1>6 DEF WalksTyped
<1>9. TypeOK'
  <2>1. hooks' \in Seq(HookNode)
    BY <1>3 DEF ListOK
  <2>2. hookAppend' \in Nodes
    <3>1. \A j \in DOMAIN hooks' : hooks'[j].id \in Nodes
      BY <1>3, ListParts, NodeParts
    <3> QED
      BY <1>4, <3>1 DEF HooksOK, NodesOf
  <2>3. hookHole' \in BOOLEAN
    BY <1>2 DEF PInv, TypeOK
  <2> QED
    BY <1>1, <1>2, <1>6, <1>7, <2>1, <2>2, <2>3 DEF TypeOK, HookNode
<1>10. Progress(t)' /\ Complete(t)'
  <2>1. stayed'[t] = known /\ \A h : ~ Ran(walked[t], h)
    BY <1>1, <1>2 DEF Ran
  <2>2. \A j \in DOMAIN hooks' : j \in Nat /\ j >= 1
    BY <1>3, ListParts
  <2>3. ~ \E j \in DOMAIN hooks' : j < 1
    BY <2>2
  <2> QED
    BY <1>1, <1>2, <1>3, <2>1, <2>3, WalkGoesOn
<1>11. ASSUME NEW v \in Threads, v # t
       PROVE  Progress(v)' /\ Complete(v)'
  <2>1. /\ at'[v] = at[v] /\ running'[v] = running[v] /\ walked'[v] = walked[v]
        /\ stayed'[v] = stayed[v]
    BY <1>1, <1>2, <1>6, <1>11
  <2>2. Progress(v) /\ Complete(v)
    BY DEF PInv, WalksOK
  <2>3. CASE running[v] = Null
    BY <2>1, <2>2, <2>3 DEF Progress, Complete
  <2>4. CASE running[v] # Null
    <3>1. ~ MayCompact
      <4>1. v \in Walking /\ IsFiniteSet(Walking)
        BY <2>4, ThreadsAssumption, FS_Subset DEF Walking
      <4>2. Cardinality(Walking) # 0
        BY <4>1, FS_EmptySet
      <4> QED
        BY <1>1, <4>2 DEF MayCompact
    <3>2. hooks' = hooks
      BY <1>2, <3>1
    <3>3. ChangedBut(hooks, hooks', stayed'[v])
      BY <3>2 DEF ChangedBut
    <3> QED
      BY <1>1, <1>3, <2>1, <2>2, <3>3, ProgressKept
  <2> QED
    BY <2>3, <2>4
<1>12. WalksOK'
  BY <1>10, <1>11 DEF WalksOK
<1> QED
  BY <1>4, <1>7, <1>8, <1>9, <1>12 DEF PInv

\* A hook returns: the walk goes on from its node.
LEMMA ReturnKeeps ==
    ASSUME PInv, NEW t \in Threads, HookReturns(t)
    PROVE  PInv'
<1>1. /\ ListOK(hooks) /\ EntriesOf(hooks) = known
      /\ at \in [Threads -> Nodes \cup {Null}] /\ running \in [Threads -> Hooks \cup {Null}]
      /\ walked \in [Threads -> Seq(Hooks)] /\ stayed \in [Threads -> SUBSET known]
      /\ hookCount = Cardinality(Walking)
      /\ Progress(t)
  BY DEF PInv, HooksOK, TypeOK, WalksTyped, Counted, WalksOK
<1>2. PICK p : p = PlaceOf(hooks, at[t])
  OBVIOUS
<1>3. /\ running[t] # Null /\ at[t] \in NodesOf(hooks)
      /\ GoTo(t, hooks, p + 1)
      /\ hookCount' = IF SkipNull(hooks, p + 1) = 0 THEN hookCount - 1 ELSE hookCount
      /\ UNCHANGED <<hooks, hookAppend, hookHole, changes, known, stayed>>
  BY <1>2 DEF HookReturns
<1>4. p \in DOMAIN hooks /\ hooks[p].id = at[t]
  BY <1>2, <1>3, PlaceFound
<1>5. PICK i \in Nat : i = p + 1 /\ p \in Nat /\ DOMAIN hooks \subseteq Nat
  <2>1. p \in Nat /\ DOMAIN hooks \subseteq Nat
    BY <1>1, <1>4, ListParts
  <2> QED
    BY <2>1
<1>6. PICK k : k = SkipNull(hooks, i)
  OBVIOUS
<1>7. /\ at' \in [Threads -> Nodes \cup {Null}] /\ running' \in [Threads -> Hooks \cup {Null}]
      /\ walked' \in [Threads -> Seq(Hooks)]
      /\ \A v \in Threads \ {t} :
           at'[v] = at[v] /\ running'[v] = running[v] /\ walked'[v] = walked[v]
      /\ k = 0 => running'[t] = Null
      /\ k # 0 => hooks[k].obj \in Hooks /\ running'[t] = hooks[k].obj
  BY <1>1, <1>3, <1>5, <1>6, GoesOn
<1>8. Counted' /\ hookCount' \in 0 .. Cardinality(Threads)
  <2>1. /\ k = 0 => Cardinality(Walking') = Cardinality(Walking) - 1
        /\ k # 0 => Cardinality(Walking') = Cardinality(Walking)
        /\ Cardinality(Walking') \in 0 .. Cardinality(Threads)
    BY <1>3, <1>7, HooksAssumption, WalkersCount
  <2>2. hookCount' = Cardinality(Walking')
    BY <1>1, <1>3, <1>5, <1>6, <2>1
  <2> QED
    BY <2>1, <2>2 DEF Counted, Walking
<1>9. WalksTyped' /\ HooksOK'
  BY <1>1, <1>3, <1>7 DEF PInv, WalksTyped, HooksOK
<1>10. TypeOK'
  BY <1>3, <1>7, <1>8 DEF PInv, TypeOK
<1>11. Progress(t)' /\ Complete(t)'
  <2>1. ASSUME NEW j \in DOMAIN hooks, hooks[j].obj \in stayed[t]
        PROVE  /\ j < i => RanOnce(walked[t], hooks[j].obj)
               /\ j >= i => ~ Ran(walked[t], hooks[j].obj)
    <3>1. /\ j <= p => RanOnce(walked[t], hooks[j].obj)
          /\ j > p => ~ Ran(walked[t], hooks[j].obj)
      BY <1>1, <1>3, <1>4, <2>1 DEF Progress
    <3>2. j \in Nat /\ (j < i => j <= p) /\ (j >= i => j > p)
      BY <1>5
    <3> QED
      BY <3>1, <3>2
  <2>2. hooks' = hooks /\ stayed'[t] = stayed[t] /\ stayed'[t] \subseteq EntriesOf(hooks')
    BY <1>1, <1>3
  <2>3. \A j \in DOMAIN hooks' : hooks'[j].obj \in stayed'[t] =>
          /\ j < i => RanOnce(walked[t], hooks'[j].obj)
          /\ j >= i => ~ Ran(walked[t], hooks'[j].obj)
    BY <2>1, <2>2
  <2>4. GoTo(t, hooks', i) /\ ListOK(hooks')
    BY <1>1, <1>3, <1>5, <2>2
  <2> QED
    BY <1>1, <2>2, <2>3, <2>4, WalkGoesOn
<1>12. ASSUME NEW v \in Threads, v # t
       PROVE  Progress(v)' /\ Complete(v)'
  <2>1. /\ at'[v] = at[v] /\ running'[v] = running[v] /\ walked'[v] = walked[v]
        /\ stayed'[v] = stayed[v] /\ hooks' = hooks
    BY <1>3, <1>7, <1>12
  <2>2. Progress(v) /\ Complete(v)
    BY DEF PInv, WalksOK
  <2>3. ChangedBut(hooks, hooks', stayed'[v])
    BY <2>1 DEF ChangedBut
  <2> QED
    BY <1>1, <2>1, <2>2, <2>3, ProgressKept
<1>13. WalksOK'
  BY <1>11, <1>12 DEF WalksOK
<1> QED
  BY <1>8, <1>9, <1>10, <1>13 DEF PInv

\* A walk that ended is forgotten.
LEMMA EndKeeps ==
    ASSUME PInv, NEW t \in Threads, WalkEnds(t)
    PROVE  PInv'
<1>1. /\ running[t] = Null
      /\ walked' = [walked EXCEPT ![t] = <<>>] /\ stayed' = [stayed EXCEPT ![t] = {}]
      /\ UNCHANGED <<hooks, hookAppend, hookCount, hookHole, known, at, running>>
      /\ walked \in [Threads -> Seq(Hooks)] /\ stayed \in [Threads -> SUBSET known]
      /\ ListOK(hooks)
  BY DEF WalkEnds, PInv, WalksTyped, HooksOK
<1>2. TypeOK'
  BY <1>1 DEF PInv, TypeOK
<1>3. HooksOK' /\ Counted'
  BY <1>1 DEF PInv, HooksOK, Counted, Walking
<1>4. WalksTyped'
  <2>1. <<>> \in Seq(Hooks)
    OBVIOUS
  <2> QED
    BY <1>1, <2>1 DEF WalksTyped
<1>5. ASSUME NEW v \in Threads, v # t
      PROVE  Progress(v)' /\ Complete(v)'
  <2>1. walked'[v] = walked[v] /\ stayed'[v] = stayed[v]
    BY <1>1, <1>5
  <2>2. Progress(v) /\ Complete(v)
    BY DEF PInv, WalksOK
  <2>3. ChangedBut(hooks, hooks', stayed'[v])
    BY <1>1 DEF ChangedBut
  <2> QED
    BY <1>1, <2>1, <2>2, <2>3, ProgressKept
<1>6. Progress(t)' /\ Complete(t)'
  <2>1. walked'[t] = <<>> /\ running'[t] = Null
    BY <1>1
  <2> QED
    BY <2>1 DEF Progress, Complete
<1>7. WalksOK'
  BY <1>5, <1>6 DEF WalksOK
<1> QED
  BY <1>2, <1>3, <1>4, <1>7 DEF PInv

\* At the start there are no hooks and no walks.
LEMMA InitEstablishes == Init => PInv
<1> SUFFICES ASSUME Init
             PROVE  PInv
  OBVIOUS
<1>1. /\ hooks = Empty /\ hookAppend = Root /\ hookCount = 0 /\ hookHole = FALSE
      /\ known = {}
      /\ at = [t \in Threads |-> Null] /\ running = [t \in Threads |-> Null]
      /\ walked = [t \in Threads |-> <<>>] /\ stayed = [t \in Threads |-> {}]
  BY DEF Init
<1>2. PICK x \in HookNode : x = Node(Root, Null) /\ x.id = Root /\ x.obj = Null
  BY RootAssumption, NodeType
<1>3. /\ hooks \in Seq(HookNode) /\ Len(hooks) = 1 /\ hooks[1] = x /\ DOMAIN hooks = {1}
  <2>1. PICK one : one = <<x>>
    OBVIOUS
  <2>2. one \in Seq(HookNode) /\ Len(one) = 1 /\ one[1] = x /\ DOMAIN one = {1}
    BY <2>1
  <2> QED
    BY <1>1, <1>2, <2>1, <2>2 DEF Empty
<1>4. ListOK(hooks)
  BY <1>2, <1>3 DEF ListOK, NodesOnce, EntriesOnce
<1>5. HooksOK
  <2>1. EntriesOf(hooks) = {}
    BY <1>2, <1>3 DEF EntriesOf
  <2>2. Root \in NodesOf(hooks)
    BY <1>2, <1>3 DEF NodesOf
  <2> QED
    BY <1>1, <1>4, <2>1, <2>2 DEF HooksOK
<1>6. Counted
  <2>1. Walking = {}
    BY <1>1 DEF Walking
  <2> QED
    BY <1>1, <2>1, FS_EmptySet DEF Counted
<1>7. TypeOK
  <2>1. Cardinality(Threads) \in Nat
    BY ThreadsAssumption, FS_CardinalityType
  <2>2. 0 \in 0 .. Cardinality(Threads)
    BY <2>1
  <2>3. hooks \in Seq([id : Nodes, obj : Hooks \cup {Null}])
    BY <1>3 DEF HookNode
  <2> QED
    BY <1>1, <2>2, <2>3, RootAssumption DEF TypeOK
<1>8. WalksTyped
  <2>1. <<>> \in Seq(Hooks)
    OBVIOUS
  <2> QED
    BY <1>1, <2>1 DEF WalksTyped
<1>9. WalksOK
  BY <1>1 DEF WalksOK, Progress, Complete
<1> QED
  BY <1>5, <1>6, <1>7, <1>8, <1>9 DEF PInv

\* Every step keeps the invariant.
LEMMA StepKeeps ==
    ASSUME PInv, [Next]_vars
    PROVE  PInv'
<1>1. CASE \E h \in Hooks : SetHook(h)
  BY <1>1, AddKeeps, RemoveKeeps DEF SetHook
<1>2. CASE \E t \in Threads : Thread(t)
  BY <1>2, DispatchedKeeps, ReturnKeeps, EndKeeps DEF Thread
<1>3. CASE UNCHANGED vars
  <2>1. UNCHANGED <<hooks, hookAppend, hookCount, hookHole, known, at, running,
                    walked, stayed>>
    BY <1>3 DEF vars
  <2>2. TypeOK' /\ HooksOK' /\ WalksTyped' /\ Counted'
    BY <2>1 DEF PInv, TypeOK, HooksOK, WalksTyped, Counted, Walking
  <2>3. WalksOK'
    BY <2>1 DEF PInv, WalksOK, Progress, Complete
  <2> QED
    BY <2>2, <2>3 DEF PInv
<1> QED
  BY <1>1, <1>2, <1>3 DEF Next

-----------------------------------------------------------------------------
(* The theorems *)

\* The strengthening of the three invariants is one.
THEOREM HooksInvariant == Spec => []PInv
BY InitEstablishes, StepKeeps, PTL DEF Spec

\* The list holds each hook that was set and not removed, once and no other.
THEOREM SetHooksAreListedHolds == Spec => []SetHooksAreListed
<1>1. PInv => SetHooksAreListed
  BY DEF PInv, HooksOK, ListOK, EntriesOf, EntriesOnce, SetHooksAreListed
<1> QED
  BY <1>1, HooksInvariant, PTL

\* No walk loses the node it will go on from, and each is counted, so that the
\* list is never compacted under one.
THEOREM WalkersStayOnTheListHolds == Spec => []WalkersStayOnTheList
<1>1. ASSUME PInv
      PROVE  WalkersStayOnTheList
  <2>1. hookCount = Cardinality({t \in Threads : running[t] # Null})
    BY <1>1 DEF PInv, Counted, Walking
  <2>2. ASSUME NEW t \in Threads, running[t] # Null
        PROVE  \E i \in DOMAIN hooks :
                  /\ hooks[i].id = at[t]
                  /\ running[t] \in stayed[t] => hooks[i].obj = running[t]
    <3>1. Progress(t) /\ EntriesOf(hooks) = known /\ stayed[t] \subseteq known
      BY <1>1 DEF PInv, WalksOK, HooksOK, WalksTyped
    <3>2. PICK p \in DOMAIN hooks : hooks[p].id = at[t]
      BY <2>2, <3>1 DEF Progress, NodesOf
    <3>3. CASE running[t] \in stayed[t]
      <4>1. PICK i \in DOMAIN hooks : hooks[i].obj = running[t]
        BY <3>1, <3>3 DEF EntriesOf
      <4>2. i = p
        BY <2>2, <3>1, <3>2, <3>3, <4>1 DEF Progress
      <4> QED
        BY <3>2, <4>1, <4>2
    <3> QED
      BY <3>2, <3>3
  <2> QED
    BY <2>1, <2>2 DEF WalkersStayOnTheList
<1> QED
  BY <1>1, HooksInvariant, PTL

\* A walk runs every hook that was set during all of it exactly once.
THEOREM EachHookRunsOnceHolds == Spec => []EachHookRunsOnce
<1>1. ASSUME NEW walk, NEW h, RanOnce(walk, h)
      PROVE  Cardinality({i \in DOMAIN walk : walk[i] = h}) = 1
  <2>1. PICK i \in DOMAIN walk : \A j \in DOMAIN walk : walk[j] = h <=> j = i
    BY <1>1 DEF RanOnce
  <2>2. {j \in DOMAIN walk : walk[j] = h} = {i}
    BY <2>1
  <2> QED
    BY <2>2, FS_Singleton
<1>2. PInv => EachHookRunsOnce
  <2> SUFFICES ASSUME PInv, NEW t \in Threads, running[t] = Null, walked[t] # <<>>,
                      NEW h \in stayed[t]
               PROVE  Cardinality({i \in DOMAIN walked[t] : walked[t][i] = h}) = 1
    BY DEF EachHookRunsOnce
  <2>1. RanOnce(walked[t], h)
    BY DEF PInv, WalksOK, Complete
  <2> QED
    BY <1>1, <2>1
<1> QED
  BY <1>2, HooksInvariant, PTL
=============================================================================
