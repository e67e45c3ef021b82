------------------------------- MODULE ObjList -------------------------------
(***************************************************************************)
(* TelEngine's linked list (src/yate/engine/ObjList.cpp) as a sequence of  *)
(* nodes.  What callers that keep pointers into a list depend on is which  *)
(* NODE survives an operation: the head is part of the list's owner and    *)
(* never goes, and removing the entry of a node moves the entry of the     *)
(* next node into it and frees that next one.                              *)
(***************************************************************************)
EXTENDS Naturals, SequencesExt

CONSTANTS
    Nodes,     \* the addresses of nodes; a freed one is used again
    Root,      \* the node inside the list's owner
    Null       \* the entry of an empty node

ASSUME RootAssumption == Root \in Nodes

Node(n, o) == [id |-> n, obj |-> o]

Empty == <<Node(Root, Null)>>

NodesOf(list) == {list[i].id : i \in DOMAIN list}
FreeNodes(list) == Nodes \ NodesOf(list)

PlaceOf(list, n) == CHOOSE i \in DOMAIN list : list[i].id = n

\* append reuses the last node if it is empty and takes a new one otherwise
NodeForAppend(list, n) ==
    IF Last(list).obj = Null THEN n = Last(list).id ELSE n \in FreeNodes(list)

AppendAt(list, n, o) ==
    IF n = Last(list).id THEN Append(Front(list), Node(n, o))
    ELSE Append(list, Node(n, o))

\* remove gives a node the entry of the next one, which is freed
RemoveEntry(list, i) ==
    IF i = Len(list) THEN ReplaceAt(list, i, Node(list[i].id, Null))
    ELSE RemoveAt(ReplaceAt(list, i, Node(list[i].id, list[i + 1].obj)), i + 1)

\* an entry is set to nothing and its node stays
ClearEntry(list, i) == ReplaceAt(list, i, Node(list[i].id, Null))

\* the first node with an entry at or after a place, 0 when there is none
SkipNull(list, i) ==
    LET full == {k \in DOMAIN list : k >= i /\ list[k].obj # Null}
    IN  IF full = {} THEN 0 ELSE CHOOSE k \in full : \A j \in full : k <= j
=============================================================================
