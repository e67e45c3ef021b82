------------------------------ MODULE PostHooks ------------------------------
(***************************************************************************)
(* The hooks that the hub calls after it dispatched a message (Message.cpp,*)
(* the end of dispatch, and setHook).  Threads walk the list of hooks and  *)
(* drop the mutex while one runs, so a removed hook leaves a hole behind:  *)
(* the node stays, and holes are compacted when a walk begins while no     *)
(* other is under way.                                                     *)
(***************************************************************************)
EXTENDS ObjList

CONSTANTS
    Hooks,       \* the hooks
    Threads,     \* the threads that dispatch messages
    MaxChanges   \* bound on the setHook calls of a run

ASSUME HooksAssumption == Null \notin Hooks
ASSUME ThreadsAssumption == IsFiniteSet(Threads)
ASSUME MaxChangesAssumption == MaxChanges \in Nat

VARIABLES
    hooks,       \* m_hooks
    hookAppend,  \* m_hookAppend: a node
    hookCount,   \* m_hookCount: the walks under way
    hookHole,    \* m_hookHole
    changes,     \* counts the calls of setHook
    known,       \* history: the hooks that are set
    at,          \* l: the node a thread is at, Null for none
    running,     \* the hook a thread runs, Null for none
    walked,      \* history: the hooks a thread ran in its walk
    stayed       \* history: the hooks set ever since a walk began

vars == <<hooks, hookAppend, hookCount, hookHole, changes, known, at, running,
          walked, stayed>>

\* through a cached node that is gone the hook would reach no list
AddHook(h) ==
    /\ h \notin known /\ changes < MaxChanges
    /\ \E n \in Nodes :
         /\ NodeForAppend(hooks, n)
         /\ hooks' = IF hookAppend \in NodesOf(hooks)
                     THEN AppendAt(hooks, n, h) ELSE hooks
         /\ hookAppend' = n
    /\ known' = known \cup {h}
    /\ changes' = changes + 1
    /\ UNCHANGED <<hookCount, hookHole, at, running, walked, stayed>>

RemoveHook_NoHole(h) ==
    /\ h \in known /\ changes < MaxChanges
    /\ \E i \in DOMAIN hooks :
         hooks[i].obj = h /\ hooks' = RemoveEntry(hooks, i)
    /\ known' = known \ {h}
    /\ changes' = changes + 1
    /\ stayed' = [t \in Threads |-> stayed[t] \ {h}]
    /\ UNCHANGED <<hookAppend, hookCount, hookHole, at, running, walked>>

\* the node of the removed hook stays, with no entry
RemoveHook(h) ==
    /\ h \in known /\ changes < MaxChanges
    /\ \E i \in DOMAIN hooks :
         hooks[i].obj = h /\ hooks' = ClearEntry(hooks, i)
    /\ hookHole' = TRUE
    /\ known' = known \ {h}
    /\ changes' = changes + 1
    /\ stayed' = [t \in Threads |-> stayed[t] \ {h}]
    /\ UNCHANGED <<hookAppend, hookCount, at, running, walked>>

\* Compacting fills each hole with the entry of the next node and frees that
\* one; a hole at the end stays.
Moved(kept, n) ==
    IF kept # <<>> /\ Last(kept).obj = Null
    THEN ReplaceAt(kept, Len(kept), Node(Last(kept).id, n.obj))
    ELSE Append(kept, n)

Compacted(list) ==
    LET kept[n \in 0 .. Len(list)] ==
          IF n = 0 THEN <<>> ELSE Moved(kept[n - 1], list[n])
    IN  kept[Len(list)]

MayCompact_Always == hookHole

MayCompact == hookHole /\ hookCount = 0

AfterCompact_Kept(list) == hookAppend

AfterCompact(list) == IF hookAppend \in NodesOf(list) THEN hookAppend ELSE Root

\* a thread goes on to the next hook in a list, or its walk ends
GoTo(t, list, i) ==
    IF SkipNull(list, i) = 0
    THEN /\ at' = [at EXCEPT ![t] = Null]
         /\ running' = [running EXCEPT ![t] = Null]
         /\ UNCHANGED walked
    ELSE LET n == list[SkipNull(list, i)]
         IN  /\ at' = [at EXCEPT ![t] = n.id]
             /\ running' = [running EXCEPT ![t] = n.obj]
             /\ walked' = [walked EXCEPT ![t] = Append(@, n.obj)]

Dispatched(t) ==
    /\ running[t] = Null /\ walked[t] = <<>>
    /\ \E list \in {IF MayCompact THEN Compacted(hooks) ELSE hooks} :
         /\ hooks' = list
         /\ hookAppend' = IF MayCompact THEN AfterCompact(list) ELSE hookAppend
         /\ hookHole' = IF MayCompact THEN FALSE ELSE hookHole
         /\ GoTo(t, list, 1)
         /\ hookCount' = IF SkipNull(list, 1) = 0 THEN hookCount ELSE hookCount + 1
    /\ stayed' = [stayed EXCEPT ![t] = known]
    /\ UNCHANGED <<changes, known>>

\* the hook returned: the walk goes on from its node, or is left undefined
\* when that node is gone
HookReturns(t) ==
    /\ running[t] # Null
    /\ at[t] \in NodesOf(hooks)
    /\ LET i == PlaceOf(hooks, at[t]) + 1
       IN  /\ GoTo(t, hooks, i)
           /\ hookCount' = IF SkipNull(hooks, i) = 0 THEN hookCount - 1 ELSE hookCount
    /\ UNCHANGED <<hooks, hookAppend, hookHole, changes, known, stayed>>

\* dispatch returned to the sender
WalkEnds(t) ==
    /\ running[t] = Null /\ walked[t] # <<>>
    /\ walked' = [walked EXCEPT ![t] = <<>>]
    /\ stayed' = [stayed EXCEPT ![t] = {}]
    /\ UNCHANGED <<hooks, hookAppend, hookCount, hookHole, changes, known, at,
                   running>>

-----------------------------------------------------------------------------
Init ==
    /\ hooks = Empty
    /\ hookAppend = Root
    /\ hookCount = 0 /\ hookHole = FALSE /\ changes = 0
    /\ known = {}
    /\ at = [t \in Threads |-> Null]
    /\ running = [t \in Threads |-> Null]
    /\ walked = [t \in Threads |-> <<>>]
    /\ stayed = [t \in Threads |-> {}]

SetHook(h) == AddHook(h) \/ RemoveHook(h)
Thread(t) == Dispatched(t) \/ HookReturns(t) \/ WalkEnds(t)

Next == (\E h \in Hooks : SetHook(h)) \/ (\E t \in Threads : Thread(t))

Spec == Init /\ [][Next]_vars

-----------------------------------------------------------------------------
\* Every variable keeps its type; no more walks are counted than threads.
TypeOK ==
    /\ hooks \in Seq([id : Nodes, obj : Hooks \cup {Null}])
    /\ hookAppend \in Nodes
    /\ hookCount \in 0 .. Cardinality(Threads)
    /\ hookHole \in BOOLEAN
    /\ known \subseteq Hooks
    /\ at \in [Threads -> Nodes \cup {Null}]
    /\ running \in [Threads -> Hooks \cup {Null}]

\* The list holds each hook that was set and not removed, once, and no other:
\* none is lost through a cached node that was freed.
SetHooksAreListed ==
    /\ TypeOK
    /\ {hooks[i].obj : i \in DOMAIN hooks} \ {Null} = known
    /\ \A i, j \in DOMAIN hooks : hooks[i].obj = hooks[j].obj /\ hooks[i].obj # Null
                                   => i = j

\* Every walk under way is counted, so the list is not compacted beneath it:
\* the node it will go on from is still in the list, and still the one of the
\* hook it runs, if that hook was set when the walk began and stayed since.
WalkersStayOnTheList ==
    /\ hookCount = Cardinality({t \in Threads : running[t] # Null})
    /\ \A t \in Threads : running[t] # Null =>
         \E i \in DOMAIN hooks :
            /\ hooks[i].id = at[t]
            /\ running[t] \in stayed[t] => hooks[i].obj = running[t]

\* A walk runs every hook that was set during all of it exactly once.
EachHookRunsOnce ==
    \A t \in Threads :
        running[t] = Null /\ walked[t] # <<>> =>
            \A h \in stayed[t] :
                Cardinality({i \in DOMAIN walked[t] : walked[t][i] = h}) = 1
=============================================================================
