----------------------------- MODULE EngineLoop -----------------------------
(***************************************************************************)
(* The engine around the queue of messages (Engine.cpp): the workers that  *)
(* dispatch them, the main loop that adds workers when it has not heard of *)
(* any for a turn, and the end of the engine, where the main thread        *)
(* dispatches what is left and stops all threads.                          *)
(*                                                                         *)
(* The main loop and the workers share s_makeworker without a lock: the    *)
(* loop sets it each turn, any worker that is not inside a handler clears  *)
(* it.  A handler may take long, or wait for what another message brings,  *)
(* so the number of workers decides whether the queue moves on.            *)
(***************************************************************************)
EXTENDS MessageQueue

CONSTANTS
    Main,          \* the main thread
    MinWorkers, MaxWorkers, AddWorkers,   \* of yate.conf
    MaxStop,       \* MAX_STOP: turns granted to handlers of engine.stop
    MaxFailures,   \* bound on the threads that cannot be created
    Waits          \* the messages that the handlers of a message wait for

Threads == Workers \ {Main}
Blockers == {m \in Msgs : Waits[m] # {}}

ASSUME MainAssumption == Main \in Workers
ASSUME PoolAssumption ==
    /\ MinWorkers \in Nat \ {0} /\ AddWorkers \in Nat \ {0}
    /\ MaxWorkers \in Nat /\ MinWorkers <= MaxWorkers
    /\ MaxStop \in Nat /\ MaxFailures \in Nat
ASSUME ThreadsAssumption ==
    IsFiniteSet(Workers) /\ Cardinality(Threads) >= MaxWorkers
\* Enough workers, those whose creation failed left out, for all the messages
\* that may wait for others and one more.
ASSUME WaitsAssumption ==
    /\ Waits \in [Msgs -> SUBSET Msgs]
    /\ Cardinality(Blockers) + MaxFailures < MaxWorkers

VARIABLES
    pool,        \* the workers that run
    count,       \* EnginePrivate::count
    makeworker,  \* s_makeworker
    polling,     \* the workers in dequeue, those beyond it idle
    loop,        \* where the main thread is
    build,       \* workers the main thread still has to create in this turn
    stops,       \* turns left to the handlers of engine.stop
    haltcode,    \* s_haltcode is set
    cancelled,   \* all workers have been asked to stop
    failures     \* counts the threads that could not be created

queue == vars
main == <<loop, build, stops, haltcode>>
workers == <<pool, count, makeworker, polling, failures>>
evars == <<queue, workers, main, cancelled>>

Dispatched == {m \in ToSet(taken) : \A w \in Workers : working[w] # m}
QueueEmpty == messages[1].obj = Null

\* The handlers of the message have what they wait for.
HandlersReturn(w) ==
    /\ working[w] # Null
    /\ Waits[working[w]] \subseteq Dispatched
    /\ Destruct(w)

-----------------------------------------------------------------------------
(* A worker: EnginePrivate::run *)

Poll(w) ==
    /\ w \in pool \ polling /\ ~ cancelled
    /\ makeworker' = FALSE
    /\ polling' = polling \cup {w}
    /\ UNCHANGED <<queue, pool, count, failures, main, cancelled>>

\* dequeue goes on until the queue is empty
Serve(w) ==
    /\ w \in polling
    /\ DequeueOne(w) \/ HandlersReturn(w)
    /\ UNCHANGED <<workers, main, cancelled>>

GoIdle(w) ==
    /\ w \in polling /\ working[w] = Null /\ QueueEmpty
    /\ polling' = polling \ {w}
    /\ UNCHANGED <<queue, pool, count, makeworker, failures, main, cancelled>>

\* an idle worker looks whether it was cancelled, and nowhere else
Leave(w) ==
    /\ w \in pool \ polling /\ cancelled
    /\ pool' = pool \ {w}
    /\ count' = count - 1
    /\ UNCHANGED <<queue, makeworker, polling, failures, main, cancelled>>

WorkerThread(w) == Poll(w) \/ Serve(w) \/ GoIdle(w) \/ Leave(w)

-----------------------------------------------------------------------------
(* The main loop: Engine::run *)

At(from, to) == loop = from /\ loop' = to

\* Another turn: always while nobody has asked to halt, and a few more times
\* while some handler of engine.stop asks for one.
Turn ==
    /\ \/ ~ haltcode /\ At("turn", "look") /\ UNCHANGED stops
       \/ haltcode /\ stops > 0 /\ At("turn", "look") /\ stops' = stops - 1
       \/ haltcode /\ At("turn", "halt") /\ stops' = stops - 1
    /\ UNCHANGED <<queue, workers, build, haltcode, cancelled>>

Lower(a, b) == IF a < b THEN a ELSE b

\* Faulty variant: workers are added without looking at what is left.
ToBuild_NoLimit == IF count = 0 THEN MinWorkers ELSE AddWorkers
ToBuild == IF count = 0 THEN MinWorkers ELSE Lower(MaxWorkers - count, AddWorkers)

LookForWorkers ==
    /\ IF makeworker /\ count < MaxWorkers
       THEN At("look", "build") /\ build' = ToBuild
       ELSE At("look", "quiet") /\ UNCHANGED build
    /\ UNCHANGED <<queue, workers, stops, haltcode, cancelled>>

\* Faulty variant: the turn does not ask to be told of a worker.
AskForWorkers_Forgets ==
    /\ At("quiet", "rest")
    /\ UNCHANGED <<queue, workers, build, stops, haltcode, cancelled>>

AskForWorkers ==
    /\ At("quiet", "rest")
    /\ makeworker' = TRUE
    /\ UNCHANGED <<queue, pool, count, polling, failures, build, stops, haltcode,
                   cancelled>>

\* a name for a new thread: they are all alike
FreeThread == CHOOSE w \in Threads \ pool : working[w] = Null

\* EnginePrivate counts itself before anybody looks whether its thread runs
CreateWorker ==
    /\ At("build", IF build = 1 THEN "rest" ELSE "build")
    /\ build' = build - 1
    /\ count' = count + 1
    /\ \/ /\ pool' = pool \cup {FreeThread}
          /\ UNCHANGED failures
       \/ /\ failures < MaxFailures
          /\ failures' = failures + 1
          /\ UNCHANGED pool
    /\ UNCHANGED <<queue, makeworker, polling, stops, haltcode, cancelled>>

\* A second passes, unless a restart is due and nothing is busy: that one
\* leaves the loop at once.
EndTurn ==
    /\ \/ At("rest", "turn") /\ UNCHANGED haltcode
       \/ At("rest", "halt") /\ haltcode' = TRUE
    /\ UNCHANGED <<queue, workers, build, stops, cancelled>>

-----------------------------------------------------------------------------
(* The end of the engine: engineCleanup and Thread::killall *)

\* engine.halt is dispatched; then the main thread takes what is in the queue
HaltPlugins ==
    /\ At("halt", "drain")
    /\ UNCHANGED <<queue, workers, build, stops, haltcode, cancelled>>

ServeMain ==
    /\ loop \in {"drain", "drainlast"}
    /\ DequeueOne(Main) \/ HandlersReturn(Main)
    /\ UNCHANGED <<workers, main, cancelled>>

CancelAll ==
    /\ working[Main] = Null /\ QueueEmpty
    /\ At("drain", "wait")
    /\ cancelled' = TRUE
    /\ UNCHANGED <<queue, workers, build, stops, haltcode>>

\* Faulty variant: what the workers left in the queue is left there.
AllGone_Ends ==
    /\ pool = {} /\ loop \in {"wait", "kill"}
    /\ loop' = "done"
    /\ UNCHANGED <<queue, workers, build, stops, haltcode, cancelled>>

AllGone ==
    /\ pool = {} /\ loop \in {"wait", "kill"}
    /\ loop' = "drainlast"
    /\ UNCHANGED <<queue, workers, build, stops, haltcode, cancelled>>

\* Faulty variant: the wait has no end.
WaitedEnough_Never ==
    /\ pool # {} /\ At("wait", "wait")
    /\ UNCHANGED <<queue, workers, build, stops, haltcode, cancelled>>

\* The three short waits are over and some worker is still in a handler.
WaitedEnough ==
    /\ pool # {} /\ At("wait", "kill")
    /\ UNCHANGED <<queue, workers, build, stops, haltcode, cancelled>>

\* pthread_cancel ends a worker wherever it is; its message stays undestroyed.
\* A mutex it holds would stay locked: that is not represented.
Kill(w) ==
    /\ loop = "kill" /\ w \in pool
    /\ pool' = pool \ {w}
    /\ polling' = polling \ {w}
    /\ count' = count - 1
    /\ UNCHANGED <<queue, makeworker, failures, main, cancelled>>

Finish ==
    /\ working[Main] = Null /\ QueueEmpty
    /\ At("drainlast", "done")
    /\ UNCHANGED <<queue, workers, build, stops, haltcode, cancelled>>

MainThread ==
    \/ Turn \/ LookForWorkers \/ AskForWorkers \/ CreateWorker \/ EndTurn
    \/ HaltPlugins \/ ServeMain \/ CancelAll \/ WaitedEnough
    \/ (\E w \in Threads : Kill(w)) \/ AllGone \/ Finish

-----------------------------------------------------------------------------
(* The rest of the engine *)

\* Threads of modules and handlers enqueue messages, the main loop its timer;
\* killall ends all threads but the main one, so then only its handlers do.
EnqueueAny(m) ==
    /\ loop \in {"drainlast", "done"} => working[Main] # Null
    /\ Enqueue(m)
    /\ UNCHANGED <<workers, main, cancelled>>

\* a signal, a command or a module asks the engine to halt
Halt ==
    /\ ~ haltcode
    /\ haltcode' = TRUE
    /\ UNCHANGED <<queue, workers, loop, build, stops, cancelled>>

EngineInit ==
    /\ Init
    /\ pool = {} /\ count = 0 /\ polling = {} /\ failures = 0
    /\ makeworker = TRUE
    /\ loop = "turn" /\ build = 0 /\ stops = MaxStop
    /\ haltcode = FALSE /\ cancelled = FALSE

EngineNext ==
    \/ MainThread
    \/ \E w \in Threads : WorkerThread(w)
    \/ \E m \in Msgs : EnqueueAny(m)
    \/ Halt

EngineSpec == EngineInit /\ [][EngineNext]_evars

\* Every thread goes on; nobody has to send a message or to halt the engine.
EngineFairSpec ==
    /\ EngineSpec
    /\ WF_evars(MainThread)
    /\ \A w \in Threads : WF_evars(WorkerThread(w))

-----------------------------------------------------------------------------
\* Every variable keeps its type; there are never more workers than maxworkers.
EngineTypeOK ==
    /\ TypeOK
    /\ pool \subseteq Threads /\ polling \subseteq pool
    /\ count \in Cardinality(pool) .. MaxWorkers
    /\ loop \in {"turn", "look", "quiet", "build", "rest", "halt", "drain",
                 "wait", "kill", "drainlast", "done"}
    /\ build \in 0 .. MaxWorkers
    /\ stops \in -1 .. MaxStop
    /\ {makeworker, haltcode, cancelled} \subseteq BOOLEAN
    /\ failures \in 0 .. MaxFailures

\* When the engine has ended no message is left in the queue: each was
\* dispatched, or its worker was killed in a handler.
NothingLeftBehind ==
    loop = "done" =>
        /\ QueueEmpty
        /\ \A m \in ToSet(sent) \ Dispatched :
             \E w \in Threads \ pool : working[w] = m

\* While the engine runs, a message is dispatched in the end although other
\* handlers wait: workers are added.
QueueMovesOn ==
    \A m \in Msgs :
        m \in ToSet(sent) /\ Waits[m] \subseteq ToSet(sent)
            ~> m \in Dispatched \/ haltcode

\* An engine that was asked to halt ends, unless the main thread itself
\* dispatches a message whose handler waits for ever.
HaltEnds ==
    haltcode ~> (loop = "done"
                 \/ [](working[Main] # Null
                       /\ ~ (Waits[working[Main]] \subseteq Dispatched)))
=============================================================================
