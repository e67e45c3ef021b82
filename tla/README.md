# Verification of the helpline service

This directory holds TLA+ models of the FAUST CTF 2018 service *helpline*: a
telephone menu in which a caller registers a number and a credit card, hears
its own card again, and is disconnected after a goodbye. The service is a C++
module, `yate/modules/cryptocurrencies.cpp`, in a Yate telephony engine whose
source is part of the repository. Paths below are relative to `src/`.

The models are about correctness: which orders of steps can happen, what the
sessions, the table and the engine's own bookkeeping look like after any of
them, and what must happen in the end.

Contents: [1 Inventory](#1-inventory) · [2 How the parts interact](#2-how-the-parts-interact) ·
[3 Modules](#3-modules-and-the-code-they-model) · [4 Runs](#4-runs) ·
[5 Proofs](#5-proofs) · [6 Findings](#6-findings) ·
[7 Not modelled](#7-what-is-not-modelled) · [8 Plan](#8-plan) · [9 Use](#9-how-to-run-it)

## 1 Inventory

| Component | State it keeps | Operations | What makes it correct |
|---|---|---|---|
| **Helpline** `yate/modules/cryptocurrencies.cpp` | `clients`: a session per SIP channel (menu state, typed text, number, card, dumb channel id); SQLite table `cryptohelp` | message handlers for `chan.dtmf`, `chan.hangup`, `chan.notify`, `call.route`; post-hook of `call.execute`; a sender thread per spoken reply | the session, the table and what is read out agree; one account per number; a caller told goodbye is disconnected and nobody else is; no session survives its call, races of two workers apart |
| **Timeouter** `yate/modules/timeouter.cpp` | set of (time, call id) | post-hook of `call.execute` | nobody is dropped early, nobody is forgotten, overdue calls end |
| **Message hub** `yate/engine/Message.cpp` | sorted list of handlers with `m_unsafe` marks and a change counter; list of hooks with holes; list of enqueued messages; statistics | install, uninstall, dispatch, enqueue, dequeueOne, setHook | an uninstalled handler is not running; a message visits every matching handler that stays, in order; messages are dispatched first in, first out; hooks run once |
| **Linked lists** `yate/engine/ObjList.cpp` | nodes, entries | append, remove, set, find, skip holes, compact | the list operations the hub's caches rely on |
| **Workers and main loop** `yate/engine/Engine.cpp` | pool of dispatching threads, `s_makeworker`, plugins | grow the pool, load, reload, shut down | never more workers than `maxworkers`; the queue moves on although handlers wait; a halt ends and leaves no message behind |
| **SIP transactions** `yate/libs/ysip/transaction.cpp`, `engine.cpp` | state, timers and counters per transaction | answers, retransmissions, timeouts, ACK | one final answer, every final answer to INVITE acknowledged, every transaction ends |
| **SIP channel** `yate/modules/ysipchan.cpp` | transaction of the INVITE, state, flags of the dialog | INVITE, route, answer, refuse, CANCEL, BYE, ACK, hang up, destroy | a call is hung up once, its caller is told how it ended, and its channel goes away |
| **Channels, routing** `yate/engine/Channel.cpp` | endpoints and their peers, channel lists, counters | connect, disconnect, route, drop | peers point at each other and own a reference of each other |
| **Announcements** `yate/modules/wavefile.cpp` | file, repeat flag, id to notify | attach, run, notify | a source reports its end once |
| **Objects** `yate/engine/TelEngine.cpp` | reference counters | ref, deref, resurrection | an object dies once, when nobody refers to it |
| **Threads, mutexes, semaphores** `yate/engine/Thread.cpp`, `Mutex.cpp` | waiters, owners | lock, unlock, start, cancel | exclusion, no lost wake-up |
| **Tones** `yate/modules/tonegen.cpp`, `tonedetect.cpp`, `dumbchan.cpp` | generators, filters | play, detect, masquerade | keys sent are keys heard |
| **RTP** `yate/libs/yrtp`, `yate/modules/yrtpchan.cpp` | sequence numbers, dejitter queue | send, receive | order of packets |
| **Data, strings, configuration, SIP text** `yate/engine/*.cpp`, `ysip/message.cpp` | none shared | conversions | sequential |
| **Checker** `checker/helpline` | one call | the test client's dialogue | – |
| Other parts of Yate | | not loaded by the service | – |

What is hard, and therefore what the properties are for (`hazards` in
`PROJECT.json` lists each at its line):

* *copy, work, store back*: the DTMF handler copies a session under a lock,
  changes the copy without it and stores the whole copy back;
* *different threads for one call*: keys, hang-up and the end of a prompt are
  queued messages, but routing, connecting and answering run in a thread of
  the call, and prompts end in a thread of their own;
* *marks instead of locks*: the hub drops its mutex while a handler or hook
  runs, and finds its place again in a list that may have changed;
* *cached pointers into lists* that removal and compaction free;
* *partial failure*: any SQLite call may fail after the copy was changed;
* *boundaries*: the key that no longer fits into a buffer, the first node of a
  list, the last worker the pool may have;
* *two threads, two endpoints*: a caller who cancels while the call's own
  thread connects it, so that a call is connected after its hang-up;
* *eventually*: goodbye ends the call, an overdue call ends, an uninstall that
  waits returns, the queue moves on although handlers wait, a halt ends.

## 2 How the parts interact

```
caller --INVITE--> ysipchan --starts--> router thread: call.route -> RouteHandler (session created)
                                                     call.execute -> dumbchan connected
                                                     post-hooks   -> helpline (answers, welcome), timeouter
caller --keys----> tonedetect --enqueue chan.dtmf----> [ queue of the hub ]
caller --bye-----> ysipchan   --enqueue chan.hangup--> [ queue of the hub ] --workers--> helpline's handlers
prompt ends -----> wavefile   --enqueue chan.notify--> [ queue of the hub ]
DtmfHandler --enqueue chan.attach (masqueraded)------> [ queue of the hub ] --workers--> wavefile
NotifyHandler --dispatch call.drop--> drivers: channel ends
```

`Helpline` models this picture as a whole, with the queue as a FIFO sequence.
That the queue *is* FIFO and hands every message to one worker is what
`MessageQueue` says of the linked list, inside `EngineLoop`, which has the
workers and the main loop around it; that a handler gets every
message is what `MessageDispatcher` checks; that the post-hooks of
`call.execute` run exactly once is what `PostHooks` checks; that an answer and
a hang-up get through a network that loses packets, or time out, is what
`SipTransaction` checks; what `call.execute` and a hang-up do to the two
endpoints of a call is what `CallEndpoint` checks; what the Router thread, the
network's thread and the timeouter do to one SIP call is what `SipConnection`
checks. The helpline's
model is therefore composed with the hub by these promises and not by an
`INSTANCE`: the product of the state spaces would show nothing more.

## 3 Modules and the code they model

### Helpline, HelplineSerial, HelplineSessions

One action per section that holds `s_mutex`, and one per step between two
sections; so the copy, the switch, the prompt and the store of a key are the
four actions `DtmfCopy`, `DtmfSwitch`, `DtmfAttach`, `DtmfStore`, and any other
thread may run between them.

| Variable | Code |
|---|---|
| `clients` | `map<string, client_state> clients`; an absent entry is `NoSession`. A session is `state`, `buf` (with `offset = Len(buf)`), `number`, `secret`, and whether `dumbchan_id` is set. `uid` is written and never read, and left out |
| `db` | table `cryptohelp`; the position of a row is its `uid` (autoincrement, rows are never deleted) |
| `queue` | `MessageDispatcher::m_messages` |
| `pc`, `job`, `cur`, `newfile` | the step a worker is at, its message, `cur_state`, the prompt it chose |
| `router` | the step the `Router` thread of a call is at |
| `chan`, `playing`, `pressed` | environment: the channel, the prompt on the dumb channel, keys pressed |
| `replies`, `written` | history: what `send_dtmf` was given, and which cards were ever stored for which number |

`DtmfSwitch` is the whole `switch`, one action per `case` (`OnInit` …
`OnSupId`). A key is its character code. The credit-card case compares with
`<=` where the others use `<`, so one key may land in the member behind `buf`,
which is `state`; `CollectCredit` says so, and `State` contains the keys.
`DbMayFail` adds the error branch of each SQLite call. The early returns on a
failed `prepare` of `INSERT` and `UPDATE` skip the store (`Return`).
The channel ends by the caller, by a timer or by a failure (`HangUp`).
`Dropped` models what the drivers do with the id in `call.drop`: an empty one
addresses all their channels.

`HelplineSessions` is the abstract specification: a phase per call, a function
from numbers to cards, the menu as a relation; opening an account or changing a
card is one step with the edge of the menu it belongs to. `HelplineSerial`
gives the mapping (`Promise == INSTANCE HelplineSessions WITH ...`): the phase
of a call is that of the copy once the switch has updated it, until it is
stored; the accounts are the rows of the table.

Nothing in the code keeps two workers from handling two messages of one call at
once, and then a step may be lost or a session come back. `HelplineSerial`
therefore adds a history, `raced`: a call is put there by the step in which a
worker copies or erases its session while another one has a copy to store back
(`Races`: `HasCopy` and `Enters`). It changes no behaviour: `RNext` is `Next` and its update. The
properties of that module are about the calls that are not in it, and the
abstract menu lets a call that is in it `Slip`: it may go to any phase and
change one card on the way, which is all the harm there is. It has no influence
on any other call.

### Timeouter

`Execute` is the post-hook (`timeouter.cpp:49-73` is one locked section);
around it a clock, calls that are connected (`Connect`) before their post-hook
runs and may end before it does (`Hangup`), and the engine that handles
`call.drop` (`Drop`). Time units are such that `Limit` of them are 360 seconds.

### SipConnection

It extends `Timeouter`: the steps of a `YateSIPConnection` that connect or
disconnect a channel are those of the calls there. Three kinds of threads work
on one call: its Router (`Routed` to `Leave`), the network's one thread
(`Invite`, `Cancel`, `Bye`, `Ack`, `NoAck`, and the rest of what these start:
`Clear`, `MarkHungUp`, `End`) and the workers (`Disconnected`, `DropCall`).
Whoever gives back the last reference destroys the channel (`Destroy`).

| Variable | Code |
|---|---|
| `conn[c].tr` | `m_tr`: none, in state `Process`, or with a final answer and without its ACK |
| `conn[c].state`, `hungup`, `byebye`, `localTag` | `m_state`, `m_hungup`, `m_byebye`, whether `m_dialog.localTag` is set |
| `conn[c].answers`, `bye`, `hangups`, `left` | history: final answers, whether a BYE was sent, `chan.hangup` messages, whether the caller sent CANCEL or BYE |
| `route` | where `Router::route` is; in `"leaving"` and before it holds a reference |
| `network` | what the network's thread goes on with; it serves one call at a time |
| `up` (of `Timeouter`) | the channel has a dumb channel as peer |
| `ending` | a `chan.disconnected` message refers to the channel |

A step ends where the code takes or drops the driver's lock or does something
that other threads see. `hangup` is therefore two steps, `MarkHungUp` with the
lock and `End` without; the answer's check of `m_hungup` is inside the lock and
one step with it; `callRouted`'s is another step than the connection behind it.
A disconnection is merged into the step before it, as no other thread's step
tells the two orders apart (its own two halves are in `CallEndpoint`).
`Reject` is `callRejected` from wherever the Router, or the thread that fails
to start it, calls it.

### MessageDispatcher

`Message.cpp`'s `install`, `uninstall` and `dispatch`, with `MessageHandler`'s
and `MessageRelay`'s `receivedInternal`. A handler is a number, its rank in the
order of `install` (priority, then address). `Address` says which of them live,
one after the other, at the same address: a handler that was uninstalled and
destroyed may leave it to a new one of another priority. `unsafe` is `m_unsafe`, `changes`
is `m_changes`, `at`/`cur`/`seen` are the thread's `l`, `h` and `c`. The mutex
is held from one action to its end; a running handler (`pc = "called"`) holds
nothing. `owner[h] = "leaving"` is the wait in `uninstall` for the mark.
A relay has its mark removed *before* its receiver runs (`SafeNow`), so it may
be uninstalled from inside its own call.
`IsAfterRescan` is the search for the place to go on from, as written: it stops
at an equal *address* (line 444), whatever the priority, or at the first handler
that sorts after the one called. So it can take a new handler for the old one;
`ResumesInOrder` says when a dispatch may go back.

### ObjList, MessageQueue, PostHooks

`ObjList` gives the list operations on sequences of (node, entry) pairs; nodes
come from a finite set, and a freed node may be taken again. A list always has
its root node, whose entry may be empty; `remove` on a node copies the next
node into it and frees the next one, which is why a cached pointer to the next
node goes stale. `MessageQueue` is `enqueue`/`dequeueOne` with `m_msgAppend`;
`PostHooks` is the end of `dispatch` and `setHook`, with `m_hookAppend`,
`m_hookCount` and `m_hookHole`. `running[t]` is the hook that a walk runs, `at[t]`
the node it will go on from.

### EngineLoop

The workers (`EnginePrivate::run`), the main loop (`Engine::run`) and the
shutdown (`engineCleanup`, `Thread::killall`) around `MessageQueue`, which it
extends. A worker is *polling* while it is in `dequeue` and idle otherwise; the
loop's turn is `look` (is `s_makeworker` still set?), `build` or `quiet`, and
`rest`. `s_makeworker` is read and written without a lock, and so is `count`: a
worker counts itself before its thread exists, so one whose creation fails
(`failures`) is counted for ever. Handlers of a message may wait for what
others bring (`Waits`), so a handler may also never return. At the end the main
thread dispatches what is queued (`drain`), asks all threads to stop, waits,
cancels those that do not (`Kill`), and dispatches what they left
(`drainlast`). A worker that is cancelled the hard way while it holds a mutex,
such as the hub's, would leave it locked; the model has no such mutex, so that
is not represented.

| Variable | Code |
|---|---|
| `pool`, `polling` | threads of `EnginePrivate` that exist; those inside `dequeue` |
| `count`, `makeworker`, `haltcode` | `EnginePrivate::count`, `s_makeworker`, `s_haltcode` is set |
| `loop`, `build`, `stops` | where the main thread is, `build` of `Engine::run`, turns left to `engine.stop` |
| `cancelled` | `ThreadPrivate::m_cancel` of all workers |

### CallEndpoint

`CallEndpoint::connect` and `disconnect` of `Channel.cpp` with the counters of
`RefObject` (`TelEngine.cpp`). What a thread has still to do is a sequence of
steps, so that a call inside another one (the `disconnect` inside `connect`,
the `disconnect` of a destructor inside `deref`) is put before what its caller
does afterwards. Every read and write of `m_peer` outside the common mutex is a
step of its own. The callers hold references, as `dumbchan.cpp:71-93` and
`ysipchan.cpp:6520-6550` do, and nothing else restricts them: any thread may
connect or disconnect any living endpoint while others do.

The three assignments of a `m_peer` (`PointAtPeer`, `SetPeer`, `ClearPeer`) were
each decided by an earlier look at it. The history `torn` is set when the
pointer is no longer what it was then, so that the assignment overwrites what
another thread wrote. From there on the code can keep no promise
(`call_endpoint_pair`); the invariants of `call_endpoint` say what it keeps
until then, and that nothing else breaks a pair.

### SipTransaction

A client and a server transaction of one request, INVITE or not, with the
engine's dispatch of events. `net` holds every message ever sent: one that
never arrives is lost, one that arrives twice was duplicated, and there is no
order. `ClientEvent` and `ServerEvent` are `getEvent` with what the engine does
with the event (`processEvent`); `ProcessClient`, `ProcessServer` and
`SetResponse` carry the names of the code. Timers count firings only
(`timeouts` is `m_timeouts` while `m_timeout` is set); when one fires is left
open, so every race of a timer with a message is there. The user of the server
looks at the state without the engine's lock (`UserChecks`) and answers later
(`UserAnswers`), as `YateSIPConnection::msgAnswered` does. A request that
arrives after its transaction ended starts another one (`births`), which has
another dialog tag. `mute` is a message whose party was taken away after a
failure to send (`msgTransmitFailed`).

### Faulty variants

Each property has a variant of a definition with a plausible mistake (a guard
dropped, an update forgotten, an order swapped), named `Definition_Mistake`
and defined just before the one it varies. No specification uses them;
replacing the definition by its variant makes TLC refute the property, which
shows that the property depends on that piece of code.

## 4 Runs

Every run finishes within five minutes on two workers.

| Run | Instance | Shows |
|---|---|---|
| `helpline_concurrent` | 1 call, 2 workers, keys `# 1 2`, 6 keys, one registered row; or from the support menu's question for a uid, two rows | whatever two handlers of one call do to each other's copies, types hold (`TypeOK`), table, history and copies agree (`AccountsAgree`), only the own card (`SecretIsOwn`) or that of the uid asked for (`CardIsOfUid`) is read, at most one key leaves `buf` (`WritesStayInSession`) |
| `helpline_calls` | 2 calls, 1 worker, keys `# 1`, 4 keys each, empty table | two simultaneous registrations of one number: `OneAccountPerNumber`, `UidIsOwn`; goodbye: `NeverDropsOthers` |
| `helpline_serial` | 1 call, 2 workers, keys `# 1 3`, 6 keys, empty table or two rows, SQLite errors, up to the first race of the call | refinement of `HelplineSessions` (`ImplementsSessions`); `NoLeftover`; under fairness `GoodbyeEndsCall` |
| `helpline_count` | 1 call, 1 worker, keys `# 1 2 A`, 8 keys, two rows, no errors | violation, see 6 |
| `sip_calls` | 2 calls, limit 0, 1 time unit | `NeverTooEarly`, `Remembered`; `HungUpOnce`, `CallIsClosed`; `HungUpEnds`, `OverdueIsFreed` |
| `dispatch` | 4 handlers, of which one is a relay and may take turns with another at one address, 3 of them installed at the start, 2 threads, 2 changes of the list | `TypeOK`, `NeverRunsUninstalled`, `ResumesInOrder`, `StayedAreServed`, `UninstallReturns`, `DispatchReturns` |
| `dispatch_head` | 3 handlers, the first a relay, 1 thread, 2 changes | violation, see 6 |
| `post_hooks` | 3 hooks, 3 nodes besides the root, 2 walks, 6 changes | `SetHooksAreListed`, `WalkersStayOnTheList`, `EachHookRunsOnce` |
| `engine_loop` | 3 messages, the first waits for the second; 2 nodes besides the root; from 1 to 3 workers, 1 thread that cannot be created; 1 turn for `engine.stop` | `EngineTypeOK`, `FirstInFirstOut`, `NothingLeftBehind`, `QueueMovesOn`, `HaltEnds` |
| `sip_transaction` | one request, INVITE or not; 2 attempts, 2 firings, answer 200, 1 provisional answer, 2 server transactions | `NeverStuck`, `OneFinalAnswer`, `EndsAsTold`, `AckedAgree`, `QuietAfterAck`, `TransactionsEnd` |
| `call_endpoint` | 3 endpoints, 3 threads, up to the first overwritten pointer | `RefsAreCounted`, `DeadIsAlone`, `AgreeUntilTorn` |
| `call_endpoint_pair` | 2 endpoints, 2 threads, no bound | violation, see 6 |

**Why these bounds.** `BufSize` is 2 instead of 77: truncation, the last byte
and the byte behind it are all met with three keys. Six keys reach every
account operation from the first menu (five to a registration or to KNOWN, one
more to hear or change something); the support menu, its uid and the answer take
nine, so `helpline_concurrent` also begins at that question (`InitAtSupport`, a
state that seven keys reach). Four keys are the shortest registration, so in `helpline_calls` both
callers can make it. `MaxQueue` holds callers back only while a message waits;
prompts, hang-ups and notifications come on top, so the queue gets longer than
that. Two workers are enough for every pair of sections to interleave. In the
hub, three installed handlers are the fewest with one before and one behind the
place where the list changes, and a fourth takes the address of one that goes,
with a lower number than the one called before; two threads the fewest in which one mark is set twice;
a message matches all handlers but the first or the second, so the list changes
before, at and behind a thread's place; in `engine_loop` two nodes are fewer than
the three messages, so freed nodes are used again, and three workers leave one
to take a message when one has failed and one waits, which is what
`WaitsAssumption` asks for. Three endpoints and three threads are the fewest in
which an endpoint exchanges its peer while a third thread disconnects or
releases one of them. For SIP, two attempts are the fewest
with a first one that fails, a repeated one and a last one; one code besides
the library's own 408 and 501 gives three different final answers; two server
transactions are the fewest with an answer of another dialog. In `sip_calls`
two calls are the fewest with one whose `call.execute` finds the other overdue,
and with limit 0 that takes one unit of time; the proofs lift both bounds for
its invariants.

**Types.** Type invariants are checked as the first conjunct of an invariant
about the same variables where a run has no property of its own for them
(`SetHooksAreListed`, `NeverStuck`, `RefsAreCounted`).

**Constraints.** Two runs stop following a behaviour at a state of a history
variable: `helpline_serial` at the first race of its call (`Unraced`) and
`call_endpoint` at the first overwritten pointer (`Whole`). Nothing is lost by
that: beyond it the invariants claim nothing (`c \notin raced`, `~ torn`), the
goal of `GoodbyeEndsCall` is reached (`c \in raced`), and what
`ImplementsSessions` says of the steps beyond is proved (5).

**How many workers.** The engine starts one dispatching thread unless
`yate.conf` asks for more (`minworkers`), but adds up to `maxworkers`, ten, under
load. Everything about one call is therefore run with two workers, in
`helpline_concurrent` with every race and in `helpline_serial` up to one.
`helpline_calls` has one for the sake of its size, as the Router threads of its
two calls interleave with it; its properties are proved for any number.
What a race can do: a key's store-back recreates the session
that `chan.hangup` erased in between, and nobody erases it again; two keys of one
call take one edge of the menu twice; the end of the goodbye prompt finds the
session before `BYE` was stored and the call goes on. Without a race one
session does stay: that of a call cancelled before its `call.route` was handled
(`chan = "cancelled"`), created after `chan.hangup`. `NoLeftover` allows for
it, and for nothing but a session no key was ever typed into (`MayStay`).

**Fairness.** `Helpline!Fairness`: worker and router threads are scheduled,
files end, a channel that is ending gets destroyed; callers and SQLite owe
nothing. `SipConnection!FairSpec`: time passes, the Router thread of a call
and the network's thread finish what they began, messages are handled and a
channel nobody refers to is destroyed; nobody has to call, to acknowledge, to
cancel or to end a call. `MessageDispatcher!Fairness`: a thread inside `dispatch` goes on
and handlers return, an owner in `uninstall` polls (`Thread::yield` loop) and,
as it holds the mutex only to look, gets its turn once the mark is gone; nobody
has to send, install or uninstall. `EngineLoop!EngineFairSpec`: the main thread
and each worker go on; nobody has to send a message or to halt the engine, and
a handler whose wait is not over stays where it is. These are weak fairness: none of these steps, once possible, is disabled
by somebody else for good. `SipTransaction!FairSpec`: the engine's thread calls
`getEvent` for ever. It sends what is due before it looks at the timer, and
whatever arrives may make something due, so the steps behind that need strong
fairness: copies of a message arrive again and again but leave the thread a
moment without any. Network and user owe nothing.

**Deadlock** is switched off only where the system may stop: all callers are
done, the clock is at its bound, the engine has ended, all endpoints are gone.

## 5 Proofs

TLAPS checks, for any finite or infinite set of calls and workers, any keys,
any buffer size and any contents of the table that satisfies `DbAssumption`:

* `HelplineProofs!TypeCorrect`. `TypeOK` is not inductive: a handler step needs
  that a worker beyond `DtmfCopy` holds a session and the right kind of
  message. `TInv` adds that (`HandledOK`).
* `HelplineProofs!AccountsCorrect` (`AccountsAgree`, `OneAccountPerNumber`) and
  `RepliesCorrect` (`SecretIsOwn`, `UidIsOwn`, `CardIsOfUid`). The invariant
  `AInv` is `TInv` with these five. The argument: the table only grows and rows
  keep their number (`Grows`), so a copy that was right when made stays right
  however late it is stored back (`GoodStays`, `GoodSessions`); a step stores
  or sends something only after a lookup of the same session (`LookupKept`,
  `ChangeCardKept`, `RegisterKept`). This is why the lost updates of two
  workers do no harm to the accounts.
* `HelplineProofs` again: `WritesHold` (`WritesStayInSession`) follows from the
  bound of each `case` (`CollectCredit` alone may pass it, by one
  key, and then collects no more). `NeverDropsOthersHolds`
  (`NeverDropsOthers`) needs that no key of a call is in the queue, or in the
  hands of a worker, before `HookTarget` has recorded the dumb channel
  (`DumbInv`, `Keyed`).
* `HelplineProofs!UidsDiffer` and `UidsAreNotShared`: two numbers are never
  written the same (`Decimal` is injective, for every number), and so no two
  accounts are told the same uid. `DecimalDef` first shows that the recursive
  definition defines a function (`DigitsExist`, `DigitsAgree`); each step of
  this is induction by the least counterexample, as in `PostHooksProofs`.
* `HelplineSerialProofs`, for any number of workers and calls, whose messages
  any of them may handle at once: `NoLeftoverHolds` and `SessionsImplemented`.
  The invariant `EndInv` is `AInv` and `DumbInv` with two more parts.
  `CallsEnd`: once its hang-up was handled a call has no session, unless it is
  in `raced`, and one cancelled before it was routed never has a key. The order of the
  queue is not needed: a key behind the hang-up finds no session and is ignored.
  `Handling`: a call that is not in `raced` has at most one worker with a copy
  of its session, the session is there, and it is still as it was copied when
  the switch begins. A store
  therefore meets the session it was copied from, and after the hang-up nobody
  stores. For the refinement, `SwitchStates` gives the edge of the menu a
  switch takes, `AccountAdded` and `AccountChanged` what a new row or card does
  to the function of accounts; `SwitchRefines`, `WorkRefines` and `CallRefines`
  map each action to a step of the menu, to a stutter, or, for a call with a
  race, to a slip (`Slips`), which no step needs for any other call.
* `SipConnectionProofs` begins with the timeouter by itself:
  `TimeouterCorrect`, `NeverTooEarlyHolds` (`NeverTooEarly` and `Remembered`,
  for any number of calls). The invariant adds that times lie in the past.
  Then the channel's calls: `HungUpOnceHolds`, `CallIsClosedHolds`,
  `SipTypeCorrect`. `CallIsClosed` is not inductive: `Consistent` says of a
  connection that whenever a BYE is still due (`ByeDue`) it has what it takes
  to send one, `m_byebye`, the state and the tag or the transaction to take it
  from; a lemma for each of `clearTransaction`, `hangup`'s halves, the answer
  and the refusal keeps that, and `CallInv` says when it must be over.
  `TimeouterImplemented`: every step of `SipConnection` is a step of
  `Timeouter` or leaves its variables alone, so that the timeouter's theorems
  hold of SIP calls (`SipCallsAreTimed`).
* `MessageDispatcherProofs`: `NeverRunsUninstalledHolds`,
  `ResumesInOrderHolds`, `TypeOKHolds`, for any handlers, any addresses and any
  finite set of threads. The invariant `DInv` says that a handler's mark is the number of
  threads running it, that the list is strictly ascending, no two of it have one
  address, and it holds exactly
  the handlers whose owner is "in", and that a thread whose counter is still
  current has its place at the handler it called. A rescan that goes back found
  another handler at the address of the one called, and that one came after the
  walk began (`StayedFit`). `InOrderUnlessReused`: as long as that does not
  happen (`AddressKept`) a dispatch calls handlers in ascending order, none
  twice. An owner can leave only when
  the mark is 0, so nobody runs the handler. `StayedAreServed` is false as it
  stands (`dispatch_head`), and `ServedBehindTheHead` says exactly what it
  takes: `HeadStays`, that the list begins, for every walk, with a handler that
  does not sort after the one called last, so that the rescan has a place to
  step back to. `Serves` says of a thread in its walk that every match that
  stayed and sorts up to where it stands was called. `StayedAreServedHolds` replaces
  that condition by one on the constants, `FirstLasts`: the first of the
  handlers installed at the start sorts before every other and has an owner
  that never uninstalls it. The configuration of `dispatch` satisfies it, the
  one of `dispatch_head` does not.
* `PostHooksProofs`, for any hooks and nodes, any finite set of threads and any
  number of changes: `SetHooksAreListedHolds`, `WalkersStayOnTheListHolds`,
  `EachHookRunsOnceHolds`. The invariant `PInv` adds to the three that no node
  and no hook is in the list twice, that the cached node is in the list, and
  where a walk is (`Progress`): of the hooks that stayed it ran those up to its
  node once and none behind, and the one it runs, if it stayed, is that of its
  node. A walk is counted until it ends, so the list is
  compacted only while nobody walks (`DispatchedKeeps`); otherwise the hooks
  that stayed keep their nodes (`ChangedBut`, `ProgressKept`). What compacting
  does to a list of any length (`CompactedKeeps`) and that skipping empty nodes
  finds the next hook (`SkipNullFinds`) is induction. The library's induction
  theorems do not apply here, so it is done with the least counterexample:
  `LeastNumber` is derived from the well-foundedness of finite sets.
* `EngineProofs`, for any messages, nodes and workers: `QueueKeepsOrder` and
  `FirstInFirstOutHolds` (the cached node is never one that was freed: it is
  the last of the list or empty, so what is taken and what is queued make up
  what was sent, in order), `EngineUsesQueue` (every step of the engine is a
  step of the queue or leaves it alone, so the queue's invariant is the
  engine's), `EngineTypeCorrect` (`EngineTypeOK`: what a turn may still build
  fits under `maxworkers`) and `NothingLeftBehindHolds` (the last look at the
  queue comes when no worker is left, and only the main thread's handlers
  enqueue after it).

* `SipTransactionProofs`, for any numbers of attempts, firings, copies and
  server transactions, and any codes: `NeverStuckHolds` (with the types),
  `OneFinalAnswerHolds`, `EndsAsToldHolds`, `AckedAgreeHolds`,
  `QuietAfterAckHolds`. The invariant `SInv` has one part for each side and one
  for what is between them. `ClientHolds` says for each state of the client
  what its user was told, what is still pending and which message was kept
  last, so that whatever arrives after the first final answer finds that answer
  told or pending. `ServerHolds` and `OneAnswerOrTimeout` say the same of the
  answers: of the first server transaction there is no final one on the network
  but its timeout and the user's. `AcksAreSent` joins the two: an ACK is there
  only of a client that has a final answer, and that answer was sent. A server
  that takes an ACK therefore was heard (`AckedIsOver`).
* `CallEndpointProofs`, for any endpoints and threads, which connect, disconnect
  and release what they like: `RefsAreCountedHolds`, `DeadIsAloneHolds`,
  `AgreeUntilTornHolds`. `EndpointInvariant` (`EInv`) is the invariant behind
  them. `Stacks`: what waits in a thread's
  steps relies only on references that steps below it hold, or on a deletion
  that is still to come (`CoverOf`). `DiesOnce`: a counter of zero goes with one
  deletion, done or waiting. `MutexIsHeld`: for the two halves of a disconnect.
  These hold for ever; two more do until a pointer is overwritten. `Counted`:
  the counter is the sum of the references, where steps are counted by kind
  (`N`, `At`); what a push or a pop does to such a count is proved once
  (`AtPush`, `Counts`) and each action only says what it pushes. `Balanced`: two
  endpoints owe each other as many pointers (`Owes`: the pointer itself and the
  steps of threads that have set or cleared one half). A pointer that is not
  returned therefore goes with a thread between the two halves, which is what
  `PeersAgree` allows. After an overwritten pointer both are false, see
  `call_endpoint_pair`.

The assumptions on constants are those of the modules (`KeysAssumption`, …),
evaluated by TLC in every run; only `StayedAreServedHolds` has one of its own,
`FirstLasts`. `ServedBehindTheHead` and `InOrderUnlessReused` are about the
behaviours with `HeadStays` and `AddressKept`.

**Only model-checked**: all liveness (`GoodbyeEndsCall`, `HungUpEnds`, `OverdueIsFreed`,
`UninstallReturns`, `DispatchReturns`, `QueueMovesOn`, `HaltEnds`,
`TransactionsEnd`).
Liveness under fairness is out of the prover's reach.

## 6 Findings

* `helpline_count`: `cryptocurrencies.cpp:399` reads the user count from
  column 1 of a result that has column 0 only; a support caller hears 0.
* `dispatch_head`: `Message.cpp:436-459` steps back to the place before the
  next handler and lets the loop advance; when the next handler is the first of
  the list there is no place before it, and it is passed over. It takes the
  first handler of the list to be uninstalled while it runs.
* `call_endpoint_pair`: `Channel.cpp:64` says that the common mutex protects
  against two threads that connect and disconnect a pair at the same time, but
  `connect` does not take it (`#if 0` at line 133). A disconnect between the
  two assignments of lines 159 and 160 leaves the peer pointing to an endpoint
  it has no reference of.

Not a run of its own: `timeouter.cpp:2` promises to drop calls after six
minutes, but the code looks only when another call is connected, so the last
call of the day is never dropped. `OverdueIsFreed` is what the code does.
`Message.cpp:445` says of a handler at the address of the one called last
"exact match - silently continue where we left"; when the relay called last was
uninstalled and destroyed and a handler of a lower priority number was installed
at its address, the match is not exact, and the dispatch calls handlers once
more. `dispatch` has that case, and `ResumesInOrder` says that it is the only one.
`HungUpEnds` says what becomes of a call that is hung up between the check in
`callRouted` (`ysipchan.cpp:8014`) and `dd->connect` (`dumbchan.cpp:76`): it is
connected although its caller has gone, and stays so until the timeouter.

## 7 What is not modelled

The table of components in `PROJECT.json` says it for each part. In short:

* Most of the repository is the vendored Yate engine, and most of that is no
  part of the service: signalling (`libs/ysig`), Jabber, IAX, MGCP, radio,
  scripting, the graphical client and all modules that `conf.d-service` does not
  load. They have no caller here, so there is nothing to say of them that the
  helpline depends on. Counted over all lines the models cover little; counted
  over the code the service runs, its own two modules are covered whole and of
  the engine the parts that threads share.
* The audio (tones, RTP, formats, files) appears as keys pressed and prompts
  that end. SIP appears, in the helpline's model, as calls that come and go,
  in `SipTransaction` as one request and in `SipConnection` as calls to the
  service: digest authentication, forking, connections (TCP, TLS), outgoing
  calls, re-INVITE, REFER and registrations are left out. So is the timer of an
  INVITE that is never answered (timer C, minutes): the Router answers or
  refuses it first, unless a handler of `call.route` hangs.
* Parsers, strings, configuration and URIs are sequential conversions.
* Of the engine: loading of plugins, reload, congestion flags, the supervisor.
  Of endpoints: data sources and consumers, drivers' counters and limits. Of
  threads: the pool of mutexes and its counters, semaphores.
* In the helpline module: `initialize()`, the tones of a reply one by one, the
  life of SQLite statements.

## 8 Plan

Done, the most important behaviour first: the helpline with its threads; its
abstract specification and the refinement, checked and proved; the timeouter,
and the SIP channel's calls that implement what it is specified for;
the hub's handlers; its hooks; its queue with the engine's workers and its
shutdown; SIP transactions; call endpoints and references.

Open:

1. `WaveSource`: the prompt's thread, its replacement and its notification
   (`wavefile.cpp`), implementing `Helpline`'s `HandleAttach` and `PromptEnds`.
2. SIP: digest authentication (`tryAutoAuth` resends the request as a new
   transaction), forking, and an abstract specification (a request gets at most
   one answer) that the two transactions implement. The comment above
   `transaction.cpp:739` says a failure to send ends a transaction at the last
   attempt; the code ends it at the first (`TransmitFailed`).

## 9 How to run it

In this directory: `tlc -workers 2 -config MCHelplineCalls.cfg MCHelpline`
checks a run (`PROJECT.json` gives module and configuration of each);
`tlapm HelplineProofs.tla` checks the proofs of a module.
