# Mercury common libraries: a TLA+ verification project

The repository is a set of C++ shared libraries that the programs of a lab
instrument are built from: a segment execution engine, a signal calculator, the
queues and timers under them, the command interface to the host, the CAN bus
protocol to the boards, and a few services. This directory holds TLA+ models of
them, TLC configurations that check the models on small instances, and proofs,
checked by TLAPS, for instances of any size.

    tlc -workers 2 -config control.cfg MCSegmentEngine.tla
    tlc -workers 2 -config calculator.cfg MCSignalCalculator.tla
    tlc -workers 2 -config canbus.cfg MCCanProtocol.tla
    tlc -workers 2 -config cii.cfg MCCiiSessions.tla
    tlc -workers 2 -config services.cfg MCServices.tla
    tlapm SegmentEngine_proofs.tla
    tlapm SegmentEngine_results.tla
    tlapm CiiSessions_proofs.tla
    tlapm CanProtocol_proofs.tla
    tlapm CanProtocol_results.tla
    tlapm Services_proofs.tla
    tlapm Sublists_proofs.tla
    tlapm SignalCalculator_proofs.tla

## 1. Inventory

For each part: its state, its operations, what is hard about it, and what makes it
correct. Whether a part is modelled wholly or partly is said in its heading;
section 7 says what is missing of it.

### SegmentExecutionEngine (src/SegmentExecutionEngine) - partly modelled

Executes *segment lists*: small programs whose instructions are an application's
callbacks, with built-in loops (repeat) and guards (abort conditionals).

* State. `Engine_t`: a message queue, one reply slot (status and semaphore) per
  message id, the lock that serialises synchronous calls, the active list and
  the engine thread's local variables. `SegmentList_t`: the parsed segments,
  `CurIndex`, and the `InUse` mutex. `Segment_t`: the callbacks' private
  `Extension`, and `Conditional`, the chain of abort conditionals attached to it.
* Operations. Clients: create, start, modify, stop, terminate, skip to the next
  segment, destroy. The static End and Terminate callbacks may queue the next
  list. The engine thread: one handler per message, and `ExecuteSegments` when
  25 ms pass without a message.
* Interactions. Clients and the engine thread share the queue, the reply slots
  and the `InUse` mutexes. The engine calls the application; the application may
  call the engine back.
* What is hard. The engine ends a list by queueing a message to itself, behind
  whatever clients have queued; messages carry no list, so they act on the list
  that is active when they are handled; an edit swaps lists, extensions and locks
  under a running engine; a client may be descheduled between the two halves of
  `MqQueueMessage`; lists are freed by clients.
* What makes it correct. The engine never indexes past a list's end; it runs a
  segment only after it started it; every synchronous call gets exactly one
  reply; the running list is locked and not freed; extensions follow the running
  list and are freed with it; an end is always reported; a Stop is obeyed.

### MessageQueue (src/MessageQueue) - modelled inside the engine

A list of messages under a mutex, a semaphore counted up after each push
(`MqQueueMessage`) and down before each pop (`MqDequeueMessage`, with a timeout).
Correct if the messages come out once each and in order, and if no post outruns
its push. Hard: the push and the post are two steps.

### SegmentHelpers (src/SegmentHelpers) - what they return is modelled

C++ base classes for the four kinds of segment (Simple, Instant, Abort,
RepeatUntil) and two CAN bus specialisations. What the engine sees of a kind is
which callbacks it registers and which statuses they return.

### SignalCalculator (src/SignalCalculator) - partly modelled

A table of *signals*, raw samples or calculated from windows of other signals, and
a ring of results.

* State. The tables of raw and calculated signals; per calculated signal its
  inputs with how far each looks back and ahead, the delays that follow from them,
  its index (behind the sample's by its forward delay) and a countdown of results
  that do not exist yet; the ring, one column per signal; two callback lists; the
  run lock; calls waiting in a work queue.
* Operations. Declare signals and set up (sort, delays, ring size); run one round
  of calculations, directly or through the queue; reset, which flushes the
  incomplete rows; change delays under the run lock, then recalculate; register and
  unregister callbacks; trace.
* Interactions. The application's threads, the queue's thread, and the callbacks
  the rows go to.
* What is hard. Each signal is at an index of its own, so a row is complete only
  when the slowest is; a ring one row too short overwrites a result before its last
  reader; a reset must restart indices, countdowns and the ring together; a queued
  run may fall between a change of delays and the reset that makes it valid; a
  trigger is read before the lock is taken.
* What makes it correct. Every row comes out once, in order and in time, with a
  value exactly where the samples it depends on exist; the order of calculation
  respects the dependencies; only bad declarations end the process.

### TaCanProtocol (src/TaCanProtocol) - partly modelled

Commands to boards on a CAN bus, each waiting for its ACK or NAK, announcements to
all, and long ("extended") messages in fragments.

* State. `CmdAckNakList`, the commands that wait, each with a semaphore and a code;
  `ExtendedList`, a reassembly per arbitration id; `CanRxMessages`, the slots
  with the application's callbacks.
* Operations. `CnSendMessage` for the four types of message, with retries; adding
  slots; the read thread, which answers commands, reassembles, and posts waiters.
* Interactions. Senders and the read thread meet in the list; nodes meet on the bus.
* What is hard. An answer carries no sequence number; two threads may wait for one
  id; a lost fragment leaves a reassembly half way, which then spoils the retry;
  writes fail in the middle of a message; waits are interrupted; the read thread
  runs before the slots are added.
* What makes it correct. A command returns its own answer; it times out only when
  enough was lost; a call that returned is not in the list; a message given to a
  callback is whole; every call returns.

### CommonInstrumentInterface (src/CommonInstrumentInterface) - partly modelled

The command protocol between host clients and the instrument.

* State. `BackendList`, the clients with their access level, the master and the
  number of local UIs; messages in progress, with flags and `AckEvent`.
* Operations. Register and unregister a client; route a message: log in, refuse
  (NAK), or call a callback and acknowledge; complete a pending command; drop a
  client for debugging.
* What is hard. Callbacks of several clients run at once. A command may be completed within
  its callback, or by another thread while the socket
  thread has still to acknowledge it; clients hang up with messages in progress.
* What makes it correct. At most one client is master; a client is sent the
  acknowledgement before the response, each once, and always some answer.

### CiiStatus and TriosSocketManager (same directory) - modelled, and partly

`CiiStatus`: a status goes through a work queue to the bounded queue of each
client, and through a thread per client to its socket. `TriosSocketManager`,
`TriosSocketAccept`: a connection, its receiving thread, its send lock and its
reference count. Hard: the fan-out, the teardown and the status thread run
concurrently; a full queue closes the connection; the count is shared by two
threads and every message. Correct if a client gets the statuses in order without a
gap, and a connection is freed exactly when its last user is done, and in the end.

### WorkQueue (src/WorkQueue) - modelled

A list of callbacks, a semaphore, and one thread that drains the list each time it
wakes. Hard: items are queued while the list is drained, so posts and items drift apart; a
queue is destroyed by a flag and a post, looked at only after a wait.
Correct if each item runs once, in order.

### Timers (src/Timers) - modelled

A list of timers, a lock, a semaphore, and one thread that sorts the list, calls
the callbacks of the expired timers and waits until the next one is due. Hard: a
callback runs with the lock held; a handle is an address that may be reused; the
semaphore's count and the list drift apart; the clock is read before the lock is
taken. Correct if a timer is called once, not early, after those due before it, and
in the end, unless it was cancelled.

### SystemEvents (src/SystemEvents) - modelled

Observers and static handlers of an event, called in order under its lock. Hard:
lists changed while they are traversed; subscriptions made several times. Correct if
a raise calls each subscriber once per subscription, and no other.

### DataStore (src/DataStore) - modelled

Named values kept in files. Hard: whether a file exists is asked before it is
created; the old value is truncated before the new one is written. Correct if a
read returns the whole of what was written last.

### LogLib (src/LogLib) - modelled

A queue of messages, a thread that writes them to a file, and rotated files. Hard: a
kill between two renames, and the rotation of the next start. Correct if the files
hold the newest messages, in order and without a gap.

### Gpio (src/Gpio) - modelled

A configuration file names pins; one thread polls the inputs and calls back on a
change; clients set outputs. Hard: a callback registered when its input already has
a value; callbacks that share an input. Correct if after a poll each callback knows
the value of its input and was told no value twice.

### Test programs - partly

The test programs of the signal calculator (src/SignalManagerUnitTest) are instances
of its model, with their tables of expected results as a property. The other
`*Test` directories were read for how the libraries are used.

### Not modelled

`CommFaultInjection` (an aid for testing clients), `ConsoleMemoryDump` (formats
memory), `src/src` (process utilities: command line, daemon, core dumps, uid, guid).

## 2. Plan

Done: the engine with its queue and clients, theorems about each of its invariants, and
its refinement of `ListLifecycle`; the signal calculator, theorems about its invariants, and
its refinement of `RowStream`; the CAN bus protocol with theorems about all its
invariants; the
sessions of the common instrument interface with theorems about the master, the reference
count, the statuses, their threads and the answers; the six services with theorems about each.

Next, in this order:

1. `MessageQueue` on its own: an abstract first-in first-out channel, and push and
   post with several producers as its implementation.
2. The bookkeeping of `ISegmentRepeatUntil`, and `SeFindNextSegmentIfUserFlags` as a
   pure function against a reference definition.
3. The registration of message callbacks of the common instrument interface, and
   `SmDeprecateSignal` of the calculator.

## 3. The modules

| module | what it is |
|---|---|
| `SegmentLists` | the engine's data: segments, validation, statuses, the repeat's extension, setup and cleanup, the extension moves of an edit |
| `SegmentEngine` | the engine thread, the queue, the clients; the properties |
| `ListLifecycle` | what the engine promises the owner of the lists, without queue, replies and segments: its abstract specification |
| `SegmentEngine_proofs` | the inductive invariant of the engine and the theorems that follow from it |
| `SegmentEngine_results` | further theorems, each with parts of its own added to that invariant; the refinement |
| `SignalGraph` | the calculator's pure algorithms: the sort, the delays, the ring size |
| `SignalCalculator` | the calculator and its threads; the properties |
| `RowStream` | what the calculator promises, without ring, indices and countdowns: its abstract specification |
| `SignalTests` | the repository's test programs as data |
| `Sublists` | the members of a list that are in a set, in order, as a recursive function: what the two sorts, the cancelling of timers and the removals from the events' lists filter with |
| `Sublists_proofs` | recursion over a list, lemmas about `Sublist`, and about lists that hold each member once |
| `SignalCalculator_proofs` | the sort, the sums of delays, the ring: the invariant of the calculator and the theorems about it; the refinement |
| `CanProtocol` | nodes on a bus: senders, read threads, faults; the properties |
| `CanProtocol_proofs` | the invariant that holds on any bus, and the theorems that follow from it |
| `CanProtocol_results` | further invariants, where answers come in time and an id has one user, and the theorems about them |
| `CiiSessions` | connections, login, commands, statuses; the properties |
| `CiiSessions_proofs` | the invariants of the sessions, the reference counts, the statuses, the answers and the wake-ups, and the theorems about them |
| `Timers`, `WorkQueue`, `LogLib`, `SystemEvents`, `DataStore`, `Gpio` | one service library each, with its property |
| `Services` | the six side by side |
| `Services_proofs` | an invariant for each of the six libraries, and the theorems about them |
| `MCSegmentEngine`, `MCSignalCalculator`, `MCCanProtocol`, `MCCiiSessions`, `MCServices` | small instances for TLC |

Properties stand at the end of their module. A definition whose comment begins with
`Fault:` is no part of the model: it is a plausible bug that one of the properties must
catch.

### Segment engine: state and actions

`msgs` and `sem` are the queue. `client[c]` is where a client thread is in a call:
`postSync` and `postAsync` are between the push and the `sem_post` of
`MqQueueMessage`, `wait` is in `sem_wait` on the reply slot, `destroy` is waiting
for a list's `InUse` mutex. `replies[id]` is a reply slot: a status for each post
of `hWait` nobody has taken yet. It is a sequence, so that a reply too many would
be seen. `pc` is where the engine thread is: `dequeue` (the wait for a message and
its handling), `execute` and `status` (an iteration of the loop of
`ExecuteSegments`, before and after the segment's callback), `swap` (between the
two locks of an edit), `callback` (in the End or Terminate callback). `state`,
`active`, `startNew` and `runStatus` are the engine thread's locals, `execNew` and
`segStatus` those of `ExecuteSegments`. `alive`, `inUse`, `curIndex`, `attached`
and `ext` are the lists. `begun` is a history variable. `fault` is undefined
behaviour the engine ran into.

One action per client call up to the point where it blocks (`SeStartSegmentList`,
...), one for the rest of it (`Post`, `Return`, `DestroySegmentList`); one per
message and state of the engine (`StartIdle`, `StartRunning`, ...); one per callback
and per case of the status switch of `ExecuteSegments` (`StartSegment`,
`RunSegment`, `OnSuccess`, ...). A step of the engine is a stretch of code without
a wait, a callback, or a lock another thread may hold, so clients interleave at
every point where they could see or make a difference.

Decisions:

* **The application.** A handle is used between creation and destruction only, and
  by one thread at a time in a call that gives the list away (the guards `Handle`,
  `InFlight`). A list named by a message that is still queued is not destroyed.
  Everything else is allowed: any call at any time, in any state of the engine,
  including an edit, a skip or a stop when nothing runs. What callbacks return is
  chosen freely from what the segment's kind may return.
* **Segment lists** are constants that satisfy what `SeCreateSegmentList` accepts
  (`ListsAssumption`); a rejected list never reaches the engine. A list's handle may
  be destroyed and created anew.
* **Repeats** keep `BranchIndex` in `Repeat_t`; a validated repeat always sets it
  from its data, so the model reads the data.
* **Conditionals.** An abort segment that answers "attach" chains itself to the next
  segment; `attached[l]` is the set of indices with a `Conditional`, which is always
  the segment before it.
* **Timeouts.** `MqDequeueMessage` times out when the semaphore stays zero for 25 ms.
  `TimeoutRunning` may happen whenever it is zero. A client between push and post
  (`Preempt`) may therefore be overtaken by a timeout. With `Preempt = {}` push and
  post are one step: no client loses the processor there for 25 ms.
* **Engine->Lock.** A client waiting for it has not changed anything, so it is not
  distinguished from one that has not called yet (`LockFree` guards the call).
* **Undefined behaviour.** Four accesses are undefined when reached: a segment past
  the end in `ExecuteSegments`, the same in an edit, a repeat without an extension,
  and a freed list in an edit. Each sets `fault`, and what the process does after
  it is not modelled (`Crashed` stutters): anything could follow, so every property
  and theorem speaks of executions up to a first fault, and the three liveness
  properties say so in their statements. Which faults can be reached, and when, is
  part of what the project shows: `ExecuteOutOfRange` only with a stalled client
  (proved), the other three as described under the findings.
* **Bounds.** Only `MaxQueue`: a client queues nothing when the queue holds that many
  messages. The engine's message to itself is never refused, as in the code.

### Signal calculator

The variables carry the names of the code (`SmState`, `Results`, `CurrentGlobalIndex`
as `now`, ...). Actions are the calls: those that take `RunLock` for their whole length
are one step each; `SmAcquireInternalRunLock` and its release are steps of their own, so
that a change of delays spans several; `SmRegisterDataSyncedCallback` is two steps,
because it reads the index before it takes the lock.

* **Values.** What a calculation computes is not modelled; whether it could is. The value
  of a signal at index k is k, and a calculation over a window gets it right only if every
  cell it may read holds the index it asks for; otherwise the result is `Junk`.
* **Recursion.** The sort and the delays are recursive functions. The delays of a
  signal that reads itself are never computed (the code's search does not return);
  `SmInitCalculator` then ends the process, as it does for a cycle or an unknown input.
* **Aborts.** An ASSERT sets `SmState` to `"Aborted"` and nothing follows.

`RowStream` is the abstract specification: samples are counted, rows come out in order
as soon as every signal of them is decided, with a value exactly where the samples
behind it exist (`Exists`, `Ready`, by recursion over the declared windows). The refinement
mapping takes `taken` from `CurrentGlobalIndex` and `sent` from the signals' indices;
`RowsAreIdeal == Ideal!Spec` is checked as a property: initial states to initial states,
each step to a step or a stutter.

### CAN bus protocol

`pc[t]` is where a thread is in `CnSendMessage`: `send` before each write, `wait` in
`sem_timedwait`, then `answered`, `failed` or `timedout`, before it takes its entry out of
`AckNaks[n]`. A step of the read thread (`ReceiveCommand`, `ReceiveAckNak`, ...) is one
frame: the matching of slots, the callbacks, the answer. `AddMessageSlots` adds one
group, in front or behind.

* **Frames** name the command and the packet they are a fragment of instead of carrying
  bytes, so that a reassembled message shows whose fragments it is made of.
* **The bus** is a queue per node, in order, as CAN is. A node does not hear itself.
* **Timeouts** may strike whenever the semaphore is zero. With `timely`, an assumption
  some instances make, only when no frame is on its way: then a timeout means a loss.
* **Faults** are bounded by the instance: frames lost, writes refused by the driver, and
  waits interrupted by a signal. An interrupted command is sent again without counting; an
  interrupted extended command leaves its loop as if answered and returns the code of its
  entry, which nobody has set (`Garbage`: any value).

### Common instrument interface

`thread[c]` is where a connection's socket thread is, from the accept to the release of its
reference; `worker[c]` where its status thread is. Where the code holds `BackendListLock` or
`ClientListLock` for the whole of a function, that is one step; the fan-out of a
status, which holds `ClientListLock` while it goes from client to client, is a step per
client, and the steps that need the lock wait (`routing = Null`).

* **Messages** are records of whose they are, their place in the client's stream, the
  flags `MsPostCallback` (`posted`) and `MsMessageComplete` (`complete`), the count of
  `AckEvent`, and where `CiiCompletePendingCommand` is with them (`doing`).
* **`ref`** is `ReferenceCount`, -1 before the connection is made; at 0 its memory is
  freed. A thread that touches it then sets `crash` and the behaviour ends. There are
  four such places, all reached: the status thread that starts late (a finding), the
  post at the end of `DestroyStatusWorker`, `CiiDbgDropClient`, which uses the client
  after it released the lock, and `HandleMessageCompletion` after an early completion (next
  point). A refused login sets `crash` too: `SendNak` ends in an ASSERT for it. But for the
  first, these contradict no document.
* **Callbacks and completions.** A callback is a step for its call and one for its return.
  It may complete the command itself (`"MsCompleted"`), or hand it to another thread that
  completes it afterwards. Completion within the callback is the code's own sequence of ACK,
  response, and freeing or marking the message, each a step. An application that is `early`
  has a thread that does not wait for the callback to return before it completes: nothing in
  the code keeps it from doing so, and then the two threads race for the flags. The client
  may be sent two ACKs, and the message may be freed under the socket thread or never; the
  properties that this would break set `early` applications aside, and say so.

### Services

`Services` lets one library run in each behaviour. They share no state and call each
other only to log and to convert times, so a behaviour of several is an interleaving of
behaviours of one, and no property speaks of two.

* `Timers`: time is the code's `struct timespec`, advanced by `Tick`; the arithmetic
  (`add_timespec`, `diff_timespec`, `compare_timespec`) is translated with its carries and
  compared with plain milliseconds by the assumption `TimespecContract`, which TLC
  evaluates up to a few seconds, and by the theorem `TimesAreExact`, for all times. `list::sort`,
  which is stable, is an insertion of each timer behind those due no later. `FireTimer` is one callback; the lock is held from `LockTimers` to
  `RestExpirer`; timers may be queued or cancelled between the thread's wake and its lock. A
  queued timer's clock reading may be a tick old.
* `WorkQueue`: the callback is a step, so that items are queued meanwhile, also by it. A
  destroyed queue is drained through a null pointer (src/WorkQueue/WorkQueue.cpp:163):
  the model drops the items and stops.
* `LogLib`: each `unlink` and `rename` of a rotation is a step, and the program may be
  killed between any two; it starts again with a rotation.
* `SystemEvents`: a raise is a step per handler, with the lock held.
* `DataStore`: `stat`, `creat`, `write`, `open`, `fstat`, `read` and `unlink` are a step
  each, on inodes, so that a reader may hold a file that was purged. `expected` is what the
  file must hold when no call overlapped.
* `Gpio`: a line of the configuration is a title, noise or a pin; a pin found in the
  wrong section is written to the wrong table, and out of its bounds for two inputs
  (`undefined`).

## 4. The runs

| run | instance | checks |
|---|---|---|
| `control` | two clients, one of them may be preempted between push and post; a list with a loop and an edit that removes or replaces segments; queue bound 2 | `TypeOK`, `EndPending`, `RunningListLocked`, `OneReply`, `RunsAsPromised` |
| `program` | one client; lists with stacked guards, nested loops, a guard at the end of a list, and an edit that adds, moves and deletes loops; fairness | `ExecutesInRange`, `RunOnlyBegun`, `ExtensionsOwned`, `CallsReturn`, `EndReported`, `StopObeyed` |
| `stale_stop`, `early_stop`, `late_edit` | one client, two lists of one segment | three findings below, each refuted |
| `calculator` | the twelve test programs of the repository; an application with edits of delays and two resets; one that queues its runs, traces and registers callbacks; five declarations that must be refused | `RealtimeIsLatest`, `DependenciesFirst`, `AsTested`, `NoAssert`, `RowsAreIdeal`, `SyncedNotEarly` |
| `calc_indices` | a signal with two, or three, inputs whose delays all change | `EditTakesEffect`, refuted |
| `canbus` | seven applications on two or three nodes (below) | `AnswerIsOwn`, `EntriesLive`, `TimeoutNeedsLosses`, `QuietWithoutFaults`, `SendsReturn` |
| `cii` | nine applications with one or two clients (below) | `SessionsCounted`, `AnswersInOrder`, `RefsExact`, `StatusesInOrder`, `TornDown` |
| `late_ref` | one client that hangs up | `BackendHeld`, refuted |
| `callbacks` | two clients, one command each | `CallbacksSerial`, refuted |
| `services` | each library with two or three of everything (below) | `EarliestFirst`, `TimersExpire`, `WorkRuns`, `LogKeepsNewest`, `RaisesReachSubscribers`, `LastWriteRead`, `CallbacksCurrent` |

### The bounds, and why they are enough

* Engine. Two queued messages plus the engine's own give every order of a client's
  message, another client's and the engine's StopInternal; a third client adds no new
  kind of overtaking, and the proofs hold for any number. In `program` the lists have
  every kind of segment, every transition of the status switch, a loop in a loop and both
  passes of the extension import.
* Calculator. Its behaviour depends on the declared windows, and the test programs
  have them up to 60 samples wide and three deep, forward, backward and mixed; each is run
  for as many rounds as the program runs it, which laps the ring wherever the test is
  about windows. `Interactive` puts a backward-looking signal on a forward-looking one,
  declared in the wrong order, and may change the delays of both; `Asynchronous` interleaves two queued runs, two resets and
  three registrations.
* CAN bus. `Reused` and `ReusedExt` send an id twice, as a plain command with up to three
  losses (the number of attempts), as an extended one with up to two, both with a refused
  write; `Parallel` has two threads of a node at once,
  `Crossed` two nodes with an interrupted wait, `Announced` a broadcast on a bus of three,
  `Refused` NAKs and slots in two groups; `Late` has late answers without a reused id.
  Messages have up to three fragments, so that there is a first, a middle and a last.
* Interface. `Masters`: two clients want to be master, one hangs up, one breaks the
  framing. `LocalUIs`: two that come and go. `Pending`: two commands kept by the application,
  a status and a hang up. `Refused`: every refusal of a command, and an unknown
  type. `BadLogin`, `SecondLogin`: the refused logins. `Within`: commands completed in their
  callback. `Early`: commands completed by a thread that does not wait for it. `Flooded`: three
  statuses for a queue of 2 (the code's 1000 is only compared with the length), and a debug
  drop. Two clients are all that is needed for a contest; the theorems hold for any number.
* Services. Three timers with delays 0, 600 and 1000 ms on a clock of 600 ms (carries
  from nanoseconds to seconds included), two addresses, so that one is reused; three
  work items; three log files, five messages, two restarts; three subscriptions of two
  observers, two handlers, two user data; two writers, three writes of one and two
  blocks, a purge, a fault; four boards, three polls, two changes of level.

The passing runs together take every action of the specifications.

Deadlock is checked in the engine's runs: an idle engine always leaves the application
something to do, and a crashed one stutters by `Crashed`. In the others it is not:
their applications are finite programs, and a process that aborted or crashed stops. That
nobody stops in the middle is what the liveness properties say instead.

### What the properties say

* `EndPending`: a list at its end has its StopInternal queued, and the engine can time
  out there only while a client holds back a post. `ExecutesInRange`: without such
  clients it never executes past the end.
* `RunOnlyBegun`: Run and conditionals are called only for a segment in progress,
  through restarts, edits and skips. The one exception needs a client that holds back a
  post: a segment that failed is then run once more.
* `RunsAsPromised`: the engine implements `ListLifecycle`: one list at a time, every run
  ended by one static callback before the next begins, an edit moves the run to another
  list, and no list is freed while it runs. The mapping takes the phase from the engine's
  state and place, and the running list from `ActiveSegmentList` while the state is not Idle.
* `RunningListLocked`: the engine holds the mutex of exactly the list it runs, the
  list exists, and otherwise it holds none.
* `OneReply`: calls in progress match, one to one, a queued message, an edit under
  way or a reply.
* `ExtensionsOwned`: extensions live in the running list only, and all of its
  loops have one, when no edit gives a tag another kind of segment (`TagsKeepKind`, a
  condition on the lists; for other edits it fails, as said under the findings).
* `CallsReturn`, `EndReported`, `StopObeyed`: a synchronous call returns; a list at its
  end is reported; a Stop is obeyed even by lists that loop. `CallsReturn` has a safety half,
  `NoMessageForgotten` and `NoCallForgotten`: the engine does not wait with a message queued, nor
  a caller for a reply that is not posted, but between a client's push and its post. So has `EndReported`:
  `FaultsExplained`, what it takes for each kind of undefined behaviour (a client delayed between
  push and post, lists that change the kind of a tag, a second client).
* `RowsAreIdeal`: the calculator implements `RowStream`, through resets and changes of
  delays. `RealtimeIsLatest`: the real-time reader sees the newest value, never the remains of
  an older lap or epoch. `DependenciesFirst`: the order of calculation. `AsTested`: the
  order of columns and the missing results that the test programs' tables expect.
  `SyncedNotEarly`: a data-synced callback fires only when the rows before its trigger
  are out. `NoAssert`: no ASSERT fires and no search hangs, but for bad declarations.
* `AnswerIsOwn`: a command returns what its own target answered to that very message, whole,
  if no other message is sent under its id; and if it is a plain command, also where its id
  is used again, provided that answers come in time, one thread of the node has the id, and
  no wait is interrupted. Why not more is said under the findings. `EntriesLive`: the list
  holds the calls in progress, each once. `TimeoutNeedsLosses`: with sender and target on
  the bus, answers in time and one user per id, a timeout means three losses, or two losses
  or refused writes for an extended command, one of whose attempts may be spent on resetting
  the reassembly. `QuietWithoutFaults`: under the same conditions a bus without faults
  reports no protocol error. `SendsReturn`: every call returns.
* `SessionsCounted`: one master, the one the library reports, and the right number of local
  UIs. `AnswersInOrder`: ACK before response, each once, and no message freed unanswered.
  `RefsExact`: the reference count is two threads and the messages. `StatusesInOrder`: no
  status out of order or skipped. `TornDown`: a closed connection is freed in the end, or the
  process has crashed. Its safety half `StatusNoticed` says that a status thread does not wait
  while something is queued for it, or while it is to end, but until `DestroyStatusWorker`
  posts it; the other, `CrashesExplained`, says what each crash takes, so that the
  connections of programs without such causes are freed.
* `EarliestFirst`, `TimersExpire`: timers are called in order, not early, and in the end.
  The safety half of the latter: a thread that waits was posted, or waits no longer than to
  the first timer (`TimersWatched`), and each timer that was queued is in the list, was called once,
  or was cancelled (`TimersAccounted`).
  `WorkRuns`: each item in order (`WorkInOrder`), none without a post while the thread waits
  (`WorkNoticed`), and each in the end. `LogKeepsNewest`: whatever is killed
  when, the files are a suffix of what was written, and the thread that writes them is posted
  for what is queued (`LogNoticed`). `RaisesReachSubscribers`: one call per
  subscription. `LastWriteRead`: a read returns the last value whole. `CallbacksCurrent`:
  callbacks know the value of their input and are told nothing twice.

### Fairness

Engine: the engine thread is scheduled (weak fairness on its steps together), and so is
each client that is in the middle of a call. Nobody is obliged to make a call, or to stop
making them. No fairness is asked of a callback's results: a segment may continue for
ever. `StopObeyed` needs no more, because validated loops are finite and a callback
that continues returns control to the message loop: within one visit of
`ExecuteSegments` a list can only go round for a bounded number of steps. That is
what the mutant `RearmAlways` breaks.

CAN bus: every thread is scheduled, a read thread gets the frames its driver holds, the
slots are added, and a timed wait ends (that is what the time in it is for). Faults
are not fair: they may happen, up to their bound, or not.

Interface: socket threads, status threads and the work queue's thread are scheduled, and
the application completes the commands it keeps, as src/inc/CommonInstrumentInterface.h
demands ("it _must_ call this later"). Clients need not send, hang up or be dropped.

Services: the clock goes on, and the expirer's and the work queue's threads are scheduled.

## 5. Findings

Each is a run that TLC refutes, against what the repository says of itself.

* **A stop meant for one list ends another** (`stale_stop`). A list reaches its end and
  the engine queues StopInternal; a Stop and a Start were queued before it. The Stop
  ends the first list, the Start begins the second, and the StopInternal ends the
  second list before its end, with the End callback, since StopInternal names no list
  (src/SegmentExecutionEngine/SegmentExecutionEngine.cpp:964). The header documents
  that callback as "Called on the normal end of a Segment List. You reached the end."
* **Stop of a segment that is not in progress** (`early_stop`). Stop, Terminate and skip
  call the Stop callback of the segment at `CurIndex` whether or not its Start was
  called (SegmentExecutionEngine.cpp:238). A stop within 25 ms of a start shows it.
  The header says "Optionally called once to stop a running a Segment, if that segment
  was in progress."
* **An edit at the end of a list reads past the end** (`late_edit`). With StopInternal
  queued behind a Modify, `FindNewSegmentIndex` indexes the active list at its size
  (SegmentExecutionEngine.cpp:669).
* **A change of several delays keeps every second one** (`calc_indices`).
  `ChangeInputSignalIndicies` advances its counter in the `for` and again in the body
  (src/SignalCalculator/Calculator.cpp:636). With an odd number of inputs every second
  one keeps its delays; with an even number the ASSERT on the sentinel after the loop
  ends the process too. The test programs do not change delays of several inputs.
* **A status thread that starts late uses a freed connection** (`late_ref`). The
  thread takes its reference itself (src/CommonInstrumentInterface/CiiStatus.cpp:59). When it
  first runs after the socket thread has already let the client go, there is nothing
  left to refer to. The comment there says "Prevent the backend from going away".
* **Callbacks are not serialized** (`callbacks`). `ApplicationCallbackLock` is described as
  the lock "to serialize application callbacks, so that the App doesn't have to worry that
  two or more callbacks are being called simultaneously", but it is released once the callback has
  been looked up (CommonInstrumentInterface.cpp:638 and 699), and each client's socket thread
  then calls it by itself (lines 660 and 721).

### Seen on the way, and not claimed

No document promises otherwise, or only a misuse shows it.

* Engine. The edit writes `CurIndex` of the old list after releasing it, so a concurrent
  destroy frees it first (`ModifySwapFreed`); a client that loses the processor
  between push and post delays the StopInternal (`ExecuteOutOfRange`); an edit that keeps
  a unique tag but turns another segment into a repeat leaves it without an extension
  (`StartRepeatNoExtension`), or turns a repeat into another segment and leaks its one.
  A synchronous call from a callback waits for the thread it is on. A repeat left in the
  middle of its loop by a skip keeps its count.
* CAN bus. A command sent from a receive callback cannot be answered, since the read
  thread is the one that waits. An interrupted extended command returns a code nobody set
  (SendCanbusMessage.cpp:507). Two threads of a node that use one id share their answers.
  An answer carries nothing but its id (line 269), so one that comes after its command gave up is
  taken for the answer of the next command with that id. An interrupted wait has the same
  effect even if nothing is late: the plain command is sent again, both copies are answered, and
  the second answer is left for the next command. And an extended command that gives up after a
  refused write leaves its first fragments in the target's reassembly; if the next one with
  that id has as many fragments and its first one is lost, its second completes the old
  message: a mixture of the two is given to the callbacks and acknowledged, and nobody
  reports an error (ReceiveCanbusMessage.cpp:433). `AnswerIsOwn` says where none of this
  happens.
* Interface. `DestroyStatusWorker` posts a semaphore that the status thread may have freed;
  `CiiDbgDropClient` uses a client after it released the lock. Both are crashes of the model,
  and `CrashesExplained` says what they take: a status sent, and a client that leaves while it
  is dropped. A client that logs in twice, or at an unknown level, ends the process:
  the NAK it is to be sent is only written for commands (CommonInstrumentInterface.cpp:430). A
  thread that completes a command before its callback returned may cause two ACKs, a message
  that is freed while the socket thread uses it, or one that is never freed. A message of an unknown type is never freed and keeps its
  connection.
* Services. A timer callback that queues or cancels a timer, and an event handler that
  subscribes, wait for the lock their own thread holds (src/Timers/Timers.cpp:330,
  src/SystemEvents/SystemEvent.cpp:84). A cancel may remove a newer timer at the same
  address. A destroyed work queue ends the process. Two writers of one DataId without the
  overwrite flag may both succeed. A configuration with an input among the outputs
  writes outside the table, and `TaGpioInit` succeeds whatever lines failed.

## 6. What is proved

### The segment engine

`SegmentEngine_proofs` and `SegmentEngine_results` prove, for any lists that satisfy
`ListsAssumption`, any finite set of clients, any set of preempted ones and any queue bound:

| theorem | statement |
|---|---|
| `Invariance` | `Spec => []IInv` |
| `TypeCorrect` | `Spec => []TypeOK` |
| `EndIsPending` | `Spec => []EndPending` |
| `NeverExecutesOutOfRange` | `Spec => []ExecutesInRange` |
| `RunningListIsLocked` | `Spec => []RunningListLocked` |
| `SegmentsRunAreBegun` | `Spec => []RunOnlyBegun` |
| `CallsAreAnsweredOnce` | `Spec => []OneReply` |
| `NoCallIsForgotten` | `Spec => [](NoMessageForgotten /\ NoCallForgotten)` |
| `ExtensionsFollowTheList` | `Spec => []ExtensionsOwned` |
| `FaultsNeedACause` | `Spec => []FaultsExplained` |
| `EngineRunsAsPromised` | `Spec => RunsAsPromised` |

Assumed: `NullAssumption`, `SegmentsAssumption`, `ListsAssumption`,
`ClientsAssumption`, `MaxQueueAssumption`. TLC evaluates them in every run.

None of the properties is inductive as it stands. `IInv` adds to `TypeOK`:

* `Posts`: the queue is longer than its semaphore by the number of clients between
  push and post. From it: a message is there when the semaphore is up, and when the
  semaphore is zero and nobody is in the window the queue is empty. So a timeout with
  a StopInternal queued needs a client in the window, which is `EndPending`
  and, with no such clients, `ExecutesInRange`.
* `Threads`, `Position`: the engine is out of its message loop only while a list runs,
  and its index is in range wherever it is about to be used.
* `QueuedListsUsable`, `Destroys`: a list named by a message exists and nobody is
  waiting to destroy it. This is what makes a list alive when it is started, and with
  the mutex it stays so: `RunningListLocked`.
* `OneCaller`, `QueuedAsked`, `SwapAsked`, `ReplyAsked`: one synchronous call at a time,
  and what it waits for is in one place: the queue, the edit, or the reply slot.
* `EditApart`: until `SeModifySegmentList` returns, no other message names its new list,
  and the engine runs that list only if the reply is Success. Without it, the cleanup
  after a refused edit could free a running list.

Each part is preserved by lemmas on the queue (`Posts...`), the engine's place in the
list (`To...`), and the token that is passed between client and engine (`EngineGrows`,
`EngineTakes`, `EngineAnswers`, `SyncCall`); `InvariantNext` puts them together action
by action.

The results add to `IInv`, each for itself:

* `Begun` (`SegmentsRunAreBegun`): in the middle of a list the history variable holds
  unless a StopInternal is queued or the segment is about to be started.
* `Answerable` (`CallsAreAnsweredOnce`): `IInv` says that no reply comes without a call;
  this is the converse, that what a call waits for is still somewhere. `RepliesCounted` turns
  both into the equation of `OneReply`. With `Posts` it gives `NoCallIsForgotten` too: if the
  semaphore is zero and nobody is in the window the queue is empty, and what a caller waits
  for is then its reply.
* `Extended` (`ExtensionsFollowTheList`): between the two locks of an edit the new list
  already holds the extensions, and a list named by a queued edit holds none. What an edit
  moves, creates and frees is taken from `ImportedExtensions` for all pairs of lists at once.
* `FaultsExplained` is `Extended`, `ExecutesInRange` and `EditApart` turned to the four kinds
  of undefined behaviour: which of them needs a stalled client, which a pair of lists that
  change the kind of a tag, which a second client.
* `EngineRunsAsPromised` maps each action, under `IInv`, to a step of `ListLifecycle` or to a
  stutter (`LifecycleEngine`, `LifecycleClient`). It needs `RunningListLocked` for the
  destruction of a list, `QueuedListsUsable` for a start, and `EditApart` for an edit.

### The common instrument interface

`CiiSessions_proofs` proves, for any finite set of clients, whatever they send, whatever the
callbacks answer, and any queue size (assumed are `ClientsAssumption`, `NullAssumption` and
`QueueAssumption`):

| theorem | statement |
|---|---|
| `OneMaster` | `Spec => []SessionsCounted` |
| `ReferencesExact` | `Spec => []RefsExact` |
| `StatusesSentInOrder` | `Spec => []StatusesInOrder` |
| `AnswersSentInOrder` | `Spec => []AnswersInOrder` |
| `StatusThreadsAreWoken` | `Spec => []StatusNoticed` |
| `CrashesNeedACause` | `Spec => []CrashesExplained` |

`SessionInv` adds to `SessionsCounted` only where threads may be and which levels there are:
a login is granted to a client that has none (`LoginFacts`), so `LoggedIn` grows by one
client and the counters with it; `Unregister` takes that client out of both.

`RefsExact` needs more, because a step that frees a message lowers the count for one client
and must not find the message gone. `RefInv` adds:

* `MessagesApart`: messages are finitely many, and told apart by client and place. So
  freeing one lowers `Cardinality` by exactly one (`FreeCounted`), and writing to one leaves
  it (`WriteCounted`).
* `Handling`: from the arrival of a message until its callback returns, and while the socket
  thread responds, the message is there, and nobody else can free it (`Safe`): before the
  callback has returned it is not posted, and a thread that completes it would only mark it;
  when the socket thread responds, it is not a message the application keeps. Between the
  two, while `HandleMessageCompletion` looks at it, the message may be gone, and the steps
  there say so themselves.
* before the accept a connection has no messages and no status thread.

Each step is then one of: nothing counted changes (`RefsSteady`, `RefsElsewhere`), the status
thread takes or drops its own (`RefsOfWorker`), a message comes (`RefsOfReceive`), is written
to (`RefsOfWriteByThread`, or by the application: `RefsOfWriteKept`) or goes
(`RefsOfFreeByThread`, `RefsOfFreeKept`), or the socket thread ends (`RefsOfRelease`). What the
application's thread does is collected in `RefsOfApplication`.

`StatusesInOrder` is about what was sent, and needs the whole way of a status (`FlowInv`). The
work queue holds the last statuses that were raised, in order (`Dispatching`). The queue of a
connected client holds a contiguous range that ends with the one handed out last, unless the
client is still in the list of those it goes to (`UpToDate`), and begins after the one that
its status thread took out last, with which what it was sent ends (`Queued`, `Delivered`). A
connection that was closed owes nothing more. So a status that is skipped would have to be
skipped at one of these three seams.

`AnswersInOrder` is about messages that are gone as well, so `AnswerInv` says for each place a
message can be in what was sent for it: nothing, the ACK only, or the ACK and the response
(`Stage`); that only a message which its callback completes is complete before
`MsPostCallback`; and that a step appends answers only to its own message. An `early`
application is set aside, as in the property.

`StatusNoticed` is inductive once it is said of connections without a status thread as well
(`Noticed`): a status thread is created for a connection nobody has posted, so nothing may
be queued for it by then. That it is created once is taken from `RefInv`.

`CrashesExplained` holds in the states before a crash as well, so `CrashInv` is about what leads
to one. A client has a level only if it sent a login before (`Known`), so a login that is refused
is its second, or at no level at all. `HandleMessageCompletion` finds the message whose callback
it was called for, if no application is early (`Tended`, with `AnswerInv`). A status thread ends
only when told, and with no status sent its semaphore is down until `DestroyStatusWorker` posts
it (`Quits`), so that the thread cannot have ended, and freed the semaphore, before the post. And a
client is freed only when its socket thread has ended, which `RefsExact` gives (`FreedLeaves`).
`NullAssumption` keeps "no crash" apart from the names of the crashes.

### The CAN bus protocol

`CanProtocol_proofs` proves, for any nodes, threads and programs, any slots, and whatever is
lost, refused, interrupted or late (`BroadcastAssumption` and `AppsAssumption`, the form of an
application, are assumed):

| theorem | statement |
|---|---|
| `EntriesAreLive` | `Spec => []EntriesLive` |
| `DeliveriesAreWhole` | `Spec => []DeliveredWhole` |
| `AnswersAreOwn` | `Spec => []AnswerIsOwn` |
| `TimeoutsNeedLosses` | `Spec => []TimeoutNeedsLosses` |
| `FaultlessBusIsQuiet` | `Spec => []QuietWithoutFaults` |

`Inv`, which needs no condition, follows a fragment from its sender to the application and its
answer back. Every frame on the bus is a fragment of some message of a program, or an answer
that was given (`BusOK`); a reassembly holds the first fragments, in order, of messages that
are sent under its id and have as many fragments as it expects (`ReassemblyOK`); what was
delivered is a complete such list (`DeliveredOK`); an answer, on the bus, in an entry or
returned, says what the callbacks of its sender returned for such a list under the command's
id (`Given`). With the list of entries (`ListsOK`: one for each command in progress) this gives:
the answer a command returns was given to a complete list of fragments with its id. If no other
message has that id (`Sole`), the list is the command's own message. The rest needs more:

* `TimeoutsNeedLosses`. What the frames on their way will make of a reassembly is a `Course`:
  where it is now (`Place`), and where it is after each frame of the queue. While nothing was
  lost or refused, the course fits without an error and ends where the thread that sends is
  (`SteadyOK`): this is an invariant of the bus, so that the first fault finds every
  reassembly in step. `RetriesOK` then counts: a plain command that waits with neither its
  frame nor an answer on the bus has lost one in every attempt so far (`CommandRetries`); an
  extended one is, after one fault, in an attempt that will be answered (`Sound`) or in the
  one that resets the reassembly (`Resetting`), and it is never in two of the second kind
  (`ExtendedRetries`).
* `AnswersAreOwn`, where an id is used again. Of a command at most one token is on the bus, its
  last frame or an answer, and only while its thread waits and has not been posted
  (`TokensOK`, `SendsUnwoken`). So when a thread begins a command nothing of the one before is
  left, neither frame, answer nor post, and all that is found under its id until it returns
  is its own (`CurrentOK`, `ReturnedOwn`). Timely answers are what makes a retry begin with an
  empty bus, and an interrupted wait is what would send a second token.
* `FaultlessBusIsQuiet` is both together: a fragment fits because of `SteadyOK`, and an answer
  finds the entry of the thread that waits for it because of `TokensOK`.

### The services

`Services_proofs` proves, for any data, writers, boards, callbacks, observers, delays, items,
messages, files and bounds (assumed are `TimerAssumption`, `LogAssumption`,
`DataAssumption` and `EventAssumption`: they are the types of the constants, and that there is
at least one log file and a tick longer than nothing):

| theorem | statement |
|---|---|
| `ReadsReturnTheLastWrite` | `Spec => []LastWriteRead` |
| `CallbacksAreCurrent` | `Spec => []CallbacksCurrent` |
| `RaisesReachTheirSubscribers` | `Spec => RaisesReachSubscribers` |
| `TimesAreExact` | the arithmetic of `struct timespec` is that of milliseconds |
| `TimersAreWatched` | `Spec => []TimersWatched` |
| `NoTimerIsLost` | `Spec => []TimersAccounted` |
| `TimersFireInOrder` | `Spec => EarliestFirst` |
| `WorkIsOrdered` | `Spec => [](WorkInOrder /\ WorkNoticed)` |
| `LogIsKept` | `Spec => LogKeepsNewest` |

A step of the program is a step of one library and leaves the variables of the others, so each
has an invariant of its own. `StoreInv`: what a call has seen of the file is still so while no
other call has overlapped it, for the writer (its file is empty between `creat` and `write`) and
for the reader (the file and its size are those it opened). `GpioInv`: the library's record of a
callback is the last value it was told; since its first poll, and in a poll once its input has
been read, that is the value of the input. `EventInv`: the lists hold each subscriber as often
as it is subscribed, and during a raise what was called and what is still to be called make up
the list.

`TimersInv`: every timer in the list has a time of its own and a number that no other has, the
list is in order of time while the thread goes through it, and `TimersWatched`. That the list is in order
then rests on the sort: `Sorted` is a recursive function, so it is followed one timer at a time
(each insertion keeps the timers and the order) by the lemmas on recursion over a list of
`Sublists_proofs`, which find the least number at which a claim would fail. The thread stops at
the first timer that is not due, whose time becomes its timeout, and no other is earlier. A queued timer
posts, nothing else does, and a cancel only makes the wait shorter than it need be. `TimersAccounted`
is inductive with it: what a cancel removes has the numbers it records, and no other timer has them.

`WorkInv`: what was called and what waits are together the items queued, in order
(`WorkFollows`); the thread takes a post before it looks, and looks at the end flag before the list.

`LogInv`: between two renames the number after the next file to rename is free (`LogShifts`),
so a rename overwrites nothing; the only file that is lost is the last, which was unlinked
first. `Text` is a recursive function over the files; `TextRuns` and the lemmas that follow say what a
rename, an unlink and a write make of it. The messages that wait are newer than those that
were written, newest first (`LogOrder`), and what was written ends with the text
(`LogEndsWritten`), whenever the program is killed.

### The signal calculator

`SignalCalculator_proofs` proves, for any signals, windows, applications and registrants
(`CellsAssumption`, `NullAssumption` and `AppsAssumption` are assumed):

| theorem | statement |
|---|---|
| `DependenciesComeFirst` | `Spec => []DependenciesFirst` |
| `RealtimeValuesAreLatest` | `Spec => []RealtimeIsLatest` |
| `AssertsHold` | `Spec => []NoAssert`, assuming `OddEdits` |
| `RowsAreDelivered` | `Spec => RowsAreIdeal` |
| `CallbacksWaitForRows` | `Spec => SyncedNotEarly` |

* The sort. Between two rounds of it (`Kahn`) the sorted list has each signal after those it
  reads, the list `S` holds exactly the signals that can come next, and a signal that is in
  neither still waits for one. So the result is in order, and if signals are left over each of
  them waits for another one that is left over: a cycle.
* The delays. In a sorted table the absolute delays are the largest sums over the inputs
  (`Adds`), they exist and are unique, and the ring is longer than any signal looks back from
  where it is (`DelaysFit`).
* The ring. `CalcInv` says that the tables hold what was declared (`Declared`), that a calculator
  that was started is sorted and fits (`SetUp`), that each signal is behind the sample by its
  forward delay and its countdown is what is left of its backward delay (`Counting`), and that
  each column of the ring holds the last `maxBuffering` indices of its signal, missing where they
  reach before the first sample (`RingOK`). A round keeps it signal by signal in the sorted
  order: whatever a calculation reads was written, and has not been overwritten (`WithinRing`,
  `SlotsDiffer`). `RealtimeValuesAreLatest` is the column at its latest index.
* `AssertsHold`. An aborted calculator has a declaration to blame: an id twice, an unknown
  input, or a set of signals each of which reads another one of it, which is what the search
  for delays and the sort leave behind. That a run, or a reset, never finds the delays changed
  under it follows from `Counting`: they are changed only while the control thread holds the run
  lock. `OddEdits` says that delays are changed only of signals with an odd number of
  inputs; for the others the ASSERT fires, which is the finding `calc_indices`.
* `RowsAreDelivered`. `Exists` and `Ready` of `RowStream` are defined by recursion over what
  signals read. Chains of absolute delays solve these definitions (`Chains`), and nothing else does
  (`ChainsUnique`): so index k exists if it is not less than the absolute backward delay, and
  is ready after n samples if k plus the absolute forward delay is less than n. The rows sent are then
  those that the signal with the largest forward delay has reached (`Furthest`), a row that a run sends is
  read from the columns before they are overwritten (`RunRow`), and those of a flush likewise
  (`FlushedRow`). Each step of the calculator is a `Declare`, `Sample`, `Reset` or `Quiet` of
  the stream, or a stutter.
* `CallbacksWaitForRows`. Triggers are indices (`Callbacks`), a run takes callbacks from the front
  of the list and stops at the first that is not due, so those that it fires are due
  (`FiredInTime`), and what is due is a row that is out (`SyncedStep`). Only a run counts the rows
  on. That the list is sorted is not needed, and an old trigger can make it unsorted: a
  callback may then fire late.

### Only model-checked

* Liveness (`CallsReturn`, `EndReported`, `StopObeyed`, `SendsReturn`, `TornDown`,
  `TimersExpire`, `WorkRuns`) rests on fairness, which the proof system does not handle. Their
  safety halves are proved: that no thread waits for a post that is not to come
  (`NoCallIsForgotten`, `StatusThreadsAreWoken`, `TimersAreWatched`, `WorkIsOrdered`), and
  what the crashes take that would end the program first (`FaultsNeedACause`,
  `CrashesNeedACause`).
* `AsTested` compares the calculator with tables of the test programs: it is about those
  instances.
* The even half of `NoAssert`, as said above.

## 7. Not modelled

* Engine. The registration of commands (done before the engine runs), the parsing of the
  binary format (its acceptance conditions are `ListValid`), the user callbacks Setup and
  Cleanup of segments other than the repeat, callbacks that call the engine synchronously,
  the debugging output, lists built inside the program
  (`SeInternalCreateEmptySegmentList`, `SeInternalAppendSegment`), which skip validation, and
  `FindSegments.cpp`, a search over a list in memory that nothing in the library calls and
  that does not end if the next segment does not match (line 54). Several engines in one
  process share nothing, so one is modelled. Of `MessageQueue`, the destruction of a queue,
  called only when the creation of an engine fails.
* Segment helpers. The bookkeeping of `ISegmentRepeatUntil` and the CAN bus segments, which
  wrap `CnSendMessage`.
* Calculator. `SmDeprecateSignal`, the cleanup function, user data, what the calculations
  compute, debugging output.
* CAN bus. `CnUninitializeProtocol`, statistics, the logging of frames, frames of a
  length the library never sends, the read thread's end on a short read.
* Interface. The registration of message callbacks (before clients connect), the optional
  data of a response, reads that return part of a message, socket traces, a descriptor that
  is closed twice, `CiiLogging.cpp`. `CommFaultInjection`: switches for testing clients, off
  unless an application sets them, that corrupt sent frames and delay answers.
* `ConsoleMemoryDump` and `src/src`: formatting and start-up calls of the operating system,
  without state of their own.
* Test programs other than the signal calculator's: callers of the libraries, often
  interactive, that state no expectations to check.
