----------------------------- MODULE WorkQueue -----------------------------
(***************************************************************************)
(* The work queue (src/WorkQueue): threads queue items, the queue's thread  *)
(* runs them; an item's callback may queue another item.                    *)
(***************************************************************************)
EXTENDS Naturals, SequencesExt

CONSTANT MaxWork  \* the items that are queued

VARIABLES
    WorkItems,
    ThreadMessageSemaphore,
    TerminateWorkQueue,
    worker,   \* "starting", "waiting", "draining", "calling", or "dead"
    workNr,   \* how many items were queued
    called    \* history: the items whose callback was made

workVars == <<WorkItems, ThreadMessageSemaphore, TerminateWorkQueue, worker, workNr, called>>

\* CreateWorkQueue
WorkInit ==
    /\ WorkItems = <<>> /\ ThreadMessageSemaphore = 0 /\ TerminateWorkQueue = FALSE
    /\ worker = "starting" /\ workNr = 0 /\ called = <<>>

\* By any thread, and by a callback; not after DestroyWorkQueue.
QueueItemNoPost ==  \* Fault: the thread is not told.
    WorkItems' = Append(WorkItems, workNr') /\ UNCHANGED ThreadMessageSemaphore
QueueItem ==
    WorkItems' = Append(WorkItems, workNr') /\ ThreadMessageSemaphore' = ThreadMessageSemaphore + 1

QueueWorkItem ==
    /\ workNr < MaxWork /\ ~TerminateWorkQueue
    /\ workNr' = workNr + 1
    /\ QueueItem
    /\ UNCHANGED <<TerminateWorkQueue, worker, called>>

DestroyWorkQueue ==
    /\ ~TerminateWorkQueue
    /\ TerminateWorkQueue' = TRUE
    /\ ThreadMessageSemaphore' = ThreadMessageSemaphore + 1
    /\ UNCHANGED <<WorkItems, worker, workNr, called>>

WorkerStarts ==
    /\ worker = "starting" /\ worker' = "waiting"
    /\ UNCHANGED <<WorkItems, ThreadMessageSemaphore, TerminateWorkQueue, workNr, called>>

\* The wait ends.  A terminated queue drops its items until it dequeues none,
\* and clears that one too, through a null pointer: the program ends there.
WorkerWakes ==
    /\ worker = "waiting" /\ ThreadMessageSemaphore > 0
    /\ ThreadMessageSemaphore' = ThreadMessageSemaphore - 1
    /\ IF TerminateWorkQueue THEN worker' = "dead" /\ WorkItems' = <<>>
                             ELSE worker' = "draining" /\ UNCHANGED WorkItems
    /\ UNCHANGED <<TerminateWorkQueue, workNr, called>>

\* DequeueWorkItem, and the callback begins.
WorkerDequeues ==
    /\ worker = "draining"
    /\ IF WorkItems = <<>>
       THEN worker' = "waiting" /\ UNCHANGED <<WorkItems, called>>
       ELSE /\ worker' = "calling" /\ WorkItems' = Tail(WorkItems)
            /\ called' = Append(called, Head(WorkItems))
    /\ UNCHANGED <<ThreadMessageSemaphore, TerminateWorkQueue, workNr>>

CallbackReturns ==
    /\ worker = "calling" /\ worker' = "draining"
    /\ UNCHANGED <<WorkItems, ThreadMessageSemaphore, TerminateWorkQueue, workNr, called>>

WorkerStep == WorkerStarts \/ WorkerWakes \/ WorkerDequeues \/ CallbackReturns
\* Nothing runs in a program that has ended.
WorkNext == worker # "dead" /\ (QueueWorkItem \/ DestroyWorkQueue \/ WorkerStep)

\* QueueWorkItem, WorkQueueThread: the items are run in the order in which
\* they were queued, each once.
WorkInOrder == called = [i \in 1 .. Len(called) |-> i]

\* QueueWorkItem, DestroyWorkQueue: the thread does not wait in vain.  What was
\* queued while it waits has posted it, and so has the end of the queue.
WorkNoticed ==
    /\ worker \in {"starting", "waiting"} /\ WorkItems # <<>> => ThreadMessageSemaphore > 0
    /\ worker # "dead" /\ TerminateWorkQueue => ThreadMessageSemaphore > 0

\* QueueWorkItem, WorkQueueThread: an item is run after those queued before
\* it and none twice; each item is run in the end, unless the queue is
\* destroyed.
WorkRuns ==
    /\ [](WorkInOrder /\ WorkNoticed)
    /\ \A i \in 1 .. MaxWork : workNr >= i ~> i \in Range(called) \/ TerminateWorkQueue
=============================================================================
