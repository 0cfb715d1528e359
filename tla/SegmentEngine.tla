---------------------------- MODULE SegmentEngine ---------------------------
(***************************************************************************)
(* One segment engine: the thread SegmentEngineThread, the message queue it *)
(* waits on, and the client threads that call the Se... control functions   *)
(* (src/SegmentExecutionEngine, src/MessageQueue).                          *)
(*                                                                          *)
(* The engine thread handles one message at a time and, when none arrives   *)
(* within 25 ms while a list runs, executes segments.  A client queues its  *)
(* message at any moment of that, and the synchronous ones wait, holding    *)
(* Engine->Lock, for the reply.                                             *)
(***************************************************************************)
EXTENDS SegmentLists, FiniteSets

CONSTANTS
    Clients,      \* application threads, other than the engine's
    Preempt,      \* those that may lose the CPU for longer than 25 ms
                  \* between the push_back and the sem_post of MqQueueMessage
    MaxQueue      \* bound: clients queue nothing beyond this many messages

ASSUME ClientsAssumption == Preempt \subseteq Clients /\ IsFiniteSet(Clients)
ASSUME MaxQueueAssumption == MaxQueue \in Nat \ {0}

VARIABLES
    msgs,         \* MESSAGE_QUEUE.Messages
    sem,          \* MESSAGE_QUEUE.WaitSemaphore
    client,       \* what each client thread is doing
    replies,      \* Engine->Messages[Id], per synchronous message: the Status
                  \* of each post of hWait that nobody has waited for yet
    pc,           \* where the engine thread is
    state,        \* EngineState
    active,       \* Engine->ActiveSegmentList
    startNew,     \* StartNewSegment of SegmentEngineThread
    runStatus,    \* RunStatus of SegmentEngineThread
    execNew,      \* StartNewSegment of ExecuteSegments
    segStatus,    \* RunStatus of ExecuteSegments
    swap,         \* the list and index an edit is about to switch to
    notify,       \* the static callback that is running
    alive,        \* the lists that are created and not freed
    inUse,        \* the lists whose InUse mutex the engine holds
    curIndex,     \* SegmentList_t.CurIndex
    attached,     \* per list, the indices i whose Segment_t.Conditional is
                  \* set: it is then the segment at i - 1
    ext,          \* per list, Segment_t.Extension
    begun,        \* history: the segment at CurIndex is in progress
    fault         \* undefined behaviour the engine thread ran into

queueVars == <<msgs, sem>>
listVars  == <<alive, inUse, curIndex, attached, ext>>
execVars  == <<execNew, segStatus>>
vars == <<msgs, sem, client, replies, pc, state, active, startNew, runStatus,
          execNew, segStatus, swap, notify, alive, inUse, curIndex, attached, ext,
          begun, fault>>

-----------------------------------------------------------------------------
(* Messages.  EngMsgTimeout is no message: see TimeoutRunning.              *)
SyncIds  == {"Start", "Modify", "Goto"}
AsyncIds == {"Stop", "Terminate"}
MessageIds == SyncIds \cup AsyncIds \cup {"StartInternal", "StopInternal"}
Message == [id : MessageIds, list : Lists \cup {Null}]
Msg(id, l) == [id |-> id, list |-> l]
StopInternalMsg == Msg("StopInternal", Null)

ClientPc == {"idle", "postSync", "postAsync", "wait", "destroy"}
EnginePc == {"dequeue", "execute", "status", "swap", "callback"}
EngineState == {"Idle", "Running"}
EngineRunStatus == {"Invalid", "Continue", "End", "Terminate"}
Notification == {"none", "End", "Terminate"}
Fault == {"none", "execute", "modify", "extension", "useAfterFree"}

IdleClient == [pc |-> "idle", id |-> "Stop", list |-> Null]

TypeOK ==
    /\ msgs \in Seq(Message)
    /\ sem \in Nat
    /\ client \in [Clients -> [pc : ClientPc, id : MessageIds, list : Lists \cup {Null}]]
    /\ replies \in [SyncIds -> Seq(ReplyStatus)]
    /\ pc \in EnginePc
    /\ state \in EngineState
    /\ active \in Lists \cup {Null}
    /\ state = "Running" => active \in Lists
    /\ startNew \in BOOLEAN
    /\ runStatus \in EngineRunStatus
    /\ execNew \in BOOLEAN
    /\ segStatus \in SegmentStatus \cup {"none"}
    /\ swap \in [list : Lists \cup {Null}, index : Nat]
    /\ pc = "swap" => swap.list \in Lists
    /\ notify \in Notification
    /\ alive \in SUBSET Lists
    /\ inUse \in SUBSET Lists
    /\ curIndex \in [Lists -> Nat \cup {-1}]
    /\ attached \in [Lists -> SUBSET Nat]
    /\ ext = [l \in Lists |-> ext[l]]
    /\ \A l \in Lists : ext[l] \in [Indices(l) -> Extension]
    /\ begun \in BOOLEAN
    /\ fault \in Fault

Init ==
    /\ msgs = <<>> /\ sem = 0
    /\ client = [c \in Clients |-> IdleClient]
    /\ replies = [id \in SyncIds |-> <<>>]
    /\ pc = "dequeue" /\ state = "Idle" /\ active = Null
    /\ startNew = TRUE /\ runStatus = "Invalid"
    /\ execNew = TRUE /\ segStatus = "none"
    /\ swap = [list |-> Null, index |-> 0] /\ notify = "none"
    /\ alive = {} /\ inUse = {}
    /\ curIndex = [l \in Lists |-> -1]
    /\ attached = [l \in Lists |-> {}]
    /\ ext = [l \in Lists |-> [i \in Indices(l) |-> NoExtension]]
    /\ begun = FALSE /\ fault = "none"

-----------------------------------------------------------------------------
(* The queue.  A client in Preempt posts in a step of its own (Post).       *)
MqQueueMessage(m, posted) ==
    /\ msgs' = Append(msgs, m)
    /\ sem' = IF posted THEN sem + 1 ELSE sem

(* The engine thread takes the first message, which is one with this id.    *)
Receive(id) ==
    /\ pc = "dequeue" /\ sem > 0
    /\ Head(msgs).id = id
Dequeued ==
    /\ msgs' = Tail(msgs)
    /\ sem' = sem - 1
(* ... and queues a message to itself while it handles that one.            *)
DequeuedAndQueued(m) ==
    /\ msgs' = Append(Tail(msgs), m)
    /\ UNCHANGED sem

CompleteSyncMessage(id, status) ==
    replies' = [replies EXCEPT ![id] = Append(@, status)]

-----------------------------------------------------------------------------
(* Clients.  What the application must respect is in these guards: a handle *)
(* is used between its creation and its destruction only.                   *)
(* Fault: the mutex is not taken.                                           *)
LockIgnored == TRUE
LockFree == \A c \in Clients : client[c].pc \notin {"postSync", "wait"}
InFlight(l) ==
    \/ \E k \in 1 .. Len(msgs) : msgs[k].list = l
    \/ \E c \in Clients : client[c].pc \in {"postSync", "wait"} /\ client[c].list = l
Handle(l) ==
    /\ l \in alive
    /\ \A c \in Clients : client[c].list = l =>
          /\ client[c].pc # "destroy"
          /\ ~(client[c].pc \in {"postSync", "wait"} /\ client[c].id = "Modify")

(* SendSyncMessage up to its sem_wait, and SendAsyncMessage.                *)
Send(c, id, l) ==
    /\ client[c].pc = "idle" /\ Len(msgs) < MaxQueue
    /\ MqQueueMessage(Msg(id, l), c \notin Preempt)
    /\ client' = [client EXCEPT ![c] =
                    [pc |-> IF id \in SyncIds
                              THEN IF c \in Preempt THEN "postSync" ELSE "wait"
                              ELSE IF c \in Preempt THEN "postAsync" ELSE "idle",
                     id |-> id, list |-> l]]
    /\ UNCHANGED <<replies, pc, state, active, startNew, runStatus, execVars, swap,
                   notify, inUse, ext, begun, fault>>

NewList(l) ==
    /\ l \notin alive
    /\ alive' = alive \cup {l}
    /\ curIndex' = [curIndex EXCEPT ![l] = -1]
    /\ attached' = [attached EXCEPT ![l] = {}]

SeCreateSegmentList(c, l) ==
    /\ client[c].pc = "idle"
    /\ NewList(l)
    /\ ext' = [ext EXCEPT ![l] = [i \in Indices(l) |-> NoExtension]]
    /\ UNCHANGED <<queueVars, replies, client, pc, state, active, startNew, runStatus,
                   execVars, swap, notify, inUse, begun, fault>>

SeStartSegmentList(c, l) ==
    /\ LockFree /\ Handle(l)
    /\ Send(c, "Start", l)
    /\ UNCHANGED <<alive, curIndex, attached>>

(* The edited list is created, then offered to the engine.                  *)
SeModifySegmentList(c, l) ==
    /\ LockFree /\ \E o \in Lists : Handle(o)
    /\ NewList(l)
    /\ client[c].pc = "idle" /\ Len(msgs) < MaxQueue
    /\ MqQueueMessage(Msg("Modify", l), c \notin Preempt)
    /\ client' = [client EXCEPT ![c] =
                    [pc |-> IF c \in Preempt THEN "postSync" ELSE "wait",
                     id |-> "Modify", list |-> l]]
    /\ ext' = [ext EXCEPT ![l] = [i \in Indices(l) |-> NoExtension]]
    /\ UNCHANGED <<replies, pc, state, active, startNew, runStatus, execVars, swap,
                   notify, inUse, begun, fault>>

SeGotoNextSegment(c) ==
    /\ LockFree /\ \E l \in Lists : Handle(l)
    /\ Send(c, "Goto", Null)
    /\ UNCHANGED <<alive, curIndex, attached>>

SeStopSegmentList(c) ==
    /\ \E l \in Lists : Handle(l)
    /\ Send(c, "Stop", Null)
    /\ UNCHANGED <<alive, curIndex, attached>>

SeTerminateSegmentList(c) ==
    /\ \E l \in Lists : Handle(l)
    /\ Send(c, "Terminate", Null)
    /\ UNCHANGED <<alive, curIndex, attached>>

(* The sem_post of a client that lost the CPU before it.                    *)
Post(c) ==
    /\ client[c].pc \in {"postSync", "postAsync"}
    /\ sem' = sem + 1
    /\ client' = [client EXCEPT ![c] = IF @.pc = "postSync" THEN [@ EXCEPT !.pc = "wait"]
                                                          ELSE IdleClient]
    /\ UNCHANGED <<msgs, replies, pc, state, active, startNew, runStatus, execVars, swap,
                   notify, listVars, begun, fault>>

(* The reply.  A list the engine did not take over is destroyed again.      *)
Return(c) ==
    /\ client[c].pc = "wait" /\ replies[client[c].id] # <<>>
    /\ replies' = [replies EXCEPT ![client[c].id] = Tail(@)]
    /\ alive' = IF client[c].id = "Modify" /\ Head(replies["Modify"]) # "Success"
                  THEN alive \ {client[c].list} ELSE alive
    /\ client' = [client EXCEPT ![c] = IdleClient]
    /\ UNCHANGED <<queueVars, pc, state, active, startNew, runStatus, execVars, swap,
                   notify, inUse, curIndex, attached, ext, begun, fault>>

(* SeDestroySegmentList blocks on InUse while the engine holds it ...       *)
SeDestroySegmentList(c, l) ==
    /\ client[c].pc = "idle"
    /\ Handle(l) /\ ~InFlight(l)
    /\ client' = [client EXCEPT ![c] = [pc |-> "destroy", id |-> "Stop", list |-> l]]
    /\ UNCHANGED <<queueVars, replies, pc, state, active, startNew, runStatus, execVars,
                   swap, notify, listVars, begun, fault>>
(* Fault: the InUse mutex is not waited for.                                *)
DestroyWithoutWaiting(c) ==
    /\ client[c].pc = "destroy"
    /\ alive' = alive \ {client[c].list}
    /\ client' = [client EXCEPT ![c] = IdleClient]
    /\ UNCHANGED <<queueVars, replies, pc, state, active, startNew, runStatus, execVars,
                   swap, notify, inUse, curIndex, attached, ext, begun, fault>>
(* ... and frees the list as soon as it gets it.                            *)
DestroySegmentList(c) ==
    /\ client[c].pc = "destroy" /\ client[c].list \notin inUse
    /\ alive' = alive \ {client[c].list}
    /\ client' = [client EXCEPT ![c] = IdleClient]
    /\ UNCHANGED <<queueVars, replies, pc, state, active, startNew, runStatus, execVars,
                   swap, notify, inUse, curIndex, attached, ext, begun, fault>>

-----------------------------------------------------------------------------
(* The engine thread: start.                                                *)
InRange == curIndex[active] \in Indices(active)
Current == Seg(active, curIndex[active])

(* Faults: the active list is not recorded; StartNewSegment keeps the value *)
(* it had for the list before.                                              *)
BeginListUnrecorded(l) ==
    /\ inUse' = inUse \cup {l}
    /\ state' = "Running" /\ startNew' = TRUE
    /\ curIndex' = [curIndex EXCEPT ![l] = 0]
    /\ ext' = [ext EXCEPT ![l] = SetupAllSegments(l, @)]
    /\ begun' = FALSE
    /\ UNCHANGED active
BeginListStale(l) ==
    /\ l \notin inUse
    /\ inUse' = inUse \cup {l}
    /\ state' = "Running" /\ active' = l
    /\ curIndex' = [curIndex EXCEPT ![l] = 0]
    /\ ext' = [ext EXCEPT ![l] = SetupAllSegments(l, @)]
    /\ begun' = FALSE
    /\ UNCHANGED startNew

(* Lock the list, start at its first segment, set up every segment.         *)
BeginList(l) ==
    /\ l \notin inUse
    /\ inUse' = inUse \cup {l}
    /\ state' = "Running" /\ active' = l /\ startNew' = TRUE
    /\ curIndex' = [curIndex EXCEPT ![l] = 0]
    /\ ext' = [ext EXCEPT ![l] = SetupAllSegments(l, @)]
    /\ begun' = FALSE

StartIdle ==
    /\ Receive("Start") /\ state = "Idle"
    /\ Dequeued
    /\ BeginList(Head(msgs).list)
    /\ CompleteSyncMessage("Start", "Success")
    /\ UNCHANGED <<client, pc, runStatus, execVars, swap, notify, alive, attached, fault>>

StartRunning ==
    /\ Receive("Start") /\ state = "Running"
    /\ Dequeued
    /\ CompleteSyncMessage("Start", "CommandIgnored")
    /\ UNCHANGED <<client, pc, state, active, startNew, runStatus, execVars, swap, notify,
                   listVars, begun, fault>>

StartInternalIdle ==
    /\ Receive("StartInternal") /\ state = "Idle"
    /\ Dequeued
    /\ BeginList(Head(msgs).list)
    /\ UNCHANGED <<client, replies, pc, runStatus, execVars, swap, notify, alive,
                   attached, fault>>

StartInternalRunning ==
    /\ Receive("StartInternal") /\ state = "Running"
    /\ Dequeued
    /\ UNCHANGED <<client, replies, pc, state, active, startNew, runStatus, execVars, swap,
                   notify, listVars, begun, fault>>

-----------------------------------------------------------------------------
(* The engine thread: ExecuteSegments.  It runs when the 25 ms pass without *)
(* a post, one iteration of its loop being "execute", the callback, then    *)
(* "status", the switch on what the callback returned.                      *)
TimeoutRunning ==
    /\ pc = "dequeue" /\ sem = 0 /\ state = "Running"
    /\ pc' = "execute" /\ execNew' = startNew
    /\ UNCHANGED <<queueVars, client, replies, state, active, startNew, runStatus,
                   segStatus, swap, notify, listVars, begun, fault>>

(* Segments[CurIndex] beyond the end of the vector.                         *)
ExecuteOutOfRange ==
    /\ pc = "execute" /\ ~InRange
    /\ fault' = "execute"
    /\ UNCHANGED <<queueVars, client, replies, pc, state, active, startNew, runStatus,
                   execVars, swap, notify, listVars, begun>>

StartSegment ==
    /\ pc = "execute" /\ InRange /\ execNew /\ Current.kind # "repeat"
    /\ \E r \in StartResults(Current) : segStatus' = r
    /\ pc' = "status"
    /\ UNCHANGED <<queueVars, client, replies, state, active, startNew, runStatus, execNew,
                   swap, notify, listVars, begun, fault>>

(* RepeatStartCallback, on the Extension of this segment of this list.      *)
StartRepeat ==
    LET e == ext[active][curIndex[active]] IN
    /\ pc = "execute" /\ InRange /\ execNew /\ Current.kind = "repeat"
    /\ e.mem = "live"
    /\ segStatus' = RepeatStatus(Current, e)
    /\ ext' = [ext EXCEPT ![active][curIndex[active]] = RepeatExtension(Current, e)]
    /\ pc' = "status"
    /\ UNCHANGED <<queueVars, client, replies, state, active, startNew, runStatus, execNew,
                   swap, notify, alive, inUse, curIndex, attached, begun, fault>>

StartRepeatNoExtension ==
    /\ pc = "execute" /\ InRange /\ execNew /\ Current.kind = "repeat"
    /\ ext[active][curIndex[active]].mem # "live"
    /\ fault' = "extension"
    /\ UNCHANGED <<queueVars, client, replies, pc, state, active, startNew, runStatus,
                   execVars, swap, notify, listVars, begun>>

(* The conditionals chained to segment i: attached[l] back from i.          *)
Chain(l, i) ==
    {k \in attached[l] : k <= i /\ \A j \in k .. i : j \in attached[l]}

(* RunChainedConditionals, what the chain of segment i may answer: the      *)
(* first conditional that is not False decides, and each may say anything.  *)
ChainVerdicts(l, i) ==
    IF i \in attached[l] THEN RunResults([kind |-> "abort"]) ELSE {"AbortFalse"}

(* Nothing attached, or no conditional is true: the Run callback.           *)
RunSegment ==
    /\ pc = "execute" /\ InRange /\ ~execNew /\ HasRun(Current)
    /\ "AbortFalse" \in ChainVerdicts(active, curIndex[active])
    /\ \E r \in RunResults(Current) : segStatus' = r
    /\ pc' = "status"
    /\ UNCHANGED <<queueVars, client, replies, state, active, startNew, runStatus, execNew,
                   swap, notify, listVars, begun, fault>>

(* A conditional is true: the Stop callback, then on as AbortTrue.          *)
AbortSegment ==
    /\ pc = "execute" /\ InRange /\ ~execNew /\ HasRun(Current)
    /\ "AbortTrue" \in ChainVerdicts(active, curIndex[active])
    /\ segStatus' = "AbortTrue"
    /\ pc' = "status"
    /\ UNCHANGED <<queueVars, client, replies, state, active, startNew, runStatus, execNew,
                   swap, notify, listVars, begun, fault>>

-----------------------------------------------------------------------------
(* How ExecuteSegments returns, its two local variables gone, and what the  *)
(* thread does with the result.                                             *)
ReturnContinue ==
    /\ pc' = "dequeue" /\ runStatus' = "Continue" /\ startNew' = FALSE
    /\ execNew' = TRUE /\ segStatus' = "none"
    /\ UNCHANGED queueVars
(* Fault: the StopInternal is queued and not posted.                        *)
ReturnUnposted(status) ==
    /\ pc' = "dequeue" /\ runStatus' = status
    /\ execNew' = TRUE /\ segStatus' = "none"
    /\ MqQueueMessage(StopInternalMsg, FALSE)
    /\ UNCHANGED startNew
ReturnFinished(status) ==
    /\ pc' = "dequeue" /\ runStatus' = status
    /\ execNew' = TRUE /\ segStatus' = "none"
    /\ MqQueueMessage(StopInternalMsg, TRUE)
    /\ UNCHANGED startNew

(* DeleteChainedConditionals.                                               *)
Unchain(l, i) == [attached EXCEPT ![l] = @ \ Chain(l, i)]

(* Fault: the end of the list is noticed one segment late.                  *)
GoOnPastEnd(i) ==
    /\ curIndex' = [curIndex EXCEPT ![active] = i]
    /\ begun' = FALSE
    /\ IF i <= Total(active)
         THEN /\ pc' = "execute" /\ execNew' = TRUE /\ segStatus' = "none"
              /\ UNCHANGED <<queueVars, startNew, runStatus>>
         ELSE ReturnFinished("End")
    /\ UNCHANGED <<client, replies, state, active, swap, notify, alive, inUse, ext, fault>>

(* The segment is over, index i is next: start it, or this is the end.      *)
GoOn(i) ==
    /\ curIndex' = [curIndex EXCEPT ![active] = i]
    /\ begun' = FALSE
    /\ IF i < Total(active)
         THEN /\ pc' = "execute" /\ execNew' = TRUE /\ segStatus' = "none"
              /\ UNCHANGED <<queueVars, startNew, runStatus>>
         ELSE ReturnFinished("End")
    /\ UNCHANGED <<client, replies, state, active, swap, notify, alive, inUse,
                   ext, fault>>

(* A conditional that cannot run ends the list, and so does a segment that  *)
(* has to continue and has no Run callback.                                 *)
ExecuteError ==
    /\ pc = "execute" /\ InRange /\ ~execNew
    /\ HasRun(Current) => "Error" \in ChainVerdicts(active, curIndex[active])
    /\ ReturnFinished("Terminate")
    /\ UNCHANGED <<client, replies, state, active, swap, notify, listVars, begun, fault>>

OnSuccess ==
    /\ pc = "status" /\ segStatus \in {"Success", "AbortTrue"}
    /\ attached' = Unchain(active, curIndex[active])
    /\ GoOn(curIndex[active] + 1)

OnContinue ==
    /\ pc = "status" /\ segStatus = "Continue"
    /\ begun' = TRUE
    /\ ReturnContinue
    /\ UNCHANGED <<client, replies, state, active, swap, notify, listVars, fault>>

OnIndexModified ==
    /\ pc = "status" /\ segStatus = "IndexModified"
    /\ attached' = Unchain(active, curIndex[active])
    /\ GoOn(Current.index)

(* Skip the conditionals in a row and the segment they guard.               *)
AfterGuarded(l, i) ==
    LET guarded == {k \in Indices(l) : k > i /\ Seg(l, k).kind # "abort"}
    IN IF guarded = {} THEN Total(l)
       ELSE 1 + CHOOSE k \in guarded : \A j \in guarded : k <= j
OnAbortSkip ==
    /\ pc = "status" /\ segStatus = "AbortSkip"
    /\ attached' = Unchain(active, curIndex[active])
    /\ GoOn(AfterGuarded(active, curIndex[active]))

OnAbortAttach ==
    /\ pc = "status" /\ segStatus = "AbortAttach"
    /\ attached' = IF curIndex[active] + 1 < Total(active)
                     THEN [attached EXCEPT ![active] = @ \cup {curIndex[active] + 1}]
                     ELSE attached
    /\ GoOn(curIndex[active] + 1)

OnError ==
    /\ pc = "status" /\ segStatus \in {"Error", "AbortFalse"}
    /\ attached' = Unchain(active, curIndex[active])
    /\ begun' = FALSE
    /\ ReturnFinished("Terminate")
    /\ UNCHANGED <<client, replies, state, active, swap, notify, alive, inUse, curIndex,
                   ext, fault>>

-----------------------------------------------------------------------------
(* The engine thread: stop.  All three messages stop the active segment,    *)
(* unless the list is at its end, clean up, release the list, and call a    *)
(* static callback; only when that returns is the engine idle.              *)
StopActiveSegment ==
    attached' = IF InRange THEN Unchain(active, curIndex[active]) ELSE attached

EndList(callback) ==
    /\ StopActiveSegment
    /\ begun' = FALSE
    /\ ext' = [ext EXCEPT ![active] = CleanupAllSegments(active, @)]
    /\ curIndex' = [curIndex EXCEPT ![active] = -1]
    /\ inUse' = inUse \ {active}
    /\ pc' = "callback" /\ notify' = callback
    /\ UNCHANGED <<client, replies, state, active, startNew, runStatus, execVars, swap,
                   alive, fault>>

StopRunning ==
    /\ Receive("Stop") /\ state = "Running"
    /\ Dequeued
    /\ EndList("End")

(* Fault: the engine stops without telling the application.                 *)
StopInternalSilent ==
    /\ Receive("StopInternal") /\ state = "Running"
    /\ Dequeued
    /\ StopActiveSegment
    /\ state' = "Idle" /\ begun' = FALSE
    /\ inUse' = inUse \ {active}
    /\ curIndex' = [curIndex EXCEPT ![active] = -1]
    /\ ext' = [ext EXCEPT ![active] = CleanupAllSegments(active, @)]
    /\ UNCHANGED <<client, replies, pc, active, startNew, runStatus, execVars, swap, notify,
                   alive, fault>>

StopInternalRunning ==
    /\ Receive("StopInternal") /\ state = "Running"
    /\ Dequeued
    /\ EndList(IF runStatus = "End" THEN "End" ELSE "Terminate")

TerminateRunning ==
    /\ Receive("Terminate") /\ state = "Running"
    /\ Dequeued
    /\ EndList("Terminate")

StopIdle ==
    /\ Receive("Stop") \/ Receive("StopInternal") \/ Receive("Terminate")
    /\ state = "Idle"
    /\ Dequeued
    /\ UNCHANGED <<client, replies, pc, state, active, startNew, runStatus, execVars, swap,
                   notify, listVars, begun, fault>>

BecomeIdle ==
    /\ pc = "callback"
    /\ pc' = "dequeue" /\ notify' = "none" /\ state' = "Idle"
    /\ UNCHANGED <<client, replies, active, startNew, runStatus, execVars, swap, listVars,
                   begun, fault>>

(* The End or Terminate callback of the application.                        *)
Callback == BecomeIdle /\ UNCHANGED queueVars

(* It may queue the next list: SeStartSegmentListFromEndCallback.           *)
CallbackStarts(l) ==
    /\ Handle(l) /\ Len(msgs) < MaxQueue
    /\ MqQueueMessage(Msg("StartInternal", l), TRUE)
    /\ BecomeIdle

-----------------------------------------------------------------------------
(* The engine thread: an edit.  Segments[CurIndex] is read with no check.   *)
ModifyOutOfRange ==
    /\ Receive("Modify") /\ state = "Running" /\ ~InRange
    /\ fault' = "modify"
    /\ UNCHANGED <<queueVars, client, replies, pc, state, active, startNew, runStatus,
                   execVars, swap, notify, listVars, begun>>

ModifyDeleted ==
    /\ Receive("Modify") /\ state = "Running" /\ InRange
    /\ SameTag(active, curIndex[active], Head(msgs).list) = {}
    /\ Dequeued
    /\ CompleteSyncMessage("Modify", "DeletedCurrentSegment")
    /\ UNCHANGED <<client, pc, state, active, startNew, runStatus, execVars, swap, notify,
                   listVars, begun, fault>>

(* Import the extensions and unlock the list that was running ...           *)
ModifyImport ==
    LET new == Head(msgs).list IN
    /\ Receive("Modify") /\ state = "Running" /\ InRange
    /\ \E i \in SameTag(active, curIndex[active], new) : swap' = [list |-> new, index |-> i]
    /\ Dequeued
    /\ ext' = [ext EXCEPT
                 ![new] = ImportedExtensions(active, ext[active], new, ext[new]),
                 ![active] = RemainingExtensions(active, ext[active], new)]
    /\ inUse' = inUse \ {active}
    /\ pc' = "swap"
    /\ UNCHANGED <<client, replies, state, active, startNew, runStatus, execVars, notify,
                   alive, curIndex, attached, begun, fault>>

(* ... lock the new one, and only then write the CurIndex of the old one.   *)
ModifySwap ==
    /\ pc = "swap" /\ active \in alive
    /\ inUse' = inUse \cup {swap.list}
    /\ curIndex' = [curIndex EXCEPT ![active] = -1, ![swap.list] = swap.index]
    /\ active' = swap.list
    /\ swap' = [list |-> Null, index |-> 0]
    /\ CompleteSyncMessage("Modify", "Success")
    /\ pc' = "dequeue"
    /\ UNCHANGED <<queueVars, client, state, startNew, runStatus, execVars, notify, alive,
                   attached, ext, begun, fault>>

ModifySwapFreed ==
    /\ pc = "swap" /\ active \notin alive
    /\ fault' = "useAfterFree"
    /\ UNCHANGED <<queueVars, client, replies, pc, state, active, startNew, runStatus,
                   execVars, swap, notify, listVars, begun>>

ModifyIdle ==
    /\ Receive("Modify") /\ state = "Idle"
    /\ Dequeued
    /\ CompleteSyncMessage("Modify", "CommandIgnored")
    /\ UNCHANGED <<client, pc, state, active, startNew, runStatus, execVars, swap, notify,
                   listVars, begun, fault>>

-----------------------------------------------------------------------------
(* The engine thread: skip to the next segment.                             *)
GotoRunning ==
    LET next == IF InRange THEN curIndex[active] + 1 ELSE curIndex[active] IN
    /\ Receive("Goto") /\ state = "Running"
    /\ StopActiveSegment
    /\ begun' = FALSE
    /\ curIndex' = [curIndex EXCEPT ![active] = next]
    /\ IF next < Total(active)
         THEN runStatus' = "Continue" /\ startNew' = TRUE /\ Dequeued
         ELSE /\ runStatus' = "End" /\ UNCHANGED startNew
              /\ DequeuedAndQueued(StopInternalMsg)
    /\ CompleteSyncMessage("Goto", "Success")
    /\ UNCHANGED <<client, pc, state, active, execVars, swap, notify, alive, inUse, ext, fault>>

(* Fault: a skip is not answered when nothing runs.                         *)
GotoIdleSilent ==
    /\ Receive("Goto") /\ state = "Idle"
    /\ Dequeued
    /\ UNCHANGED <<client, replies, pc, state, active, startNew, runStatus, execVars, swap,
                   notify, listVars, begun, fault>>

GotoIdle ==
    /\ Receive("Goto") /\ state = "Idle"
    /\ Dequeued
    /\ CompleteSyncMessage("Goto", "CommandIgnored")
    /\ UNCHANGED <<client, pc, state, active, startNew, runStatus, execVars, swap, notify,
                   listVars, begun, fault>>

-----------------------------------------------------------------------------
ClientCall(c) ==
    \/ \E l \in Lists : \/ SeCreateSegmentList(c, l)
                        \/ SeStartSegmentList(c, l)
                        \/ SeModifySegmentList(c, l)
                        \/ SeDestroySegmentList(c, l)
    \/ SeGotoNextSegment(c)
    \/ SeStopSegmentList(c)
    \/ SeTerminateSegmentList(c)
ClientFinish(c) == Post(c) \/ Return(c) \/ DestroySegmentList(c)

HandleMessage ==
    \/ StartIdle \/ StartRunning \/ StartInternalIdle \/ StartInternalRunning
    \/ StopRunning \/ StopInternalRunning \/ TerminateRunning \/ StopIdle
    \/ ModifyOutOfRange \/ ModifyDeleted \/ ModifyImport \/ ModifyIdle
    \/ GotoRunning \/ GotoIdle
ExecuteSegments ==
    \/ TimeoutRunning \/ ExecuteOutOfRange
    \/ StartSegment \/ StartRepeat \/ StartRepeatNoExtension
    \/ RunSegment \/ AbortSegment \/ ExecuteError
    \/ OnSuccess \/ OnContinue \/ OnIndexModified
    \/ OnAbortSkip \/ OnAbortAttach \/ OnError
EngineStep ==
    \/ HandleMessage \/ ExecuteSegments
    \/ ModifySwap \/ ModifySwapFreed
    \/ Callback \/ \E l \in Lists : CallbackStarts(l)

(* Anything may follow undefined behaviour.  Nothing is said about it: the  *)
(* model ends at the first fault.                                           *)
Crashed == fault # "none" /\ UNCHANGED vars

Next ==
    \/ /\ fault = "none"
       /\ EngineStep \/ \E c \in Clients : ClientCall(c) \/ ClientFinish(c)
    \/ Crashed

Spec == Init /\ [][Next]_vars

(* Fairness: the engine thread keeps running, and so does a client that is  *)
(* in the middle of a call.  Nobody has to make a call.                     *)
Fairness ==
    /\ WF_vars(fault = "none" /\ EngineStep)
    /\ \A c \in Clients : WF_vars(fault = "none" /\ ClientFinish(c))
FairSpec == Spec /\ Fairness

-----------------------------------------------------------------------------
(* Safety.                                                                  *)

(* A list that has come to its end, or failed, will be stopped: while the   *)
(* engine waits for messages with CurIndex past the last segment, the       *)
(* StopInternal it queued to itself is still in the queue.  It cannot be    *)
(* received, so that the 25 ms pass and ExecuteSegments is entered with     *)
(* that CurIndex, only while some client has queued a message and not yet   *)
(* posted it: the post that is missing would have delivered it.             *)
StopQueued == \E k \in 1 .. Len(msgs) : msgs[k].id = "StopInternal"
PostOutstanding == \E c \in Clients : client[c].pc \in {"postSync", "postAsync"}
EndPending ==
    (state = "Running" /\ pc = "dequeue" /\ ~InRange) =>
        StopQueued /\ (sem = 0 => PostOutstanding)

(* So, if no client can be descheduled there for 25 ms, ExecuteSegments     *)
(* never reads past the end of a list.                                      *)
ExecutesInRange == Preempt = {} => (pc = "execute" => InRange)

(* The Run callback, and the conditionals, are called for a segment only    *)
(* after its Start callback asked to be continued and before anything ended *)
(* it: a restart, an edit, a skip or a stale message never makes the engine *)
(* run a segment it has not started.  The one exception needs a client that *)
(* holds up its post: a segment that failed is run once more while the      *)
(* StopInternal that will end its list waits in the queue.                  *)
RunOnlyBegun ==
    (pc = "execute" /\ ~execNew /\ InRange) => begun \/ (Preempt # {} /\ StopQueued)

(* The InUse mutex is what keeps SeDestroySegmentList off a running list:   *)
(* the engine holds exactly the one of the list it runs, that list is not   *)
(* freed, and it holds none when it is idle, in a static callback or        *)
(* between the two locks of an edit.                                        *)
RunningListLocked ==
    IF state = "Running" /\ pc \notin {"callback", "swap"}
      THEN inUse = {active} /\ active \in alive
      ELSE inUse = {}

(* A synchronous call is answered exactly once: the calls in progress with  *)
(* an id are as many as its messages queued, its replies posted and the     *)
(* edit under way, and all of them together at most one.                    *)
Pending(id) == {c \in Clients : client[c].pc \in {"postSync", "wait"} /\ client[c].id = id}
Outstanding(id) ==
    Cardinality({k \in 1 .. Len(msgs) : msgs[k].id = id}) + Len(replies[id])
    + IF pc = "swap" /\ id = "Modify" THEN 1 ELSE 0
OneReply ==
    /\ \A id \in SyncIds : Outstanding(id) = Cardinality(Pending(id))
    /\ Cardinality(UNION {Pending(id) : id \in SyncIds}) <= 1

(* Extensions follow the running list through edits and restarts: none is   *)
(* left behind in a list that does not run, and every segment of the        *)
(* running list that needs one has it.  (Where an edit keeps a tag and      *)
(* changes the kind of its segment it does not hold.)                       *)
Owner == IF state = "Idle" \/ pc = "callback" THEN {}
         ELSE IF pc = "swap" THEN {swap.list} ELSE {active}
NoneLeftBehind ==
    \A l \in Lists : \A i \in Indices(l) : ext[l][i].mem = "live" => l \in Owner
NoneMissing ==
    \A l \in Owner : \A i \in Indices(l) : HasSetup(Seg(l, i)) => ext[l][i].mem = "live"
ExtensionsOwned == TagsKeepKind => NoneLeftBehind /\ NoneMissing

(* The engine keeps the promises of ListLifecycle: each run is ended by one *)
(* static callback before the next begins, an edit moves the run to another *)
(* existing list, and SeDestroySegmentList never frees the running list.    *)
Lifecycle ==
    INSTANCE ListLifecycle WITH
        phase <- IF state = "Idle" THEN "idle"
                 ELSE IF pc = "callback" THEN "telling"
                 ELSE IF pc = "swap" THEN "editing" ELSE "running",
        running <- IF state = "Idle" THEN Null ELSE active,
        exists <- alive
RunsAsPromised == Lifecycle!Spec

-----------------------------------------------------------------------------
(* What the documentation says.                                             *)

(* EndCallback_t: "Called on the normal end of a Segment List.  You reached *)
(* the end."  The StopInternal that makes the engine call it finds the list *)
(* at its end.                                                              *)
EndOnlyAtEnd ==
    (Receive("StopInternal") /\ state = "Running" /\ runStatus = "End") => ~InRange

(* StopCallback_t: "Optionally called once to stop a running a Segment, if  *)
(* that segment was in progress."                                           *)
StopOnlyBegun ==
    ( /\ \E id \in {"Stop", "Terminate", "Goto", "StopInternal"} : Receive(id)
      /\ state = "Running" /\ InRange /\ Current.kind = "simple" ) => begun

(* An edit finds the active segment of the old list before it looks for the *)
(* same one in the new list ("Make sure we can line up the old with the     *)
(* new").                                                                   *)
ModifyFindsActive == (Receive("Modify") /\ state = "Running") => InRange

-----------------------------------------------------------------------------
(* Liveness.                                                                *)

(* The engine does not wait with a message in its queue, nor a caller for a *)
(* reply that is neither posted nor to come, but for the moment between a   *)
(* client's push and its post.                                              *)
NoWork == pc = "dequeue" /\ sem = 0 /\ ~PostOutstanding
NoMessageForgotten == NoWork => msgs = <<>>
NoCallForgotten ==
    NoWork => \A c \in Clients : client[c].pc = "wait" => replies[client[c].id] # <<>>

(* So a synchronous call returns, whatever the engine is executing.         *)
CallsReturn ==
    /\ [](NoMessageForgotten /\ NoCallForgotten)
    /\ \A c \in Clients : client[c].pc = "wait" ~> client[c].pc # "wait" \/ fault # "none"

(* What it takes to meet undefined behaviour in the engine thread.  (An edit *)
(* handled past the end of the list takes no more than that.)               *)
SeveralClients == \E c, d \in Clients : c # d
FaultsExplained ==
    /\ fault = "execute" => Preempt # {}
    /\ fault = "extension" => ~TagsKeepKind
    /\ fault = "useAfterFree" => SeveralClients

(* But for that, a list that reached its end is reported to the application. *)
EndReported ==
    /\ []FaultsExplained
    /\ (state = "Running" /\ pc = "dequeue" /\ ~InRange) ~> pc = "callback" \/ fault # "none"

(* A client's Stop is obeyed, whatever the list does and however its        *)
(* repeats are nested.                                                      *)
StopObeyed ==
    (\E k \in 1 .. Len(msgs) : msgs[k].id = "Stop")
        ~> state = "Idle" \/ pc = "callback" \/ fault # "none"
=============================================================================
