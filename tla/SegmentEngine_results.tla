----------------------- MODULE SegmentEngine_results -----------------------
(***************************************************************************)
(* Further theorems about SegmentEngine, for any lists, clients and queue   *)
(* bound: every segment that is run was begun, every synchronous call is    *)
(* answered once, and no list loses or keeps an extension it should not.    *)
(* Each adds its own parts to the invariant of SegmentEngine_proofs.        *)
(***************************************************************************)
EXTENDS SegmentEngine_proofs

-----------------------------------------------------------------------------
(* The messages with an id, in the queue: the engine takes one of another   *)
(* kind ...                                                                 *)
HasMessage(id) == \E k \in 1 .. Len(msgs) : msgs[k].id = id

LEMMA MessageKept ==
    ASSUME IInv, sem > 0, NEW id, HasMessage(id), Head(msgs).id # id,
           Dequeued \/ DequeuedAndQueued(StopInternalMsg)
    PROVE  HasMessage(id)'
<1>1. PICK k \in 1 .. Len(msgs) : msgs[k].id = id
  BY DEF HasMessage
<1>2. /\ Len(msgs) > 0 /\ Head(msgs) = msgs[1] /\ Tail(msgs) \in Seq(Message)
      /\ Len(Tail(msgs)) = Len(msgs) - 1
      /\ \A j \in 1 .. Len(msgs) - 1 : Tail(msgs)[j] = msgs[j + 1]
      /\ msgs \in Seq(Message)
  BY Received DEF IInv, Control, TypeOK
<1>3. k # 1 /\ k - 1 \in 1 .. Len(msgs) - 1 /\ Tail(msgs)[k - 1] = msgs[k]
  BY <1>1, <1>2
<1>4. CASE Dequeued
  BY <1>1, <1>2, <1>3, <1>4 DEF HasMessage, Dequeued
<1>5. CASE DequeuedAndQueued(StopInternalMsg)
  <2>1. StopInternalMsg \in Message
    BY DEF StopInternalMsg, Msg, Message, MessageIds
  <2>2. /\ Len(msgs') = Len(msgs)
        /\ \A j \in 1 .. Len(msgs) - 1 : msgs'[j] = Tail(msgs)[j]
    BY <1>2, <1>5, <2>1, Appended DEF DequeuedAndQueued
  <2>3. k - 1 \in 1 .. Len(msgs') /\ msgs'[k - 1] = msgs[k]
    BY <1>2, <1>3, <2>2
  <2>. QED
    BY <1>1, <2>3 DEF HasMessage
<1>. QED
  BY <1>4, <1>5

(* ... or one is queued, which is then there.                               *)
LEMMA MessageStays ==
    ASSUME TypeOK, NEW m \in Message, NEW posted \in BOOLEAN, MqQueueMessage(m, posted)
    PROVE  HasMessage(m.id)' /\ \A id : HasMessage(id) => HasMessage(id)'
<1>1. /\ Len(msgs') = Len(msgs) + 1 /\ msgs'[Len(msgs) + 1] = m
      /\ \A j \in 1 .. Len(msgs) : msgs'[j] = msgs[j]
      /\ Len(msgs) \in Nat
  BY Appended DEF TypeOK, MqQueueMessage
<1>. QED
  BY <1>1 DEF HasMessage

LEMMA StopIsMessage ==
    /\ StopInternalMsg \in Message /\ StopInternalMsg.id = "StopInternal"
    /\ StopQueued = HasMessage("StopInternal")
    /\ StopQueued' = HasMessage("StopInternal")'
  BY DEF StopInternalMsg, Msg, Message, MessageIds, StopQueued, HasMessage

-----------------------------------------------------------------------------
(* A segment that is run was begun.  Between its messages the engine will   *)
(* run the segment at CurIndex without starting it, StartNewSegment being   *)
(* FALSE, only if that segment is in progress or the list is to be ended.   *)
Begun ==
    /\ (state = "Running" /\ pc = "dequeue" /\ ~startNew /\ InRange) => begun \/ StopQueued
    /\ (pc = "swap" /\ ~startNew) => begun \/ StopQueued
    /\ RunOnlyBegun

LEMMA BegunInit == Init => Begun
  BY DEF Init, Begun, RunOnlyBegun

(* Steps that leave the list, and where the engine is in it, alone.         *)
LEMMA BegunFrame ==
    ASSUME Begun, UNCHANGED <<pc, state, active, curIndex, startNew, execNew, begun>>,
           StopQueued => StopQueued'
    PROVE  Begun'
  BY DEF Begun, RunOnlyBegun, InRange

(* Steps after which a StopInternal is queued, or the list is over.         *)
LEMMA BegunStopped ==
    ASSUME pc' = "dequeue", StopQueued' \/ state' = "Idle"
    PROVE  Begun'
  BY DEF Begun, RunOnlyBegun

LEMMA BegunEngine ==
    ASSUME IInv, Begun, EngineStep
    PROVE  Begun'
<1>. TypeOK /\ Control
  BY DEF IInv
<1>1. CASE StartIdle \/ StartInternalIdle
  BY <1>1 DEF StartIdle, StartInternalIdle, BeginList, Receive, Begun, RunOnlyBegun
<1>2. CASE StartRunning \/ StartInternalRunning
  <2>1. StopQueued => StopQueued'
    BY <1>2, MessageKept, StopIsMessage DEF StartRunning, StartInternalRunning, Receive
  <2>. QED
    BY <1>2, <2>1, BegunFrame DEF StartRunning, StartInternalRunning, listVars, execVars
<1>3. CASE StopRunning \/ StopInternalRunning \/ TerminateRunning
  BY <1>3 DEF StopRunning, StopInternalRunning, TerminateRunning, EndList, Begun, RunOnlyBegun
<1>4. CASE StopIdle \/ ModifyIdle \/ GotoIdle
  BY <1>4 DEF StopIdle, ModifyIdle, GotoIdle, Receive, Begun, RunOnlyBegun
<1>5. CASE ModifyOutOfRange \/ ModifySwapFreed \/ ExecuteOutOfRange \/ StartRepeatNoExtension
  BY <1>5, BegunFrame DEF ModifyOutOfRange, ModifySwapFreed, ExecuteOutOfRange,
     StartRepeatNoExtension, queueVars, listVars, execVars, StopQueued
<1>6. CASE ModifyDeleted
  <2>1. StopQueued => StopQueued'
    BY <1>6, MessageKept, StopIsMessage DEF ModifyDeleted, Receive
  <2>. QED
    BY <1>6, <2>1, BegunFrame DEF ModifyDeleted, listVars, execVars
<1>7. CASE ModifyImport
  <2>1. StopQueued => StopQueued'
    BY <1>7, MessageKept, StopIsMessage DEF ModifyImport, Receive
  <2>. QED
    BY <1>7, <2>1 DEF ModifyImport, Receive, Begun, RunOnlyBegun
<1>8. CASE ModifySwap
  BY <1>8 DEF ModifySwap, Begun, RunOnlyBegun, queueVars, StopQueued
<1>9. CASE GotoRunning
  <2>. DEFINE next == IF InRange THEN curIndex[active] + 1 ELSE curIndex[active]
  <2>1. pc' = "dequeue"
    BY <1>9 DEF GotoRunning, Receive
  <2>2. CASE next < Total(active)
    <3>1. startNew' = TRUE
      BY <1>9, <2>2 DEF GotoRunning
    <3>. QED
      BY <2>1, <3>1 DEF Begun, RunOnlyBegun
  <2>3. CASE ~(next < Total(active))
    <3>1. DequeuedAndQueued(StopInternalMsg) /\ sem > 0
      BY <1>9, <2>3 DEF GotoRunning, Receive
    <3>2. /\ StopInternalMsg \in Message /\ StopInternalMsg.id = "StopInternal"
      BY DEF StopInternalMsg, Msg, Message, MessageIds
    <3>3. StopQueued'
      <4>1. Tail(msgs) \in Seq(Message)
        BY <3>1, Received DEF Control
      <4>2. /\ Len(msgs') = Len(Tail(msgs)) + 1 /\ Len(Tail(msgs)) \in Nat
            /\ msgs'[Len(Tail(msgs)) + 1] = StopInternalMsg
        BY <3>1, <3>2, <4>1, Appended DEF DequeuedAndQueued
      <4>. QED
        BY <3>2, <4>2 DEF StopQueued
    <3>. QED
      BY <2>1, <3>3, BegunStopped
  <2>. QED
    BY <2>2, <2>3
<1>10. CASE TimeoutRunning
  <2>1. ASSUME StopQueued PROVE Preempt # {} /\ StopQueued'
    <3>1. Len(msgs) # 0 /\ sem = 0
      BY <1>10, <2>1 DEF StopQueued, TimeoutRunning, TypeOK
    <3>2. Unposted # {}
      BY <3>1, UnpostedFacts DEF Control, Posts
    <3>. QED
      BY <1>10, <2>1, <3>2 DEF Control, Posts, StopQueued, TimeoutRunning, queueVars
  <2>2. /\ pc = "dequeue" /\ state = "Running" /\ pc' = "execute" /\ execNew' = startNew
        /\ UNCHANGED <<active, curIndex, begun>>
    BY <1>10 DEF TimeoutRunning, listVars
  <2>3. InRange' = InRange
    BY <2>2 DEF InRange
  <2>. QED
    BY <2>1, <2>2, <2>3 DEF Begun, RunOnlyBegun
<1>11. CASE StartSegment \/ StartRepeat \/ RunSegment \/ AbortSegment
  BY <1>11 DEF StartSegment, StartRepeat, RunSegment, AbortSegment, Begun, RunOnlyBegun
<1>12. CASE ExecuteError \/ OnError
  <2>1. pc' = "dequeue" /\ StopQueued'
    BY <1>12, MessageStays, StopIsMessage DEF ExecuteError, OnError, ReturnFinished
  <2>. QED
    BY <2>1, BegunStopped
<1>13. CASE OnContinue
  BY <1>13 DEF OnContinue, ReturnContinue, Begun, RunOnlyBegun
<1>14. ASSUME NEW i, GoOn(i) PROVE Begun'
  <2>1. CASE i < Total(active)
    BY <1>14, <2>1 DEF GoOn, Begun, RunOnlyBegun
  <2>2. CASE ~(i < Total(active))
    <3>1. pc' = "dequeue" /\ StopQueued'
      BY <1>14, <2>2, MessageStays, StopIsMessage DEF GoOn, ReturnFinished
    <3>. QED
      BY <3>1, BegunStopped
  <2>. QED
    BY <2>1, <2>2
<1>15. CASE OnSuccess \/ OnIndexModified \/ OnAbortSkip \/ OnAbortAttach
  BY <1>14, <1>15 DEF OnSuccess, OnIndexModified, OnAbortSkip, OnAbortAttach
<1>16. CASE Callback \/ \E l \in Lists : CallbackStarts(l)
  BY <1>16, BegunStopped DEF Callback, CallbackStarts, BecomeIdle
<1>. QED
  BY <1>1, <1>2, <1>3, <1>4, <1>5, <1>6, <1>7, <1>8, <1>9, <1>10, <1>11, <1>12, <1>13,
     <1>15, <1>16 DEF EngineStep, HandleMessage, ExecuteSegments

(* A client only adds to the queue, and creates no list that is running.    *)
LEMMA BegunClient ==
    ASSUME IInv, Begun, NEW c \in Clients, ClientCall(c) \/ ClientFinish(c)
    PROVE  Begun'
<1>. TypeOK /\ Control
  BY DEF IInv
<1>1. UNCHANGED <<pc, state, active, startNew, execNew, begun>>
  BY DEF ClientCall, ClientFinish, SeCreateSegmentList, SeStartSegmentList,
     SeModifySegmentList, SeDestroySegmentList, SeGotoNextSegment, SeStopSegmentList,
     SeTerminateSegmentList, Send, Post, Return, DestroySegmentList, execVars, listVars
<1>2. StopQueued => StopQueued'
  <2>. SUFFICES ASSUME StopQueued PROVE StopQueued'
    OBVIOUS
  <2>1. CASE UNCHANGED msgs
    BY <2>1 DEF StopQueued
  <2>2. ASSUME NEW m \in Message, MqQueueMessage(m, c \notin Preempt)
        PROVE  StopQueued'
    BY <2>2, MessageStays, StopIsMessage
  <2>3. ASSUME NEW id \in MessageIds, NEW l \in Lists \cup {Null}
        PROVE  Msg(id, l) \in Message
    BY DEF Msg, Message
  <2>4. CASE \E l \in Lists : SeModifySegmentList(c, l)
    BY <2>2, <2>3, <2>4 DEF SeModifySegmentList, MessageIds, SyncIds
  <2>5. CASE (\E l \in Lists : SeStartSegmentList(c, l)) \/ SeGotoNextSegment(c)
    BY <2>2, <2>3, <2>5 DEF SeStartSegmentList, SeGotoNextSegment, Send, MessageIds, SyncIds
  <2>6. CASE SeStopSegmentList(c) \/ SeTerminateSegmentList(c)
    BY <2>2, <2>3, <2>6 DEF SeStopSegmentList, SeTerminateSegmentList, Send, MessageIds,
       AsyncIds
  <2>. QED
    BY <2>1, <2>4, <2>5, <2>6 DEF ClientCall, ClientFinish, SeCreateSegmentList,
       SeDestroySegmentList, Post, Return, DestroySegmentList, queueVars
<1>3. ASSUME Executing
      PROVE  curIndex'[active] = curIndex[active]
  <2>1. active \in alive /\ active \in Lists
    BY <1>3 DEF Executing, Control, RunningListLocked, TypeOK
  <2>2. CASE UNCHANGED curIndex
    BY <2>2
  <2>3. CASE \E l \in Lists : NewList(l)
    BY <2>1, <2>3 DEF NewList, TypeOK
  <2>. QED
    BY <2>2, <2>3 DEF ClientCall, ClientFinish, SeCreateSegmentList, SeStartSegmentList,
       SeModifySegmentList, SeDestroySegmentList, SeGotoNextSegment, SeStopSegmentList,
       SeTerminateSegmentList, Post, Return, DestroySegmentList, listVars
<1>4. Executing => InRange' = InRange
  BY <1>1, <1>3 DEF InRange
<1>5. pc = "execute" => Executing
  BY DEF Control, Threads, Executing
<1>. QED
  BY <1>1, <1>2, <1>4, <1>5 DEF Begun, RunOnlyBegun, Executing

(* The Run callback, and the conditionals, are called for a segment that is *)
(* in progress, whatever clients do, unless its failure is already queued   *)
(* as a StopInternal; that exception needs a client that is held up for     *)
(* 25 ms between the push_back and the sem_post of MqQueueMessage.          *)
THEOREM SegmentsRunAreBegun == Spec => []RunOnlyBegun
<1>1. Init => Begun
  BY BegunInit
<1>2. IInv /\ Begun /\ [Next]_vars => Begun'
  <2>1. ASSUME Begun, UNCHANGED vars PROVE Begun'
    BY <2>1, BegunFrame DEF vars, StopQueued
  <2>. QED
    BY <2>1, BegunEngine, BegunClient DEF Next, Crashed
<1>3. Begun => RunOnlyBegun
  BY DEF Begun
<1>. QED
  BY <1>1, <1>2, <1>3, Invariance, PTL DEF Spec

-----------------------------------------------------------------------------
(* A synchronous call is answered once.  IInv says that whatever is queued, *)
(* under way or replied has a caller; what is missing is the converse: each *)
(* call in progress has its message, its edit or its reply.                 *)
Answerable == \A c \in Clients : Waiting(c) =>
    \/ HasMessage(client[c].id)
    \/ replies[client[c].id] # <<>>
    \/ pc = "swap" /\ client[c].id = "Modify"

LEMMA AnswerableInit == Init => Answerable
  BY DEF Init, Answerable, Waiting, IdleClient

(* Nobody calls, and no synchronous message leaves the queue.               *)
LEMMA AnswerableFrame ==
    ASSUME IInv, Answerable, UNCHANGED <<client, replies>>, pc # "swap" \/ UNCHANGED pc,
           \A id \in SyncIds : HasMessage(id) => HasMessage(id)'
    PROVE  Answerable'
<1>1. \A c \in Clients : Waiting(c) => client[c].id \in SyncIds
  BY DEF IInv, Control, OneCaller
<1>. QED
  BY <1>1 DEF Answerable, Waiting

(* What somebody waits for is done: nobody else is waiting.                 *)
LEMMA AnswerableGiven ==
    ASSUME IInv, UNCHANGED client, NEW id \in SyncIds,
           \E c \in Clients : Waiting(c) /\ client[c].id = id,
           replies'[id] # <<>> \/ (pc' = "swap" /\ id = "Modify")
    PROVE  Answerable'
  BY DEF IInv, Control, OneCaller, Answerable, Waiting

(* The reply is posted to the client that asked.                            *)
LEMMA ReplyPosted ==
    ASSUME IInv, NEW id \in SyncIds, NEW status \in ReplyStatus, Receive(id),
           CompleteSyncMessage(id, status)
    PROVE  /\ \E c \in Clients : Waiting(c) /\ client[c].id = id
           /\ replies'[id] # <<>>
<1>1. /\ Len(msgs) > 0 /\ Head(msgs) = msgs[1] /\ 1 \in 1 .. Len(msgs) /\ msgs[1].id = id
  BY Received DEF Receive, IInv, Control
<1>2. \E c \in Clients : Waiting(c) /\ client[c].id = id
  BY <1>1 DEF IInv, Control, QueuedAsked, Asks
<1>3. replies'[id] # <<>>
  <2>1. ASSUME NEW q \in Seq(ReplyStatus) PROVE Append(q, status) # <<>>
    BY Appended
  <2>. QED
    BY <2>1 DEF CompleteSyncMessage, IInv, TypeOK
<1>. QED
  BY <1>2, <1>3

LEMMA AnswerableEngine ==
    ASSUME IInv, Answerable, EngineStep
    PROVE  Answerable'
<1>. TypeOK /\ Control
  BY DEF IInv
(* An answer.                                                               *)
<1>1. ASSUME NEW id \in SyncIds, NEW status \in ReplyStatus,
             Receive(id), CompleteSyncMessage(id, status), UNCHANGED client
      PROVE  Answerable'
  BY <1>1, ReplyPosted, AnswerableGiven
<1>2. CASE StartIdle \/ StartRunning
  BY <1>1, <1>2 DEF StartIdle, StartRunning, SyncIds, ReplyStatus
<1>3. CASE ModifyDeleted \/ ModifyIdle
  BY <1>1, <1>3 DEF ModifyDeleted, ModifyIdle, SyncIds, ReplyStatus
<1>4. CASE GotoRunning \/ GotoIdle
  BY <1>1, <1>4 DEF GotoRunning, GotoIdle, SyncIds, ReplyStatus
<1>5. CASE ModifyImport
  <2>1. \E c \in Clients : Waiting(c) /\ client[c].id = "Modify"
    <3>1. /\ Head(msgs) = msgs[1] /\ 1 \in 1 .. Len(msgs) /\ msgs[1].id = "Modify"
      BY <1>5, Received DEF ModifyImport, Receive, Control
    <3>. QED
      BY <3>1 DEF Control, QueuedAsked, Asks, SyncIds
  <2>. QED
    BY <1>5, <2>1, AnswerableGiven DEF ModifyImport, SyncIds
<1>6. CASE ModifySwap
  <2>1. \E c \in Clients : Waiting(c) /\ client[c].id = "Modify"
    BY <1>6 DEF ModifySwap, Control, SwapAsked, Asks
  <2>2. replies'["Modify"] # <<>>
    <3>1. ASSUME NEW q \in Seq(ReplyStatus) PROVE Append(q, "Success") # <<>>
      BY Appended DEF ReplyStatus
    <3>. QED
      BY <1>6, <3>1 DEF ModifySwap, CompleteSyncMessage, TypeOK, SyncIds
  <2>. QED
    BY <1>6, <2>1, <2>2, AnswerableGiven DEF ModifySwap, SyncIds
(* A message nobody waits for.                                              *)
<1>7. ASSUME NEW id \in MessageIds \ SyncIds, Receive(id), Dequeued,
             UNCHANGED <<client, replies>>
      PROVE  Answerable'
  BY <1>7, MessageKept, AnswerableFrame DEF Receive
<1>8. CASE StartInternalIdle \/ StartInternalRunning
  BY <1>7, <1>8 DEF StartInternalIdle, StartInternalRunning, MessageIds, SyncIds
<1>9. CASE StopRunning \/ StopInternalRunning \/ TerminateRunning \/ StopIdle
  BY <1>7, <1>9 DEF StopRunning, StopInternalRunning, TerminateRunning, StopIdle, EndList,
     MessageIds, AsyncIds, SyncIds
(* No message, or a StopInternal queued.                                    *)
<1>10. ASSUME UNCHANGED <<client, replies>>, pc # "swap" \/ UNCHANGED pc, UNCHANGED msgs
       PROVE  Answerable'
  BY <1>10, AnswerableFrame DEF HasMessage
<1>11. ASSUME UNCHANGED <<client, replies>>, pc # "swap", MqQueueMessage(StopInternalMsg, TRUE)
       PROVE  Answerable'
  BY <1>11, MessageStays, StopIsMessage, AnswerableFrame
<1>12. CASE ModifyOutOfRange \/ ModifySwapFreed \/ ExecuteOutOfRange \/ StartRepeatNoExtension
  BY <1>10, <1>12 DEF ModifyOutOfRange, ModifySwapFreed, ExecuteOutOfRange,
     StartRepeatNoExtension, queueVars
<1>13. CASE TimeoutRunning \/ StartSegment \/ StartRepeat \/ RunSegment \/ AbortSegment
  BY <1>10, <1>13 DEF TimeoutRunning, StartSegment, StartRepeat, RunSegment, AbortSegment,
     queueVars
<1>14. CASE OnContinue
  BY <1>10, <1>14 DEF OnContinue, ReturnContinue, queueVars
<1>15. CASE ExecuteError \/ OnError
  BY <1>11, <1>15 DEF ExecuteError, OnError, ReturnFinished
<1>16. ASSUME NEW i, GoOn(i), pc = "status" PROVE Answerable'
  BY <1>10, <1>11, <1>16 DEF GoOn, ReturnFinished, queueVars
<1>17. CASE OnSuccess \/ OnIndexModified \/ OnAbortSkip \/ OnAbortAttach
  BY <1>16, <1>17 DEF OnSuccess, OnIndexModified, OnAbortSkip, OnAbortAttach
<1>18. CASE Callback
  BY <1>10, <1>18 DEF Callback, BecomeIdle, queueVars
<1>19. ASSUME NEW l \in Lists, CallbackStarts(l) PROVE Answerable'
  <2>1. Msg("StartInternal", l) \in Message
    BY DEF Msg, Message, MessageIds
  <2>. QED
    BY <1>19, <2>1, MessageStays, AnswerableFrame DEF CallbackStarts, BecomeIdle
<1>. QED
  BY <1>2, <1>3, <1>4, <1>5, <1>6, <1>8, <1>9, <1>12, <1>13, <1>14, <1>15, <1>17, <1>18,
     <1>19 DEF EngineStep, HandleMessage, ExecuteSegments

LEMMA AnswerableClient ==
    ASSUME IInv, Answerable, NEW c \in Clients, ClientCall(c) \/ ClientFinish(c)
    PROVE  Answerable'
<1>. TypeOK /\ Control
  BY DEF IInv
(* A call: its message is queued, and those of other calls still are.       *)
<1>1. ASSUME NEW id \in MessageIds, NEW l \in Lists \cup {Null},
             MqQueueMessage(Msg(id, l), c \notin Preempt), UNCHANGED <<replies, pc>>,
             client'[c].id = id \/ client'[c].pc \notin {"postSync", "wait"},
             \A d \in Clients \ {c} : client'[d] = client[d]
      PROVE  Answerable'
  <2>1. Msg(id, l) \in Message /\ Msg(id, l).id = id
    BY DEF Msg, Message
  <2>2. HasMessage(id)' /\ \A x : HasMessage(x) => HasMessage(x)'
    BY <1>1, <2>1, MessageStays
  <2>. QED
    BY <1>1, <2>2 DEF Answerable, Waiting
<1>2. ASSUME NEW id \in SyncIds \cup AsyncIds, NEW l \in Lists \cup {Null}, Send(c, id, l)
      PROVE  Answerable'
  <2>1. /\ MqQueueMessage(Msg(id, l), c \notin Preempt) /\ UNCHANGED <<replies, pc>>
        /\ id \in MessageIds
    BY <1>2 DEF Send, MessageIds
  <2>2. client'[c].id = id /\ \A d \in Clients \ {c} : client'[d] = client[d]
    BY <1>2 DEF Send, TypeOK
  <2>. QED
    BY <1>1, <2>1, <2>2
<1>3. CASE \E l \in Lists : SeModifySegmentList(c, l)
  <2>1. PICK l \in Lists : SeModifySegmentList(c, l)
    BY <1>3
  <2>2. MqQueueMessage(Msg("Modify", l), c \notin Preempt) /\ UNCHANGED <<replies, pc>>
    BY <2>1 DEF SeModifySegmentList
  <2>3. client'[c].id = "Modify" /\ \A d \in Clients \ {c} : client'[d] = client[d]
    BY <2>1 DEF SeModifySegmentList, TypeOK
  <2>. QED
    BY <1>1, <2>2, <2>3 DEF MessageIds, SyncIds
<1>4. CASE (\E l \in Lists : SeStartSegmentList(c, l)) \/ SeGotoNextSegment(c)
  BY <1>2, <1>4 DEF SeStartSegmentList, SeGotoNextSegment, SyncIds
<1>5. CASE SeStopSegmentList(c) \/ SeTerminateSegmentList(c)
  BY <1>2, <1>5 DEF SeStopSegmentList, SeTerminateSegmentList, AsyncIds
(* Steps that queue and answer nothing.                                     *)
<1>6. ASSUME UNCHANGED <<msgs, replies, pc>>,
             \A d \in Clients : Waiting(d)' => Waiting(d) /\ client'[d].id = client[d].id
      PROVE  Answerable'
  BY <1>6 DEF Answerable, HasMessage
<1>7. CASE \E l \in Lists : SeCreateSegmentList(c, l)
  BY <1>6, <1>7 DEF SeCreateSegmentList, queueVars, Waiting
<1>8. CASE \E l \in Lists : SeDestroySegmentList(c, l)
  BY <1>6, <1>8 DEF SeDestroySegmentList, queueVars, Waiting, TypeOK
<1>9. CASE DestroySegmentList(c)
  BY <1>6, <1>9 DEF DestroySegmentList, queueVars, Waiting, TypeOK, IdleClient
<1>10. CASE Post(c)
  BY <1>6, <1>10 DEF Post, Waiting, TypeOK, IdleClient
(* The reply is consumed by the only client that waits.                     *)
<1>11. CASE Return(c)
  <2>1. \A d \in Clients : ~Waiting(d)'
    BY <1>11 DEF Return, Control, OneCaller, Waiting, TypeOK, IdleClient
  <2>. QED
    BY <2>1 DEF Answerable
<1>. QED
  BY <1>3, <1>4, <1>5, <1>7, <1>8, <1>9, <1>10, <1>11 DEF ClientCall, ClientFinish

(* The numbers, from there being one caller and one place.                  *)
LEMMA RepliesCounted ==
    ASSUME IInv, Answerable
    PROVE  OneReply
<1>. TypeOK /\ Control
  BY DEF IInv
<1>. DEFINE Queued(id) == {k \in 1 .. Len(msgs) : msgs[k].id = id}
            Under(id) == IF pc = "swap" /\ id = "Modify" THEN 1 ELSE 0
<1>0. \A id \in SyncIds :
         Outstanding(id) = Cardinality(Queued(id)) + Len(replies[id]) + Under(id)
  BY Zenon DEF Outstanding
<1>. HIDE DEF Queued, Under
(* Nobody asks for id: there is nothing of it anywhere.                     *)
<1>1. ASSUME NEW id \in SyncIds, Pending(id) = {}
      PROVE  Outstanding(id) = 0 /\ Cardinality(Pending(id)) = 0
  <2>1. \A c \in Clients : ~(Waiting(c) /\ client[c].id = id)
    BY <1>1 DEF Pending, Waiting
  <2>2. Queued(id) = {}
    BY <2>1 DEF Queued, Control, QueuedAsked, Asks
  <2>3. replies[id] = <<>>
    BY <2>1 DEF Control, ReplyAsked
  <2>4. Under(id) = 0
    BY <2>1 DEF Under, Control, SwapAsked, Asks
  <2>5. Cardinality({}) = 0 /\ Len(<<>>) = 0
    BY FS_EmptySet
  <2>. QED
    <3>1. Cardinality(Queued(id)) = 0 /\ Len(replies[id]) = 0
      BY <2>2, <2>3, <2>5
    <3>. QED
      BY <1>0, <1>1, <2>4, <2>5, <3>1
(* Somebody asks for it: it is in one of the three places.                  *)
<1>2. ASSUME NEW id \in SyncIds, NEW c \in Pending(id)
      PROVE  Outstanding(id) = 1 /\ Cardinality(Pending(id)) = 1
  <2>1. c \in Clients /\ Waiting(c) /\ client[c].id = id
    BY DEF Pending, Waiting
  <2>2. Pending(id) = {c}
    BY <2>1 DEF Pending, Control, OneCaller, Waiting
  <2>3. Cardinality({c}) = 1 /\ Cardinality({}) = 0 /\ Len(<<>>) = 0
    BY FS_Singleton, FS_EmptySet
  <2>4. ASSUME HasMessage(id)
        PROVE  Cardinality(Queued(id)) = 1 /\ Len(replies[id]) = 0 /\ Under(id) = 0
    <3>1. PICK k \in 1 .. Len(msgs) : msgs[k].id = id
      BY <2>4 DEF HasMessage
    <3>2. Queued(id) = {k}
      BY <3>1 DEF Queued, Control, QueuedAsked
    <3>3. Cardinality({k}) = 1
      BY FS_Singleton
    <3>. QED
      BY <2>3, <3>1, <3>2, <3>3 DEF Under, Control, QueuedAsked, Silent
  <2>5. ASSUME replies[id] # <<>>
        PROVE  Cardinality(Queued(id)) = 0 /\ Len(replies[id]) = 1 /\ Under(id) = 0
    <3>1. Queued(id) = {}
      BY <2>5 DEF Queued, Control, QueuedAsked, Silent
    <3>. QED
      BY <2>3, <2>5, <3>1 DEF Under, Control, SwapAsked, ReplyAsked, Silent
  <2>6. ASSUME pc = "swap", id = "Modify"
        PROVE  Cardinality(Queued(id)) = 0 /\ Len(replies[id]) = 0 /\ Under(id) = 1
    <3>1. Queued(id) = {}
      BY <2>6 DEF Queued, Control, QueuedAsked
    <3>. QED
      BY <2>3, <2>6, <3>1 DEF Under, Control, SwapAsked, Silent
  <2>7. HasMessage(id) \/ replies[id] # <<>> \/ (pc = "swap" /\ id = "Modify")
    BY <2>1 DEF Answerable
  <2>8. Outstanding(id) = 1
    <3>1. CASE HasMessage(id)
      BY <1>0, <2>4, <3>1
    <3>2. CASE replies[id] # <<>>
      <4>1. Cardinality(Queued(id)) = 0 /\ Len(replies[id]) = 1 /\ Under(id) = 0
        BY <2>5, <3>2
      <4>2. Outstanding(id) = 0 + 1 + 0
        BY <1>0, <4>1, Zenon
      <4>. QED
        BY <4>2
    <3>3. CASE pc = "swap" /\ id = "Modify"
      <4>1. Cardinality(Queued(id)) = 0 /\ Len(replies[id]) = 0 /\ Under(id) = 1
        BY <2>6, <3>3
      <4>. QED
        BY <1>0, <4>1
    <3>. QED
      BY <2>7, <3>1, <3>2, <3>3
  <2>. QED
    BY <2>2, <2>3, <2>8
<1>3. \A id \in SyncIds : Outstanding(id) = Cardinality(Pending(id))
  BY <1>1, <1>2
<1>4. Cardinality(UNION {Pending(id) : id \in SyncIds}) <= 1
  <2>. DEFINE all == UNION {Pending(id) : id \in SyncIds}
  <2>1. CASE all = {}
    BY <2>1, FS_EmptySet
  <2>2. ASSUME NEW c \in all PROVE Cardinality(all) = 1
    <3>1. all = {c}
      BY DEF Pending, Control, OneCaller, Waiting
    <3>. QED
      BY <3>1, FS_Singleton
  <2>. QED
    BY <2>1, <2>2
<1>. QED
  BY <1>3, <1>4 DEF OneReply

LEMMA AnswerableNext == IInv /\ Answerable /\ [Next]_vars => Answerable'
<1>1. ASSUME Answerable, UNCHANGED vars PROVE Answerable'
  BY <1>1 DEF vars, Answerable, Waiting, HasMessage
<1>. QED
  BY <1>1, AnswerableEngine, AnswerableClient DEF Next, Crashed

(* Every synchronous call in progress has exactly one of its message, its   *)
(* edit under way or its reply outstanding, nothing else has, and at most   *)
(* one call is in progress: SendSyncMessage never waits for a post that     *)
(* cannot come, and never takes the reply of another call.                  *)
THEOREM CallsAreAnsweredOnce == Spec => []OneReply
<1>1. IInv /\ Answerable => OneReply
  BY RepliesCounted
<1>. QED
  BY <1>1, AnswerableInit, AnswerableNext, Invariance, PTL DEF Spec

(* The engine never waits in its queue with a message there, and no caller  *)
(* waits for a reply that is not posted, but for the moment between a       *)
(* client's push and its post (MqReceiveMessage, SendSyncMessage).  It is   *)
(* the half of CallsReturn that needs no fairness.                          *)
THEOREM NoCallIsForgotten == Spec => [](NoMessageForgotten /\ NoCallForgotten)
<1>1. IInv /\ Answerable => NoMessageForgotten /\ NoCallForgotten
  <2>. SUFFICES ASSUME IInv, Answerable, pc = "dequeue", sem = 0, ~PostOutstanding
                PROVE  /\ msgs = <<>>
                       /\ \A c \in Clients : client[c].pc = "wait" => replies[client[c].id] # <<>>
    BY DEF NoMessageForgotten, NoCallForgotten, NoWork
  <2>1. Unposted = {}
    BY DEF Unposted, PostOutstanding
  <2>2. Len(msgs) = 0
    BY <2>1, UnpostedFacts DEF IInv, Control, Posts
  <2>3. msgs = <<>>
    BY <2>2 DEF IInv, TypeOK
  <2>4. ASSUME NEW c \in Clients, client[c].pc = "wait" PROVE replies[client[c].id] # <<>>
    <3>1. Waiting(c) /\ client[c].id \in SyncIds
      BY <2>4 DEF Waiting, IInv, Control, OneCaller
    <3>2. ~HasMessage(client[c].id)
      BY <2>2 DEF HasMessage
    <3>. QED
      BY <3>1, <3>2 DEF Answerable
  <2>. QED
    BY <2>3, <2>4
<1>. QED
  BY <1>1, AnswerableInit, AnswerableNext, Invariance, PTL DEF Spec

-----------------------------------------------------------------------------
(* Extensions.  Besides the property itself: a segment with no Setup        *)
(* callback has none, and neither has a list that is offered as an edit.    *)
PlainEmpty ==
    \A l \in Lists : \A i \in Indices(l) : ~HasSetup(Seg(l, i)) => ext[l][i].mem = "null"
EditFresh ==
    \A k \in 1 .. Len(msgs) : msgs[k].id = "Modify" =>
        \A i \in Indices(msgs[k].list) : ext[msgs[k].list][i].mem = "null"
Extended == NoneLeftBehind /\ NoneMissing /\ PlainEmpty /\ EditFresh

LEMMA ExtendedInit == Init => Extended
  BY DEF Init, Extended, NoneLeftBehind, NoneMissing, PlainEmpty, EditFresh, Owner,
     NoExtension

(* The list of a queued edit is in use for nothing else.                    *)
LEMMA EditElsewhere ==
    ASSUME IInv, NEW k \in 1 .. Len(msgs), msgs[k].id = "Modify"
    PROVE  /\ msgs[k].list \in Lists /\ msgs[k].list \in alive
           /\ state = "Running" /\ pc # "callback" => active # msgs[k].list
           /\ \A j \in 1 .. Len(msgs) : msgs[j].id \in StartIds => msgs[j].list # msgs[k].list
           /\ \A j \in 1 .. Len(msgs) : msgs[j].id \in SyncIds => j = k
<1>. TypeOK /\ Control
  BY DEF IInv
<1>1. /\ Silent /\ \E c \in Clients : Asks(c, "Modify", msgs[k].list)
      /\ \A j \in 1 .. Len(msgs) : msgs[j].id \in SyncIds => j = k
  BY DEF Control, QueuedAsked, SyncIds
<1>2. msgs[k].list \in alive /\ msgs[k].list \in Lists
  BY DEF Control, QueuedListsUsable, Usable, ListIds, TypeOK
<1>3. replies["Modify"] # <<"Success">>
  <2>1. Len(<<>>) = 0 /\ Len(<<"Success">>) = 1
    OBVIOUS
  <2>2. Len(replies["Modify"]) = 0
    BY <1>1, <2>1 DEF Silent, SyncIds
  <2>3. ASSUME replies["Modify"] = <<"Success">> PROVE Len(replies["Modify"]) = 1
    BY <2>1, <2>3, Zenon
  <2>. QED
    BY <2>2, <2>3
<1>. QED
  BY <1>1, <1>2, <1>3 DEF Control, EditApart, Asks

(* The running list, and the one an edit switches to, exist.                *)
LEMMA OwnerFacts ==
    ASSUME IInv
    PROVE  Owner \subseteq alive /\ alive \subseteq Lists
<1>. TypeOK /\ Control
  BY DEF IInv
<1>1. ASSUME pc = "swap" PROVE swap.list \in alive
  BY <1>1 DEF Control, SwapAsked, EditApart, Asks, Usable
<1>2. ASSUME state = "Running", pc \notin {"callback", "swap"} PROVE active \in alive
  BY <1>2 DEF Control, RunningListLocked
<1>. QED
  BY <1>1, <1>2 DEF Owner, TypeOK, EngineState

(* The engine queues no edit.                                               *)
EditsKept ==
    \A k \in 1 .. Len(msgs') : msgs'[k].id = "Modify" =>
        \E j \in 1 .. Len(msgs) : msgs[j] = msgs'[k]
LEMMA EditsTaken ==
    ASSUME IInv, sem > 0, Dequeued \/ DequeuedAndQueued(StopInternalMsg)
    PROVE  EditsKept
<1>1. /\ Len(msgs) > 0 /\ Tail(msgs) \in Seq(Message)
      /\ Len(Tail(msgs)) = Len(msgs) - 1
      /\ \A j \in 1 .. Len(msgs) - 1 : Tail(msgs)[j] = msgs[j + 1]
      /\ msgs \in Seq(Message)
  BY Received DEF IInv, Control, TypeOK
<1>2. CASE Dequeued
  BY <1>1, <1>2 DEF Dequeued, EditsKept
<1>3. CASE DequeuedAndQueued(StopInternalMsg)
  <2>1. /\ Len(msgs') = Len(msgs) /\ msgs'[Len(msgs)] = StopInternalMsg
        /\ \A j \in 1 .. Len(msgs) - 1 : msgs'[j] = Tail(msgs)[j]
    BY <1>1, <1>3, StopIsMessage, Appended DEF DequeuedAndQueued
  <2>. QED
    BY <1>1, <2>1, StopIsMessage DEF EditsKept
<1>. QED
  BY <1>2, <1>3

LEMMA EditsQueued ==
    ASSUME TypeOK, NEW m \in Message, m.id # "Modify", NEW posted \in BOOLEAN,
           MqQueueMessage(m, posted)
    PROVE  EditsKept
<1>1. /\ Len(msgs') = Len(msgs) + 1 /\ msgs'[Len(msgs) + 1] = m
      /\ \A j \in 1 .. Len(msgs) : msgs'[j] = msgs[j]
      /\ Len(msgs) \in Nat
  BY Appended DEF TypeOK, MqQueueMessage
<1>. QED
  BY <1>1 DEF EditsKept

(* Steps that leave the extensions with the list they belong to.            *)
LEMMA ExtendedFrame ==
    ASSUME Extended, UNCHANGED ext, Owner' = Owner, EditsKept
    PROVE  Extended'
<1>1. NoneLeftBehind' /\ NoneMissing' /\ PlainEmpty'
  BY DEF Extended, NoneLeftBehind, NoneMissing, PlainEmpty
<1>2. EditFresh'
  BY DEF Extended, EditFresh, EditsKept
<1>. QED
  BY <1>1, <1>2 DEF Extended

(* Steps that change those of one list, which no queued edit names.         *)
LEMMA ExtendedOne ==
    ASSUME IInv, Extended, NEW l \in Lists, \A m \in Lists \ {l} : ext'[m] = ext[m],
           EditsKept, \A k \in 1 .. Len(msgs') : msgs'[k].id = "Modify" => msgs'[k].list # l,
           \A m \in Lists \ {l} : m \in Owner <=> m \in Owner',
           \A i \in Indices(l) :
              /\ ~HasSetup(Seg(l, i)) => ext'[l][i].mem = "null"
              /\ ext'[l][i].mem = "live" => l \in Owner'
              /\ l \in Owner' /\ HasSetup(Seg(l, i)) => ext'[l][i].mem = "live",
           Owner' \subseteq Lists
    PROVE  Extended'
<1>2. NoneLeftBehind' /\ NoneMissing' /\ PlainEmpty'
  BY DEF Extended, NoneLeftBehind, NoneMissing, PlainEmpty
<1>3. EditFresh'
  BY EditElsewhere DEF Extended, EditFresh, EditsKept
<1>. QED
  BY <1>2, <1>3 DEF Extended

LEMMA ExtendedEngine ==
    ASSUME TagsKeepKind, IInv, Extended, EngineStep
    PROVE  Extended'
<1>. TypeOK /\ Control
  BY DEF IInv
<1>0. /\ UNCHANGED msgs => EditsKept
      /\ sem > 0 /\ (Dequeued \/ DequeuedAndQueued(StopInternalMsg)) => EditsKept
      /\ MqQueueMessage(StopInternalMsg, TRUE) => EditsKept
  BY EditsTaken, EditsQueued, StopIsMessage DEF EditsKept
(* Messages and steps that change no extension.                             *)
<1>1. CASE StartRunning \/ StartInternalRunning \/ StopIdle \/ ModifyDeleted \/ ModifyIdle
           \/ GotoIdle
  <2>1. sem > 0 /\ Dequeued /\ UNCHANGED <<ext, state, pc, active, swap>>
    BY <1>1 DEF StartRunning, StartInternalRunning, StopIdle, ModifyDeleted, ModifyIdle,
       GotoIdle, Receive, listVars
  <2>. QED
    BY <1>0, <2>1, ExtendedFrame DEF Owner
<1>2. CASE GotoRunning
  <2>1. /\ sem > 0 /\ (Dequeued \/ DequeuedAndQueued(StopInternalMsg))
        /\ UNCHANGED <<ext, state, pc, active, swap>>
    BY <1>2 DEF GotoRunning, Receive
  <2>. QED
    BY <1>0, <2>1, ExtendedFrame DEF Owner
<1>3. CASE ModifyOutOfRange \/ ModifySwapFreed \/ ExecuteOutOfRange \/ StartRepeatNoExtension
  <2>1. UNCHANGED <<msgs, ext, state, pc, active, swap>>
    BY <1>3 DEF ModifyOutOfRange, ModifySwapFreed, ExecuteOutOfRange, StartRepeatNoExtension,
       queueVars, listVars
  <2>. QED
    BY <1>0, <2>1, ExtendedFrame DEF Owner
<1>4. ASSUME UNCHANGED <<ext, state, active, swap>>, pc \notin {"swap", "callback"},
             pc' \notin {"swap", "callback"}, EditsKept
      PROVE  Extended'
  BY <1>4, ExtendedFrame DEF Owner
<1>5. CASE TimeoutRunning \/ StartSegment \/ RunSegment \/ AbortSegment
  <2>1. UNCHANGED <<msgs, ext, state, active, swap>> /\ pc \notin {"swap", "callback"}
        /\ pc' \notin {"swap", "callback"}
    BY <1>5 DEF TimeoutRunning, StartSegment, RunSegment, AbortSegment, queueVars, listVars
  <2>. QED
    BY <1>0, <1>4, <2>1
<1>6. CASE OnContinue
  BY <1>0, <1>4, <1>6 DEF OnContinue, ReturnContinue, queueVars, listVars
<1>7. CASE ExecuteError \/ OnError
  BY <1>0, <1>4, <1>7 DEF ExecuteError, OnError, ReturnFinished, listVars
<1>8. ASSUME NEW i, GoOn(i), pc = "status" PROVE Extended'
  BY <1>0, <1>4, <1>8 DEF GoOn, ReturnFinished, queueVars
<1>9. CASE OnSuccess \/ OnIndexModified \/ OnAbortSkip \/ OnAbortAttach
  BY <1>8, <1>9 DEF OnSuccess, OnIndexModified, OnAbortSkip, OnAbortAttach
<1>10. CASE Callback \/ \E l \in Lists : CallbackStarts(l)
  <2>1. EditsKept
    <3>1. ASSUME NEW l \in Lists, CallbackStarts(l) PROVE EditsKept
      <4>1. Msg("StartInternal", l) \in Message /\ Msg("StartInternal", l).id # "Modify"
        BY DEF Msg, Message, MessageIds
      <4>. QED
        BY <3>1, <4>1, EditsQueued DEF CallbackStarts
    <3>. QED
      BY <1>0, <1>10, <3>1 DEF Callback, queueVars
  <2>2. UNCHANGED ext /\ Owner' = Owner
    BY <1>10 DEF Callback, CallbackStarts, BecomeIdle, listVars, Owner
  <2>. QED
    BY <2>1, <2>2, ExtendedFrame
<1>11. CASE ModifySwap
  <2>1. UNCHANGED ext /\ Owner' = Owner /\ EditsKept
    BY <1>0, <1>11 DEF ModifySwap, queueVars, Owner, Control, Threads
  <2>. QED
    BY <2>1, ExtendedFrame
(* A list is started: set up.                                               *)
<1>12. ASSUME NEW l \in Lists, BeginList(l), pc = "dequeue", state = "Idle", UNCHANGED pc,
              EditsKept, \A k \in 1 .. Len(msgs') : msgs'[k].id = "Modify" => msgs'[k].list # l
       PROVE  Extended'
  <2>1. ext'[l] = SetupAllSegments(l, ext[l]) /\ \A m \in Lists \ {l} : ext'[m] = ext[m]
    BY <1>12 DEF BeginList, TypeOK
  <2>2. Owner = {} /\ Owner' = {l}
    BY <1>12 DEF Owner, BeginList
  <2>3. \A i \in Indices(l) :
          /\ ~HasSetup(Seg(l, i)) => ext'[l][i].mem = "null"
          /\ HasSetup(Seg(l, i)) => ext'[l][i].mem = "live"
    BY <2>1 DEF SetupAllSegments, NewExtension, Extended, PlainEmpty
  <2>. QED
    BY <1>12, <2>1, <2>2, <2>3, ExtendedOne
<1>13. CASE StartIdle \/ StartInternalIdle
  <2>1. /\ Head(msgs) = msgs[1] /\ 1 \in 1 .. Len(msgs) /\ msgs[1].id \in StartIds
        /\ msgs[1].list \in Lists /\ sem > 0 /\ Dequeued
    BY <1>13, Received, HeadList DEF StartIdle, StartInternalIdle, Receive, StartIds, ListIds,
       Control
  <2>2. EditsKept
    BY <1>0, <2>1
  <2>3. \A k \in 1 .. Len(msgs') : msgs'[k].id = "Modify" => msgs'[k].list # msgs[1].list
    BY <2>1, <2>2, EditElsewhere DEF EditsKept
  <2>. QED
    BY <1>12, <1>13, <2>1, <2>2, <2>3 DEF StartIdle, StartInternalIdle, Receive
(* The running list is stopped: cleaned up.                                 *)
<1>14. ASSUME NEW callback, EndList(callback), Dequeued, sem > 0, pc = "dequeue",
              state = "Running"
       PROVE  Extended'
  <2>1. /\ active \in Lists /\ ext'[active] = CleanupAllSegments(active, ext[active])
        /\ \A m \in Lists \ {active} : ext'[m] = ext[m]
    BY <1>14 DEF EndList, TypeOK
  <2>2. Owner = {active} /\ Owner' = {}
    BY <1>14 DEF Owner, EndList
  <2>3. \A i \in Indices(active) :
          /\ ~HasSetup(Seg(active, i)) => ext'[active][i].mem = "null"
          /\ ext'[active][i].mem # "live"
    BY <2>1 DEF CleanupAllSegments, Freed, NoExtension, Extended, PlainEmpty
  <2>4. EditsKept
    BY <1>0, <1>14
  <2>5. \A k \in 1 .. Len(msgs') : msgs'[k].id = "Modify" => msgs'[k].list # active
    BY <1>14, <2>4, EditElsewhere DEF EditsKept
  <2>. QED
    BY <2>1, <2>2, <2>3, <2>4, <2>5, ExtendedOne
<1>15. CASE StopRunning \/ StopInternalRunning \/ TerminateRunning
  BY <1>14, <1>15 DEF StopRunning, StopInternalRunning, TerminateRunning, Receive
(* A repeat counts in its own extension.                                    *)
<1>16. CASE StartRepeat
  <2>. DEFINE i == curIndex[active]
              x == [ext[active] EXCEPT ![i] = RepeatExtension(Current, ext[active][i])]
  <2>1. /\ active \in Lists /\ i \in Indices(active) /\ state = "Running"
        /\ pc = "execute" /\ pc' = "status" /\ UNCHANGED <<msgs, state, active, swap>>
        /\ ext[active][i].mem = "live" /\ HasSetup(Seg(active, i))
    BY <1>16, ActiveFacts DEF StartRepeat, Control, Threads, InRange, Current, HasSetup, queueVars
  <2>2. ext'[active] = x /\ \A m \in Lists \ {active} : ext'[m] = ext[m]
    BY <1>16, <2>1 DEF StartRepeat, TypeOK
  <2>3. x[i].mem = "live" /\ \A j \in Indices(active) \ {i} : x[j] = ext[active][j]
    <3>1. ext[active][i] \in Extension /\ ext[active] \in [Indices(active) -> Extension]
      BY <2>1 DEF TypeOK
    <3>2. Rearm(ext[active][i]).mem = "live"
      BY <2>1, <3>1 DEF Rearm, Extension
    <3>3. Rearm(ext[active][i]) \in Extension
      BY <2>1, <3>1 DEF Rearm, Extension
    <3>4. RepeatExtension(Current, ext[active][i]).mem = "live"
      BY <3>2, <3>3 DEF RepeatExtension, Extension
    <3>. QED
      BY <2>1, <3>1, <3>4
  <2>4. EditsKept /\ Owner' = {active} /\ Owner = {active}
    BY <1>0, <2>1 DEF Owner
  <2>5. \A k \in 1 .. Len(msgs') : msgs'[k].id = "Modify" => msgs'[k].list # active
    BY <2>1, EditElsewhere
  <2>. HIDE DEF x
  <2>6. \A j \in Indices(active) : ~HasSetup(Seg(active, j)) => ext'[active][j].mem = "null"
    BY <2>1, <2>2, <2>3 DEF Extended, PlainEmpty
  <2>7. \A j \in Indices(active) : HasSetup(Seg(active, j)) => ext'[active][j].mem = "live"
    BY <2>1, <2>2, <2>3, <2>4 DEF Extended, NoneMissing
  <2>. QED
    BY <2>1, <2>2, <2>4, <2>5, <2>6, <2>7, ExtendedOne
(* An edit moves them to the new list, and cleans up those left over.       *)
<1>17. CASE ModifyImport
  <2>. DEFINE new == Head(msgs).list
              x == ImportedExtensions(active, ext[active], new, ext[new])
              y == RemainingExtensions(active, ext[active], new)
  <2>1. /\ Head(msgs) = msgs[1] /\ 1 \in 1 .. Len(msgs) /\ msgs[1].id = "Modify"
        /\ sem > 0 /\ Dequeued /\ state = "Running" /\ pc = "dequeue"
    BY <1>17, Received DEF ModifyImport, Receive, Control
  <2>2. /\ new \in Lists /\ new \in alive /\ active \in Lists /\ active # new
        /\ \A j \in 1 .. Len(msgs) : msgs[j].id = "Modify" => j = 1
        /\ \A j \in Indices(new) : ext[new][j].mem = "null"
    <3>1. /\ new = msgs[1].list /\ new \in Lists /\ new \in alive /\ active # new
          /\ \A j \in 1 .. Len(msgs) : msgs[j].id = "Modify" => j = 1
      BY <2>1, EditElsewhere DEF SyncIds
    <3>2. \A j \in Indices(new) : ext[new][j].mem = "null"
      BY <2>1, <3>1 DEF Extended, EditFresh
    <3>. QED
      BY <2>1, <3>1, <3>2 DEF TypeOK
  <2>3. Owner = {active} /\ Owner' = {new}
    BY <1>17, <2>1 DEF Owner, ModifyImport
  <2>4. \A k \in 1 .. Len(msgs') : msgs'[k].id # "Modify"
    BY <2>1, <2>2, Received DEF Dequeued
  <2>5. ext'[new] = x /\ ext'[active] = y /\ \A l \in Lists \ {new, active} : ext'[l] = ext[l]
    BY <1>17, <2>2 DEF ModifyImport, TypeOK
  <2>6. /\ \A i \in Indices(active) :
              /\ HasSetup(Seg(active, i)) => ext[active][i].mem = "live"
              /\ ~HasSetup(Seg(active, i)) => ext[active][i].mem = "null"
    BY <2>2, <2>3 DEF Extended, NoneMissing, PlainEmpty
  <2>7. \A j \in Indices(new) :
          /\ HasSetup(Seg(new, j)) => x[j].mem = "live"
          /\ ~HasSetup(Seg(new, j)) => x[j].mem = "null"
    <3>. SUFFICES ASSUME NEW j \in Indices(new)
                  PROVE  /\ HasSetup(Seg(new, j)) => x[j].mem = "live"
                         /\ ~HasSetup(Seg(new, j)) => x[j].mem = "null"
      OBVIOUS
    <3>. DEFINE from == SameTag(new, j, active)
                moved == {i \in from : ext[active][i].mem # "null"}
    <3>1. \A i \in from : i \in Indices(active)
                         /\ (HasSetup(Seg(active, i)) <=> HasSetup(Seg(new, j)))
      BY <2>2 DEF SameTag, TagsKeepKind
    <3>2. CASE moved # {}
      <4>1. (CHOOSE i \in moved : TRUE) \in moved
        BY <3>2
      <4>2. x[j] = ext[active][CHOOSE i \in moved : TRUE]
        BY <3>2 DEF ImportedExtensions
      <4>. QED
        BY <2>6, <3>1, <4>1, <4>2
    <3>3. CASE moved = {}
      <4>1. HasSetup(Seg(new, j)) => from = {}
        BY <2>6, <3>1, <3>3
      <4>2. x[j] = IF ext[new][j].mem = "null" /\ from = {} /\ HasSetup(Seg(new, j))
                     THEN NewExtension ELSE ext[new][j]
        BY <3>3 DEF ImportedExtensions
      <4>. QED
        BY <2>2, <4>1, <4>2 DEF NewExtension
    <3>. QED
      BY <3>2, <3>3
  <2>8. \A i \in Indices(active) :
          /\ y[i].mem # "live"
          /\ ~HasSetup(Seg(active, i)) => y[i].mem = "null"
    BY <2>6 DEF RemainingExtensions, Freed, NoExtension
  <2>. HIDE DEF x, y
  <2>9. NoneLeftBehind' /\ NoneMissing' /\ PlainEmpty'
    <3>1. ASSUME NEW l \in Lists \ {new, active} PROVE l \notin Owner /\ ext'[l] = ext[l]
      BY <2>3, <2>5
    <3>. QED
      BY <2>2, <2>3, <2>5, <2>7, <2>8, <3>1 DEF Extended, NoneLeftBehind, NoneMissing, PlainEmpty
  <2>. QED
    BY <2>4, <2>9 DEF Extended, EditFresh
<1>. QED
  BY <1>1, <1>2, <1>3, <1>5, <1>6, <1>7, <1>9, <1>10, <1>11, <1>13, <1>15, <1>16, <1>17
     DEF EngineStep, HandleMessage, ExecuteSegments

LEMMA ExtendedClient ==
    ASSUME IInv, Extended, NEW c \in Clients, ClientCall(c) \/ ClientFinish(c)
    PROVE  Extended'
<1>. TypeOK /\ Control
  BY DEF IInv
<1>1. UNCHANGED <<pc, state, active, swap>>
  BY DEF ClientCall, ClientFinish, SeCreateSegmentList, SeStartSegmentList,
     SeModifySegmentList, SeDestroySegmentList, SeGotoNextSegment, SeStopSegmentList,
     SeTerminateSegmentList, Send, Post, Return, DestroySegmentList
<1>2. Owner' = Owner
  BY <1>1 DEF Owner
<1>3. UNCHANGED msgs => EditsKept
  BY DEF EditsKept
(* Other messages than edits ...                                            *)
<1>4. ASSUME NEW id \in MessageIds \ {"Modify"}, NEW l \in Lists \cup {Null}, Send(c, id, l)
      PROVE  Extended'
  <2>1. Msg(id, l) \in Message /\ Msg(id, l).id # "Modify"
    BY DEF Msg, Message
  <2>2. MqQueueMessage(Msg(id, l), c \notin Preempt) /\ UNCHANGED ext
    BY <1>4 DEF Send
  <2>. QED
    BY <1>2, <2>1, <2>2, EditsQueued, ExtendedFrame
<1>5. CASE (\E l \in Lists : SeStartSegmentList(c, l)) \/ SeGotoNextSegment(c)
  BY <1>4, <1>5 DEF SeStartSegmentList, SeGotoNextSegment, MessageIds, SyncIds
<1>6. CASE SeStopSegmentList(c) \/ SeTerminateSegmentList(c)
  BY <1>4, <1>6 DEF SeStopSegmentList, SeTerminateSegmentList, MessageIds, AsyncIds
(* ... a list that is created, which the engine does not run ...            *)
<1>7. ASSUME NEW l \in Lists, NewList(l), ext' = [ext EXCEPT ![l] = [i \in Indices(l) |-> NoExtension]]
      PROVE  /\ l \notin Owner
             /\ \A m \in Lists \ {l} : ext'[m] = ext[m]
             /\ \A i \in Indices(l) : ext'[l][i].mem = "null"
             /\ \A k \in 1 .. Len(msgs) : msgs[k].id = "Modify" => msgs[k].list # l
  <2>1. l \notin alive
    BY <1>7 DEF NewList
  <2>2. ext'[l] = [i \in Indices(l) |-> NoExtension] /\ \A m \in Lists \ {l} : ext'[m] = ext[m]
    BY <1>7 DEF TypeOK
  <2>. QED
    BY <2>1, <2>2, OwnerFacts, EditElsewhere DEF NoExtension
<1>8. ASSUME NEW l \in Lists, SeCreateSegmentList(c, l)
      PROVE  Extended'
  <2>1. /\ l \notin Owner /\ \A m \in Lists \ {l} : ext'[m] = ext[m]
        /\ \A i \in Indices(l) : ext'[l][i].mem = "null"
        /\ \A k \in 1 .. Len(msgs) : msgs[k].id = "Modify" => msgs[k].list # l
    BY <1>7, <1>8 DEF SeCreateSegmentList
  <2>2. UNCHANGED msgs /\ EditsKept
    BY <1>3, <1>8 DEF SeCreateSegmentList, queueVars
  <2>3. Owner' \subseteq Lists
    BY <1>2, OwnerFacts
  <2>. QED
    BY <1>2, <2>1, <2>2, <2>3, ExtendedOne
<1>9. ASSUME NEW l \in Lists, SeModifySegmentList(c, l)
      PROVE  Extended'
  <2>1. /\ l \notin Owner /\ \A m \in Lists \ {l} : ext'[m] = ext[m]
        /\ \A i \in Indices(l) : ext'[l][i].mem = "null"
        /\ \A k \in 1 .. Len(msgs) : msgs[k].id = "Modify" => msgs[k].list # l
    BY <1>7, <1>9 DEF SeModifySegmentList
  <2>2. NoneLeftBehind' /\ NoneMissing' /\ PlainEmpty'
    <3>1. Owner \subseteq Lists
      BY OwnerFacts
    <3>. QED
      BY <1>2, <2>1, <3>1 DEF Extended, NoneLeftBehind, NoneMissing, PlainEmpty
  <2>3. /\ Len(msgs') = Len(msgs) + 1 /\ msgs'[Len(msgs) + 1] = Msg("Modify", l)
        /\ \A j \in 1 .. Len(msgs) : msgs'[j] = msgs[j]
        /\ Len(msgs) \in Nat
    <3>1. Msg("Modify", l) \in Message
      BY DEF Msg, Message, MessageIds, SyncIds
    <3>. QED
      BY <1>9, <3>1, Appended DEF SeModifySegmentList, MqQueueMessage, TypeOK
  <2>4. EditFresh'
    <3>. SUFFICES ASSUME NEW k \in 1 .. Len(msgs'), msgs'[k].id = "Modify",
                         NEW i \in Indices(msgs'[k].list)
                  PROVE  ext'[msgs'[k].list][i].mem = "null"
      BY DEF EditFresh
    <3>1. CASE k = Len(msgs) + 1
      BY <2>1, <2>3, <3>1 DEF Msg
    <3>2. CASE k \in 1 .. Len(msgs)
      BY <2>1, <2>3, <3>2, EditElsewhere DEF Extended, EditFresh
    <3>. QED
      BY <2>3, <3>1, <3>2
  <2>. QED
    BY <2>2, <2>4 DEF Extended
(* ... and all the rest, that touches neither.                              *)
<1>10. CASE \/ \E l \in Lists : SeDestroySegmentList(c, l)
            \/ Post(c) \/ Return(c) \/ DestroySegmentList(c)
  BY <1>2, <1>3, <1>10, ExtendedFrame DEF SeDestroySegmentList, Post, Return,
     DestroySegmentList, queueVars, listVars
<1>. QED
  BY <1>5, <1>6, <1>8, <1>9, <1>10 DEF ClientCall, ClientFinish

LEMMA ExtendedInvariant ==
    ASSUME TagsKeepKind
    PROVE  Spec => []Extended
<1>1. Init => Extended
  BY ExtendedInit
<1>2. IInv /\ Extended /\ [Next]_vars => Extended'
  <2>1. ASSUME Extended, UNCHANGED vars PROVE Extended'
    <3>1. Owner' = Owner /\ EditsKept
      BY <2>1 DEF vars, Owner, EditsKept
    <3>. QED
      BY <2>1, <3>1, ExtendedFrame DEF vars
  <2>. QED
    BY <2>1, ExtendedEngine, ExtendedClient DEF Next, Crashed
<1>. QED
  BY <1>1, <1>2, Invariance, PTL DEF Spec

(* Setup, import and cleanup balance: while no edit changes the kind behind *)
(* a tag, a list that does not run owns no live extension, and every repeat *)
(* of the running list, or of the one an edit switches to, has one.         *)
THEOREM ExtensionsFollowTheList == Spec => []ExtensionsOwned
<1>1. CASE TagsKeepKind
  <2>1. Extended => ExtensionsOwned
    BY DEF Extended, ExtensionsOwned
  <2>. QED
    BY <1>1, <2>1, ExtendedInvariant, PTL
<1>2. CASE ~TagsKeepKind
  <2>1. ExtensionsOwned
    BY <1>2 DEF ExtensionsOwned
  <2>. QED
    BY <2>1, PTL
<1>. QED
  BY <1>1, <1>2

-----------------------------------------------------------------------------
(* The undefined behaviour of the engine thread, and what it takes to meet  *)
(* it: the old list of an edit is freed in its window by another client.    *)
Explained ==
    /\ FaultsExplained
    /\ pc = "swap" /\ active \notin alive => SeveralClients

LEMMA ExplainedEngine ==
    ASSUME IInv, TagsKeepKind => Extended, Explained, EngineStep
    PROVE  Explained'
<1>. TypeOK /\ Control
  BY DEF IInv
<1>1. CASE ExecuteOutOfRange
  BY <1>1 DEF ExecuteOutOfRange, Explained, FaultsExplained, Control, ExecutesInRange,
     listVars
<1>2. CASE StartRepeatNoExtension
  <2>1. ASSUME TagsKeepKind PROVE FALSE
    <3>1. /\ Owner = {active} /\ InRange /\ HasSetup(Seg(active, curIndex[active]))
          /\ ext[active][curIndex[active]].mem # "live"
      BY <1>2 DEF StartRepeatNoExtension, Owner, Control, Threads, HasSetup, Current
    <3>. QED
      BY <2>1, <3>1 DEF Extended, NoneMissing, InRange
  <2>. QED
    BY <1>2, <2>1 DEF StartRepeatNoExtension, Explained, FaultsExplained, listVars
<1>3. CASE ModifySwapFreed
  BY <1>3 DEF ModifySwapFreed, Explained, FaultsExplained, listVars
<1>4. CASE ModifyOutOfRange
  BY <1>4 DEF ModifyOutOfRange, Explained, FaultsExplained, listVars
<1>5. CASE ModifyImport
  <2>1. active \in alive
    BY <1>5 DEF ModifyImport, Receive, Control, RunningListLocked
  <2>. QED
    BY <1>5, <2>1 DEF ModifyImport, Explained, FaultsExplained
(* The other steps meet no fault and do not lead into the window.           *)
<1>6. ASSUME UNCHANGED fault, pc' # "swap" PROVE Explained'
  BY <1>6 DEF Explained, FaultsExplained
<1>7. CASE StartIdle \/ StartRunning \/ StartInternalIdle \/ StartInternalRunning \/ StopRunning
           \/ StopInternalRunning \/ TerminateRunning \/ StopIdle
  BY <1>6, <1>7 DEF StartIdle, StartRunning, StartInternalIdle, StartInternalRunning,
     StopRunning, StopInternalRunning, TerminateRunning, StopIdle, EndList, Receive
<1>8. CASE ModifyDeleted \/ ModifyIdle \/ ModifySwap \/ GotoRunning \/ GotoIdle
  BY <1>6, <1>8 DEF ModifyDeleted, ModifyIdle, ModifySwap, GotoRunning, GotoIdle, Receive
<1>9. CASE TimeoutRunning \/ StartSegment \/ StartRepeat \/ RunSegment \/ AbortSegment
  BY <1>6, <1>9 DEF TimeoutRunning, StartSegment, StartRepeat, RunSegment, AbortSegment
<1>10. CASE ExecuteError \/ OnContinue \/ OnError
  BY <1>6, <1>10 DEF ExecuteError, OnContinue, OnError, ReturnFinished, ReturnContinue
<1>11. ASSUME NEW i, GoOn(i) PROVE Explained'
  BY <1>6, <1>11 DEF GoOn, ReturnFinished
<1>12. CASE OnSuccess \/ OnIndexModified \/ OnAbortSkip \/ OnAbortAttach
  BY <1>11, <1>12 DEF OnSuccess, OnIndexModified, OnAbortSkip, OnAbortAttach
<1>13. CASE Callback \/ \E l \in Lists : CallbackStarts(l)
  BY <1>6, <1>13 DEF Callback, CallbackStarts, BecomeIdle
<1>. QED
  BY <1>1, <1>2, <1>3, <1>4, <1>5, <1>7, <1>8, <1>9, <1>10, <1>12, <1>13
     DEF EngineStep, HandleMessage, ExecuteSegments

LEMMA ExplainedClient ==
    ASSUME IInv, Explained, NEW c \in Clients, ClientCall(c) \/ ClientFinish(c)
    PROVE  Explained'
<1>. TypeOK /\ Control
  BY DEF IInv
<1>1. UNCHANGED <<fault, pc, active>>
  BY DEF ClientCall, ClientFinish, SeCreateSegmentList, SeStartSegmentList,
     SeModifySegmentList, SeDestroySegmentList, SeGotoNextSegment, SeStopSegmentList,
     SeTerminateSegmentList, Send, Post, Return, DestroySegmentList
<1>2. ASSUME pc = "swap" PROVE alive \subseteq alive' \/ SeveralClients
  <2>1. CASE Return(c)
    BY <1>2, <2>1 DEF Return, Control, SwapAsked, Silent, OneCaller, Waiting
  <2>2. CASE DestroySegmentList(c)
    <3>1. PICK d \in Clients : Asks(d, "Modify", swap.list)
      BY <1>2 DEF Control, SwapAsked
    <3>. QED
      BY <2>2, <3>1 DEF DestroySegmentList, Asks, Waiting, SeveralClients
  <2>3. CASE \/ Post(c) \/ \E l \in Lists : SeDestroySegmentList(c, l)
             \/ SeGotoNextSegment(c) \/ SeStopSegmentList(c) \/ SeTerminateSegmentList(c)
    BY <2>3 DEF Post, SeDestroySegmentList, SeGotoNextSegment, SeStopSegmentList,
       SeTerminateSegmentList, listVars
  <2>4. CASE \E l \in Lists : SeCreateSegmentList(c, l) \/ SeStartSegmentList(c, l)
                            \/ SeModifySegmentList(c, l)
    BY <2>4 DEF SeCreateSegmentList, SeStartSegmentList, SeModifySegmentList, NewList
  <2>. QED
    BY <2>1, <2>2, <2>3, <2>4 DEF ClientCall, ClientFinish
<1>. QED
  BY <1>1, <1>2 DEF Explained, FaultsExplained

(* ExecuteSegments reads past the end of a list only if some client can be  *)
(* held up between its push_back and its sem_post; a repeat finds itself    *)
(* without its extension only if an edit changes the kind behind a tag; and *)
(* an edit writes to a list that is freed only if there are two clients.    *)
THEOREM FaultsNeedACause == Spec => []FaultsExplained
<1>1. Spec => [](TagsKeepKind => Extended)
  <2>1. CASE TagsKeepKind
    <3>1. Extended => (TagsKeepKind => Extended)
      OBVIOUS
    <3>. QED
      BY <2>1, <3>1, ExtendedInvariant, PTL
  <2>2. CASE ~TagsKeepKind
    <3>1. TagsKeepKind => Extended
      BY <2>2
    <3>. QED
      BY <3>1, PTL
  <2>. QED
    BY <2>1, <2>2
<1>2. Init => Explained
  BY DEF Init, Explained, FaultsExplained
<1>3. IInv /\ (TagsKeepKind => Extended) /\ Explained /\ [Next]_vars => Explained'
  <2>1. ASSUME Explained, UNCHANGED vars PROVE Explained'
    BY <2>1 DEF vars, Explained, FaultsExplained
  <2>. QED
    BY <2>1, ExplainedEngine, ExplainedClient DEF Next, Crashed
<1>4. Explained => FaultsExplained
  BY DEF Explained
<1>. QED
  BY <1>1, <1>2, <1>3, <1>4, Invariance, PTL DEF Spec

-----------------------------------------------------------------------------
(* The refinement of ListLifecycle.                                         *)
phaseOf == IF state = "Idle" THEN "idle"
           ELSE IF pc = "callback" THEN "telling"
           ELSE IF pc = "swap" THEN "editing" ELSE "running"
runningOf == IF state = "Idle" THEN Null ELSE active

LEMMA LifecycleSteps ==
    /\ Lifecycle!Init <=> phaseOf = "idle" /\ runningOf = Null /\ alive = {}
    /\ UNCHANGED <<phaseOf, runningOf, alive>> => UNCHANGED Lifecycle!vars
    /\ \A l \in Lists :
          /\ l \notin alive /\ alive' = alive \cup {l} /\ UNCHANGED <<phaseOf, runningOf>>
                => Lifecycle!Next
          /\ l \in alive /\ ~(phaseOf = "running" /\ runningOf = l) /\ alive' = alive \ {l}
             /\ UNCHANGED <<phaseOf, runningOf>> => Lifecycle!Next
          /\ l \in alive /\ phaseOf = "idle" /\ phaseOf' = "running" /\ runningOf' = l
             /\ UNCHANGED alive => Lifecycle!Next
          /\ l \in alive \ {runningOf} /\ phaseOf = "editing" /\ phaseOf' = "running"
             /\ runningOf' = l /\ UNCHANGED alive => Lifecycle!Next
    /\ phaseOf = "running" /\ phaseOf' = "editing" /\ UNCHANGED <<runningOf, alive>>
          => Lifecycle!Next
    /\ phaseOf = "running" /\ phaseOf' = "telling" /\ UNCHANGED <<runningOf, alive>>
          => Lifecycle!Next
    /\ phaseOf = "telling" /\ phaseOf' = "idle" /\ runningOf' = Null /\ UNCHANGED alive
          => Lifecycle!Next
  BY DEF Lifecycle!Init, Lifecycle!vars, Lifecycle!Next, Lifecycle!SeCreateSegmentList,
     Lifecycle!SeDestroySegmentList, Lifecycle!SeStartSegmentList, Lifecycle!BeginEdit,
     Lifecycle!EndEdit, Lifecycle!StopList, Lifecycle!Told, phaseOf, runningOf

(* Every step of the engine thread is a step of the life cycle or none.     *)
LEMMA LifecycleEngine ==
    ASSUME IInv, EngineStep
    PROVE  Lifecycle!Next \/ UNCHANGED Lifecycle!vars
<1>. TypeOK /\ Control
  BY DEF IInv
<1>0. UNCHANGED alive
  BY DEF EngineStep, HandleMessage, ExecuteSegments, StartIdle, StartRunning,
     StartInternalIdle, StartInternalRunning, StopRunning, StopInternalRunning,
     TerminateRunning, StopIdle, ModifyOutOfRange, ModifyDeleted, ModifyImport, ModifyIdle,
     GotoRunning, GotoIdle, TimeoutRunning, ExecuteOutOfRange, StartSegment, StartRepeat,
     StartRepeatNoExtension, RunSegment, AbortSegment, ExecuteError, OnSuccess, OnContinue,
     OnIndexModified, OnAbortSkip, OnAbortAttach, OnError, ModifySwap, ModifySwapFreed,
     Callback, CallbackStarts, BecomeIdle, EndList, GoOn, listVars
<1>1. ASSUME UNCHANGED <<state, active>>, pc \notin {"swap", "callback"} \/ UNCHANGED pc,
             pc' \notin {"swap", "callback"} \/ UNCHANGED pc
      PROVE  UNCHANGED Lifecycle!vars
  BY <1>0, <1>1, LifecycleSteps DEF phaseOf, runningOf
<1>2. CASE StartRunning \/ StartInternalRunning \/ StopIdle \/ ModifyDeleted \/ ModifyIdle
           \/ GotoRunning \/ GotoIdle
  BY <1>1, <1>2 DEF StartRunning, StartInternalRunning, StopIdle, ModifyDeleted, ModifyIdle,
     GotoRunning, GotoIdle
<1>3. CASE ModifyOutOfRange \/ ModifySwapFreed \/ ExecuteOutOfRange \/ StartRepeatNoExtension
  BY <1>1, <1>3 DEF ModifyOutOfRange, ModifySwapFreed, ExecuteOutOfRange,
     StartRepeatNoExtension
<1>4. CASE TimeoutRunning \/ StartSegment \/ StartRepeat \/ RunSegment \/ AbortSegment
  BY <1>1, <1>4 DEF TimeoutRunning, StartSegment, StartRepeat, RunSegment, AbortSegment
<1>5. CASE ExecuteError \/ OnContinue \/ OnError
  BY <1>1, <1>5 DEF ExecuteError, OnContinue, OnError, ReturnFinished, ReturnContinue
<1>6. ASSUME NEW i, GoOn(i), pc = "status" PROVE UNCHANGED Lifecycle!vars
  BY <1>1, <1>6 DEF GoOn, ReturnFinished
<1>7. CASE OnSuccess \/ OnIndexModified \/ OnAbortSkip \/ OnAbortAttach
  BY <1>6, <1>7 DEF OnSuccess, OnIndexModified, OnAbortSkip, OnAbortAttach
<1>8. CASE StartIdle \/ StartInternalIdle
  <2>1. /\ Head(msgs).list \in Lists /\ Head(msgs).list \in alive
        /\ state = "Idle" /\ pc = "dequeue" /\ UNCHANGED pc
        /\ state' = "Running" /\ active' = Head(msgs).list
    BY <1>8, HeadList DEF StartIdle, StartInternalIdle, Receive, ListIds, StartIds, Usable,
       BeginList
  <2>. QED
    BY <1>0, <2>1, LifecycleSteps DEF phaseOf, runningOf
<1>9. CASE StopRunning \/ StopInternalRunning \/ TerminateRunning
  <2>1. /\ state = "Running" /\ pc = "dequeue" /\ pc' = "callback"
        /\ UNCHANGED <<state, active>>
    BY <1>9 DEF StopRunning, StopInternalRunning, TerminateRunning, Receive, EndList
  <2>. QED
    BY <1>0, <2>1, LifecycleSteps DEF phaseOf, runningOf
<1>10. CASE Callback \/ \E l \in Lists : CallbackStarts(l)
  <2>1. state = "Running" /\ pc = "callback" /\ state' = "Idle"
    BY <1>10 DEF Callback, CallbackStarts, BecomeIdle, Control, Threads
  <2>. QED
    BY <1>0, <2>1, LifecycleSteps DEF phaseOf, runningOf
<1>11. CASE ModifyImport
  <2>1. state = "Running" /\ pc = "dequeue" /\ pc' = "swap" /\ UNCHANGED <<state, active>>
    BY <1>11 DEF ModifyImport, Receive
  <2>. QED
    BY <1>0, <2>1, LifecycleSteps DEF phaseOf, runningOf
<1>12. CASE ModifySwap
  <2>1. /\ state = "Running" /\ pc = "swap" /\ pc' = "dequeue" /\ state' = state
        /\ active' = swap.list
    BY <1>12 DEF ModifySwap, Control, Threads
  <2>2. swap.list \in Lists /\ swap.list \in alive /\ swap.list # active
    <3>1. Silent /\ \E c \in Clients : Asks(c, "Modify", swap.list)
      BY <2>1 DEF Control, SwapAsked
    <3>2. Len(<<>>) = 0 /\ Len(<<"Success">>) = 1
      OBVIOUS
    <3>3. Len(replies["Modify"]) = 0
      BY <3>1, <3>2 DEF Silent, SyncIds
    <3>4. ASSUME replies["Modify"] = <<"Success">> PROVE Len(replies["Modify"]) = 1
      BY <3>2, <3>4, Zenon
    <3>5. replies["Modify"] # <<"Success">>
      BY <3>3, <3>4
    <3>. QED
      BY <2>1, <3>1, <3>5 DEF Control, EditApart, Asks, Usable, TypeOK
  <2>. QED
    BY <1>0, <2>1, <2>2, LifecycleSteps DEF phaseOf, runningOf
<1>. QED
  BY <1>2, <1>3, <1>4, <1>5, <1>7, <1>8, <1>9, <1>10, <1>11, <1>12
     DEF EngineStep, HandleMessage, ExecuteSegments

(* ... and so is every step of a client: it creates or frees one list.      *)
LEMMA LifecycleClient ==
    ASSUME IInv, NEW c \in Clients, ClientCall(c) \/ ClientFinish(c)
    PROVE  Lifecycle!Next \/ UNCHANGED Lifecycle!vars
<1>. TypeOK /\ Control
  BY DEF IInv
<1>1. UNCHANGED <<phaseOf, runningOf>>
  <2>1. UNCHANGED <<state, pc, active>>
    BY DEF ClientCall, ClientFinish, SeCreateSegmentList, SeStartSegmentList,
       SeModifySegmentList, SeDestroySegmentList, SeGotoNextSegment, SeStopSegmentList,
       SeTerminateSegmentList, Send, Post, Return, DestroySegmentList
  <2>. QED
    BY <2>1 DEF phaseOf, runningOf
<1>2. ASSUME NEW l \in Lists, NewList(l) PROVE Lifecycle!Next
  BY <1>1, <1>2, LifecycleSteps DEF NewList
<1>3. CASE \E l \in Lists : SeCreateSegmentList(c, l) \/ SeModifySegmentList(c, l)
  BY <1>2, <1>3 DEF SeCreateSegmentList, SeModifySegmentList
<1>4. CASE DestroySegmentList(c)
  <2>. DEFINE l == client[c].list
  <2>1. l \in alive /\ l \in Lists /\ l \notin inUse /\ alive' = alive \ {l}
    BY <1>4 DEF DestroySegmentList, Control, Destroys, TypeOK
  <2>2. ~(phaseOf = "running" /\ runningOf = l)
    BY <2>1 DEF phaseOf, runningOf, Control, RunningListLocked, TypeOK, EngineState
  <2>. QED
    BY <1>1, <2>1, <2>2, LifecycleSteps
<1>5. CASE Return(c)
  <2>. DEFINE l == client[c].list
  <2>1. CASE UNCHANGED alive
    BY <1>1, <2>1, LifecycleSteps
  <2>2. CASE ~UNCHANGED alive
    <3>1. /\ client[c].id = "Modify" /\ Waiting(c) /\ alive' = alive \ {l}
          /\ Head(replies["Modify"]) # "Success"
      BY <1>5, <2>2 DEF Return, Waiting
    <3>2. l \in alive /\ l \in Lists
      BY <3>1 DEF Control, EditApart, Usable, TypeOK
    <3>3. replies["Modify"] # <<"Success">>
      <4>1. Head(<<"Success">>) = "Success"
        OBVIOUS
      <4>. QED
        BY <3>1, <4>1, Zenon
    <3>4. ~(phaseOf = "running" /\ runningOf = l)
      BY <3>1, <3>3 DEF phaseOf, runningOf, Control, EditApart, TypeOK, EngineState
    <3>. QED
      BY <1>1, <3>1, <3>2, <3>4, LifecycleSteps
  <2>. QED
    BY <2>1, <2>2
<1>6. CASE \/ (\E l \in Lists : SeStartSegmentList(c, l) \/ SeDestroySegmentList(c, l))
           \/ SeGotoNextSegment(c) \/ SeStopSegmentList(c) \/ SeTerminateSegmentList(c)
           \/ Post(c)
  <2>1. UNCHANGED alive
    BY <1>6 DEF SeStartSegmentList, SeDestroySegmentList, SeGotoNextSegment,
       SeStopSegmentList, SeTerminateSegmentList, Post, listVars
  <2>. QED
    BY <1>1, <2>1, LifecycleSteps
<1>. QED
  BY <1>3, <1>4, <1>5, <1>6 DEF ClientCall, ClientFinish

(* The engine implements the life cycle its header promises.                *)
THEOREM EngineRunsAsPromised == Spec => RunsAsPromised
<1>1. Init => Lifecycle!Init
  BY LifecycleSteps DEF Init, phaseOf, runningOf
<1>2. IInv /\ [Next]_vars => [Lifecycle!Next]_(Lifecycle!vars)
  <2>1. ASSUME UNCHANGED vars PROVE UNCHANGED Lifecycle!vars
    BY <2>1, LifecycleSteps DEF vars, phaseOf, runningOf
  <2>. QED
    BY <2>1, LifecycleEngine, LifecycleClient DEF Next, Crashed
<1>. QED
  BY <1>1, <1>2, Invariance, PTL DEF Spec, RunsAsPromised, Lifecycle!Spec
=============================================================================
