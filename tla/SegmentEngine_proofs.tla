------------------------ MODULE SegmentEngine_proofs ------------------------
(***************************************************************************)
(* Theorems about SegmentEngine, for any lists, clients and queue bound.    *)
(***************************************************************************)
EXTENDS SegmentEngine, FiniteSetTheorems, TLAPS

-----------------------------------------------------------------------------
(* The inductive invariant, in named parts.                                 *)

(* The queue and its semaphore: what is queued and cannot be received yet   *)
(* is what some client has pushed and not posted.                           *)
Unposted == {c \in Clients : client[c].pc \in {"postSync", "postAsync"}}
Posts ==
    /\ Unposted \subseteq Preempt
    /\ Len(msgs) = sem + Cardinality(Unposted)

(* The engine thread leaves its message loop only while a list runs.        *)
Threads == pc # "dequeue" => state = "Running"

(* Where the engine is in the running list, and where an edit will put it.  *)
Executing == state = "Running" /\ pc \notin {"callback", "swap"}
Position ==
    /\ Executing => curIndex[active] \in Nat
    /\ pc = "status" => InRange
    /\ pc = "swap" => swap.index \in Indices(swap.list)

(* A list that is named by a message is neither freed nor about to be.      *)
StartIds == {"Start", "StartInternal"}
ListIds == StartIds \cup {"Modify"}
Destroying(l) == \E c \in Clients : client[c].pc = "destroy" /\ client[c].list = l
Usable(l) == l \in alive /\ ~Destroying(l)
QueuedListsUsable ==
    \A k \in 1 .. Len(msgs) : msgs[k].id \in ListIds => Usable(msgs[k].list)

(* Engine->Lock: one client at a time waits for a reply, and what it waits  *)
(* for is in one place only: the queue, the edit under way, or the replies. *)
Waiting(c) == client[c].pc \in {"postSync", "wait"}
Asks(c, id, l) == Waiting(c) /\ client[c].id = id /\ client[c].list = l
Silent == \A id \in SyncIds : replies[id] = <<>>
OneCaller ==
    /\ \A c, d \in Clients : Waiting(c) /\ Waiting(d) => c = d
    /\ \A c \in Clients : Waiting(c) => client[c].id \in SyncIds
QueuedAsked ==
    /\ \A j, k \in 1 .. Len(msgs) :
          msgs[j].id \in SyncIds /\ msgs[k].id \in SyncIds => j = k
    /\ \A k \in 1 .. Len(msgs) : msgs[k].id \in SyncIds =>
          /\ Silent /\ pc # "swap"
          /\ \E c \in Clients : Asks(c, msgs[k].id, msgs[k].list)
SwapAsked == pc = "swap" =>
    /\ Silent
    /\ \E c \in Clients : Asks(c, "Modify", swap.list)
ReplyAsked == \A id \in SyncIds : replies[id] # <<>> =>
    /\ Len(replies[id]) = 1
    /\ \E c \in Clients : Waiting(c) /\ client[c].id = id

(* One client at most destroys a list, and the list exists while it waits.  *)
Destroys ==
    /\ \A c \in Clients : client[c].pc = "destroy" => client[c].list \in alive
    /\ \A c, d \in Clients :
          client[c].pc = "destroy" /\ client[d].pc = "destroy"
             /\ client[c].list = client[d].list => c = d

(* Until SeModifySegmentList returns nobody else uses its list, and the     *)
(* engine runs it only if the reply says so.                                *)
EditApart == \A c \in Clients : Waiting(c) /\ client[c].id = "Modify" =>
    /\ Usable(client[c].list)
    /\ \A k \in 1 .. Len(msgs) : msgs[k].id \in StartIds => msgs[k].list # client[c].list
    /\ state = "Running" /\ pc # "callback" /\ active = client[c].list
          => replies["Modify"] = <<"Success">>

(* A list at its end has its StopInternal queued: whether that can be       *)
(* received follows from Posts.                                             *)
EndQueued == (state = "Running" /\ pc = "dequeue" /\ ~InRange) => StopQueued

Control ==
    /\ Posts /\ Threads /\ Position /\ EndQueued /\ ExecutesInRange
    /\ RunningListLocked /\ QueuedListsUsable
    /\ OneCaller /\ QueuedAsked /\ SwapAsked /\ ReplyAsked /\ Destroys /\ EditApart
IInv == TypeOK /\ Control

-----------------------------------------------------------------------------
(* Sequences, as the queue uses them: what Append and Tail leave where.     *)
LEMMA Appended ==
    ASSUME NEW S, NEW q \in Seq(S), NEW m \in S
    PROVE  /\ Append(q, m) \in Seq(S)
           /\ Len(Append(q, m)) = Len(q) + 1
           /\ \A k \in 1 .. Len(q) : Append(q, m)[k] = q[k]
           /\ Append(q, m)[Len(q) + 1] = m
  OBVIOUS

(* ... and what is left when the first element is taken.                    *)
LEMMA Shortened ==
    ASSUME NEW S, NEW q \in Seq(S), Len(q) > 0
    PROVE  /\ Head(q) \in S /\ Head(q) = q[1]
           /\ Tail(q) \in Seq(S)
           /\ Len(Tail(q)) = Len(q) - 1
           /\ \A k \in 1 .. Len(q) - 1 : Tail(q)[k] = q[k + 1]
  OBVIOUS

(* The lists: lengths and segments.                                         *)
LEMMA ListFacts ==
    ASSUME NEW l \in Lists
    PROVE  /\ Total(l) \in Nat \ {0}
           /\ \A i \in Indices(l) : Seg(l, i) \in Segment
  BY SegmentsAssumption, ListsAssumption DEF ListValid, Total, Indices, Seg

(* The number of posts that are missing.                                    *)
LEMMA UnpostedFacts ==
    /\ IsFiniteSet(Unposted)
    /\ Cardinality(Unposted) \in Nat
    /\ Unposted = {} => Cardinality(Unposted) = 0
    /\ Cardinality(Unposted) = 0 => Unposted = {}
<1>1. Unposted \subseteq Clients
  BY DEF Unposted
<1>2. IsFiniteSet(Unposted)
  BY <1>1, ClientsAssumption, FS_Subset
<1>. QED
  BY <1>2, FS_CardinalityType, FS_EmptySet

(* A message that can be received is there.                                 *)
LEMMA Received ==
    ASSUME TypeOK, Posts, sem > 0
    PROVE  /\ Len(msgs) > 0 /\ Head(msgs) = msgs[1] /\ Head(msgs) \in Message
           /\ Tail(msgs) \in Seq(Message)
           /\ Len(Tail(msgs)) = Len(msgs) - 1
           /\ \A k \in 1 .. Len(msgs) - 1 : Tail(msgs)[k] = msgs[k + 1]
           /\ sem - 1 \in Nat
<1>1. Len(msgs) > 0
  BY UnpostedFacts DEF Posts, TypeOK
<1>. QED
  BY <1>1, Shortened DEF TypeOK

-----------------------------------------------------------------------------
(* Type correctness.                                                        *)
LEMMA TypingInit == Init => TypeOK
<1>. SUFFICES ASSUME Init PROVE TypeOK
  OBVIOUS
<1>1. \A l \in Lists : ext[l] \in [Indices(l) -> Extension]
  BY DEF Init, NoExtension, Extension
<1>2. ext = [l \in Lists |-> ext[l]]
  BY DEF Init
<1>3. client \in [Clients -> [pc : ClientPc, id : MessageIds, list : Lists \cup {Null}]]
  BY DEF Init, IdleClient, ClientPc, MessageIds, AsyncIds
<1>4. msgs \in Seq(Message) /\ replies \in [SyncIds -> Seq(ReplyStatus)]
  BY DEF Init
<1>. QED
  BY <1>1, <1>2, <1>3, <1>4 DEF Init, TypeOK, EnginePc, EngineState, EngineRunStatus,
     SegmentStatus, Notification, Fault

(* What the pure steps of SegmentLists return.                              *)
LEMMA ExtensionTypes ==
    ASSUME NEW l \in Lists, NEW e \in [Indices(l) -> Extension]
    PROVE  /\ SetupAllSegments(l, e) \in [Indices(l) -> Extension]
           /\ CleanupAllSegments(l, e) \in [Indices(l) -> Extension]
           /\ \A i \in Indices(l) : RepeatExtension(Seg(l, i), e[i]) \in Extension
           /\ \A m \in Lists : RemainingExtensions(l, e, m) \in [Indices(l) -> Extension]
<1>1. NoExtension \in Extension /\ NewExtension \in Extension
  BY DEF NoExtension, NewExtension, Extension
<1>2. \A x \in Extension : Freed(x) \in Extension /\ Rearm(x) \in Extension
  BY DEF Freed, Rearm, NoExtension, Extension
<1>3. SetupAllSegments(l, e) \in [Indices(l) -> Extension]
  BY <1>1 DEF SetupAllSegments
<1>4. CleanupAllSegments(l, e) \in [Indices(l) -> Extension]
  BY <1>2 DEF CleanupAllSegments
<1>5. \A i \in Indices(l) : RepeatExtension(Seg(l, i), e[i]) \in Extension
  <2>1. ASSUME NEW x \in Extension
        PROVE  /\ [x EXCEPT !.count = x.count + 1] \in Extension
               /\ [x EXCEPT !.complete = TRUE] \in Extension
    <3>1. x.count + 1 \in Nat
      BY DEF Extension
    <3>2. \A n \in Nat : [x EXCEPT !.count = n] \in Extension
      BY DEF Extension
    <3>3. [x EXCEPT !.complete = TRUE] \in Extension
      BY DEF Extension
    <3>. QED
      BY <3>1, <3>2, <3>3
  <2>2. ASSUME NEW i \in Indices(l)
        PROVE  RepeatExtension(Seg(l, i), e[i]) \in Extension
    <3>1. Rearm(e[i]) \in Extension
      BY <1>2
    <3>. QED
      BY <3>1, <2>1, Zenon DEF RepeatExtension
  <2>. QED
    BY <2>2
<1>6. \A m \in Lists : RemainingExtensions(l, e, m) \in [Indices(l) -> Extension]
  BY <1>1, <1>2 DEF RemainingExtensions
<1>. QED
  BY <1>3, <1>4, <1>5, <1>6

(* An edit gives every segment of the new list a proper extension.          *)
LEMMA ImportTypes ==
    ASSUME NEW old \in Lists, NEW oldExt \in [Indices(old) -> Extension],
           NEW new \in Lists, NEW newExt \in [Indices(new) -> Extension]
    PROVE  ImportedExtensions(old, oldExt, new, newExt) \in [Indices(new) -> Extension]
<1>. DEFINE moved(j) == {i \in SameTag(new, j, old) : oldExt[i].mem # "null"}
<1>1. ASSUME NEW j \in Indices(new), moved(j) # {}
      PROVE  oldExt[CHOOSE i \in moved(j) : TRUE] \in Extension
  BY <1>1 DEF SameTag
<1>2. NewExtension \in Extension
  BY DEF NewExtension, Extension
<1>. QED
  BY <1>1, <1>2 DEF ImportedExtensions

(* Updates of the two per-list maps keep their types.                       *)
ExtensionsTyped(e) ==
    /\ e = [l \in Lists |-> e[l]]
    /\ \A l \in Lists : e[l] \in [Indices(l) -> Extension]

LEMMA ExtensionUpdate ==
    ASSUME TypeOK, NEW l \in Lists, NEW x \in [Indices(l) -> Extension]
    PROVE  ExtensionsTyped([ext EXCEPT ![l] = x])
  BY DEF TypeOK, ExtensionsTyped

LEMMA UnchainTyped ==
    ASSUME TypeOK, NEW l \in Lists, NEW i
    PROVE  Unchain(l, i) \in [Lists -> SUBSET Nat]
  BY DEF TypeOK, Unchain

LEMMA QueueTyped ==
    ASSUME TypeOK, NEW m \in Message, NEW posted \in BOOLEAN, MqQueueMessage(m, posted)
    PROVE  msgs' \in Seq(Message) /\ sem' \in Nat
  BY Appended DEF TypeOK, MqQueueMessage

(* Facts about a state that satisfies the invariant, used by every action.  *)
LEMMA ActiveFacts ==
    ASSUME IInv
    PROVE  /\ state = "Running" => active \in Lists
           /\ Executing => curIndex[active] \in Nat
           /\ pc = "status" => state = "Running" /\ InRange
           /\ pc = "swap" => swap.list \in Lists /\ swap.index \in Nat
           /\ \A k \in 1 .. Len(msgs) : msgs[k].id \in ListIds => msgs[k].list \in Lists
  BY DEF IInv, Control, TypeOK, Threads, Position, QueuedListsUsable, Usable

(* The two ways a segment can be over, and the end of a list.               *)
LEMMA FinishedTyped ==
    ASSUME TypeOK, NEW status \in EngineRunStatus, ReturnFinished(status)
    PROVE  /\ msgs' \in Seq(Message) /\ sem' \in Nat
           /\ pc' \in EnginePc /\ pc' = "dequeue" /\ runStatus' \in EngineRunStatus
           /\ execNew' \in BOOLEAN /\ segStatus' \in SegmentStatus \cup {"none"}
           /\ startNew' \in BOOLEAN
<1>1. StopInternalMsg \in Message
  BY DEF StopInternalMsg, Msg, Message, MessageIds
<1>. QED
  BY <1>1, QueueTyped DEF TypeOK, ReturnFinished, EnginePc

LEMMA GoOnTyped ==
    ASSUME TypeOK, state = "Running", NEW i \in Nat, GoOn(i),
           attached' \in [Lists -> SUBSET Nat]
    PROVE  TypeOK'
<1>1. CASE i < Total(active)
  BY <1>1 DEF TypeOK, GoOn, queueVars, EnginePc
<1>2. CASE ~(i < Total(active))
  <2>1. ReturnFinished("End") /\ "End" \in EngineRunStatus
    BY <1>2 DEF GoOn, EngineRunStatus
  <2>. QED
    BY <2>1, FinishedTyped DEF TypeOK, GoOn
<1>. QED
  BY <1>1, <1>2

LEMMA EndListTyped ==
    ASSUME TypeOK, state = "Running", Dequeued, msgs' \in Seq(Message), sem' \in Nat,
           NEW callback \in Notification, EndList(callback)
    PROVE  TypeOK'
<1>1. ExtensionsTyped(ext')
  BY ExtensionTypes, ExtensionUpdate DEF TypeOK, EndList
<1>2. attached' \in [Lists -> SUBSET Nat]
  BY UnchainTyped DEF TypeOK, EndList, StopActiveSegment
<1>. QED
  BY <1>1, <1>2 DEF TypeOK, EndList, ExtensionsTyped, EnginePc, execVars

LEMMA BeginListTyped ==
    ASSUME TypeOK, NEW l \in Lists, BeginList(l)
    PROVE  /\ ExtensionsTyped(ext')
           /\ curIndex' \in [Lists -> Nat \cup {-1}]
           /\ inUse' \in SUBSET Lists /\ active' \in Lists
           /\ state' \in EngineState /\ startNew' \in BOOLEAN /\ begun' \in BOOLEAN
<1>1. ExtensionsTyped(ext')
  BY ExtensionTypes, ExtensionUpdate DEF TypeOK, BeginList
<1>. QED
  BY <1>1 DEF TypeOK, BeginList, EngineState

(* Every message the engine handles leaves the queue typed.                 *)
LEMMA DequeuedTyped ==
    ASSUME TypeOK, Posts, sem > 0, Dequeued
    PROVE  msgs' \in Seq(Message) /\ sem' \in Nat
  BY Received DEF Dequeued

(* A set of natural numbers that is not empty has a least element.          *)
LEMMA LeastElement ==
    ASSUME NEW T, T \subseteq Nat, T # {}
    PROVE  \E x \in T : \A y \in T : x <= y
<1>1. PICK x \in T : \A y \in T : ~ (<<y, x>> \in OpToRel(<, Nat))
  BY NatLessThanWellFounded, WFMin
<1>2. \A y \in T : ~ (y < x)
  BY <1>1 DEF OpToRel
<1>. QED
  BY <1>2

(* The list of the message that is received.                                *)
LEMMA HeadList ==
    ASSUME IInv, sem > 0, Head(msgs).id \in ListIds
    PROVE  Head(msgs).list \in Lists /\ Usable(Head(msgs).list)
<1>1. Head(msgs) = msgs[1] /\ 1 \in 1 .. Len(msgs)
  BY Received DEF IInv, Control
<1>. QED
  BY <1>1 DEF IInv, Control, TypeOK, QueuedListsUsable, Usable

(* The skip of a guarded segment goes forward, and no further than the end. *)
LEMMA AfterGuardedType ==
    ASSUME NEW l \in Lists, NEW i \in Nat
    PROVE  AfterGuarded(l, i) \in Nat
<1>. DEFINE guarded == {k \in Indices(l) : k > i /\ Seg(l, k).kind # "abort"}
            first == CHOOSE k \in guarded : \A j \in guarded : k <= j
<1>1. CASE guarded = {}
  BY <1>1, ListFacts DEF AfterGuarded
<1>2. CASE guarded # {}
  <2>1. guarded \subseteq Nat
    BY DEF Indices
  <2>2. \E k \in guarded : \A j \in guarded : k <= j
    BY <1>2, <2>1, LeastElement
  <2>3. first \in guarded
    BY <2>2
  <2>. QED
    BY <1>2, <2>1, <2>3 DEF AfterGuarded
<1>. QED
  BY <1>1, <1>2


(* Every step of the engine thread keeps the types ...                      *)
LEMMA TypingEngine ==
    ASSUME IInv, EngineStep
    PROVE  TypeOK'
<1>. USE DEF TypeOK, Message, Msg, MessageIds, SyncIds, AsyncIds, ClientPc, EnginePc,
     EngineState, EngineRunStatus, Notification, Fault, SegmentStatus, ReplyStatus
<1>. TypeOK /\ Posts
  BY DEF IInv, Control
<1>1. CASE StartIdle
  <2>1. Head(msgs).list \in Lists
    BY <1>1, HeadList DEF StartIdle, Receive, ListIds, StartIds
  <2>2. /\ Dequeued /\ sem > 0 /\ BeginList(Head(msgs).list)
        /\ CompleteSyncMessage("Start", "Success")
    BY <1>1 DEF StartIdle, Receive
  <2>. QED
    BY <1>1, <2>1, <2>2, BeginListTyped, DequeuedTyped
       DEF StartIdle, CompleteSyncMessage, ExtensionsTyped, execVars
<1>2. CASE StartRunning
  BY <1>2, ActiveFacts, Received DEF StartRunning, Receive, Dequeued, CompleteSyncMessage,
     listVars, execVars
<1>3. CASE StartInternalIdle
  <2>1. Head(msgs).list \in Lists
    BY <1>3, HeadList DEF StartInternalIdle, Receive, ListIds, StartIds
  <2>2. Dequeued /\ sem > 0 /\ BeginList(Head(msgs).list)
    BY <1>3 DEF StartInternalIdle, Receive
  <2>. QED
    BY <1>3, <2>1, <2>2, BeginListTyped, DequeuedTyped
       DEF StartInternalIdle, ExtensionsTyped, execVars
<1>4. CASE StartInternalRunning
  BY <1>4, ActiveFacts, Received DEF StartInternalRunning, Receive, Dequeued, listVars, execVars
<1>5. CASE StopRunning
  BY <1>5, DequeuedTyped, EndListTyped DEF StopRunning, Receive
<1>6. CASE StopInternalRunning
  <2>1. PICK callback \in Notification : EndList(callback)
    BY <1>6 DEF StopInternalRunning
  <2>. QED
    BY <1>6, <2>1, DequeuedTyped, EndListTyped DEF StopInternalRunning, Receive
<1>7. CASE TerminateRunning
  BY <1>7, DequeuedTyped, EndListTyped DEF TerminateRunning, Receive
<1>8. CASE StopIdle
  BY <1>8, ActiveFacts, Received DEF StopIdle, Receive, Dequeued, listVars, execVars
<1>9. CASE ModifyOutOfRange
  BY <1>9, ActiveFacts DEF ModifyOutOfRange, queueVars, listVars, execVars
<1>10. CASE ModifyDeleted
  BY <1>10, ActiveFacts, Received DEF ModifyDeleted, Receive, Dequeued, CompleteSyncMessage,
     listVars, execVars
<1>11. CASE ModifyImport
  <2>. DEFINE new == Head(msgs).list
  <2>1. /\ sem > 0 /\ Dequeued /\ active \in Lists /\ state = "Running"
        /\ new \in Lists
    BY <1>11, HeadList, ActiveFacts DEF ModifyImport, Receive, ListIds, StartIds
  <2>2. swap' \in [list : Lists \cup {Null}, index : Nat] /\ swap'.list = new
    BY <1>11, <2>1 DEF ModifyImport, SameTag, Indices
  <2>3. /\ ImportedExtensions(active, ext[active], new, ext[new]) \in [Indices(new) -> Extension]
        /\ RemainingExtensions(active, ext[active], new) \in [Indices(active) -> Extension]
    BY <2>1, ImportTypes, ExtensionTypes
  <2>4. ExtensionsTyped(ext')
    <3>. DEFINE x == ImportedExtensions(active, ext[active], new, ext[new])
                e1 == [ext EXCEPT ![new] = x]
    <3>1. ExtensionsTyped(e1)
      BY <2>1, <2>3, ExtensionUpdate
    <3>2. ext' = [e1 EXCEPT ![active] = RemainingExtensions(active, ext[active], new)]
      BY <1>11 DEF ModifyImport
    <3>. QED
      BY <2>1, <2>3, <3>1, <3>2 DEF ExtensionsTyped
  <2>. QED
    BY <1>11, <2>1, <2>2, <2>4, DequeuedTyped DEF ModifyImport, ExtensionsTyped, execVars
<1>12. CASE ModifyIdle
  BY <1>12, ActiveFacts, Received DEF ModifyIdle, Receive, Dequeued, CompleteSyncMessage,
     listVars, execVars
<1>13. CASE GotoRunning
  <2>1. sem > 0 /\ active \in Lists /\ state = "Running"
    BY <1>13, ActiveFacts DEF GotoRunning, Receive
  <2>2. attached' \in [Lists -> SUBSET Nat]
    BY <1>13, <2>1, UnchainTyped DEF GotoRunning, StopActiveSegment
  <2>3. msgs' \in Seq(Message) /\ sem' \in Nat
    <3>1. StopInternalMsg \in Message
      BY DEF StopInternalMsg
    <3>2. CASE Dequeued
      BY <2>1, <3>2, DequeuedTyped
    <3>3. CASE DequeuedAndQueued(StopInternalMsg)
      BY <2>1, <3>1, <3>3, Received, Appended DEF DequeuedAndQueued
    <3>. QED
      BY <1>13, <3>2, <3>3 DEF GotoRunning
  <2>4. curIndex' \in [Lists -> Nat \cup {-1}]
    BY <1>13, <2>1 DEF GotoRunning, InRange, Indices
  <2>5. runStatus' \in EngineRunStatus /\ startNew' \in BOOLEAN /\ begun' \in BOOLEAN
    BY <1>13 DEF GotoRunning
  <2>6. replies' \in [SyncIds -> Seq(ReplyStatus)]
    BY <1>13 DEF GotoRunning, CompleteSyncMessage
  <2>. QED
    BY <1>13, <2>2, <2>3, <2>4, <2>5, <2>6 DEF GotoRunning, CompleteSyncMessage, execVars
<1>14. CASE GotoIdle
  BY <1>14, ActiveFacts, Received DEF GotoIdle, Receive, Dequeued, CompleteSyncMessage,
     listVars, execVars
<1>15. CASE TimeoutRunning
  BY <1>15, ActiveFacts DEF TimeoutRunning, queueVars, listVars
<1>16. CASE ExecuteOutOfRange
  BY <1>16, ActiveFacts DEF ExecuteOutOfRange, queueVars, listVars, execVars
<1>17. CASE StartSegment
  BY <1>17, ActiveFacts DEF StartSegment, StartResults, queueVars, listVars
<1>18. CASE StartRepeat
  <2>. DEFINE i == curIndex[active]
              x == [ext[active] EXCEPT ![i] = RepeatExtension(Current, ext[active][i])]
  <2>1. active \in Lists /\ state = "Running" /\ i \in Indices(active)
    BY <1>18, ActiveFacts DEF StartRepeat, InRange, IInv, Control, Threads
  <2>2. RepeatExtension(Current, ext[active][i]) \in Extension
    BY <2>1, ExtensionTypes DEF Current
  <2>3. x \in [Indices(active) -> Extension]
    BY <2>1, <2>2
  <2>4. ExtensionsTyped(ext')
    BY <1>18, <2>1, <2>3, ExtensionUpdate DEF StartRepeat
  <2>. QED
    BY <1>18, <2>4 DEF StartRepeat, RepeatStatus, ExtensionsTyped, queueVars
<1>19. CASE StartRepeatNoExtension
  BY <1>19, ActiveFacts DEF StartRepeatNoExtension, queueVars, listVars, execVars
<1>20. CASE RunSegment
  BY <1>20, ActiveFacts DEF RunSegment, RunResults, queueVars, listVars
<1>21. CASE AbortSegment
  BY <1>21, ActiveFacts DEF AbortSegment, queueVars, listVars
<1>22. CASE ExecuteError
  BY <1>22, ActiveFacts DEF ExecuteError, ReturnFinished, MqQueueMessage, StopInternalMsg,
     listVars
<1>23. CASE OnSuccess
  <2>1. curIndex[active] + 1 \in Nat
    BY <1>23, ActiveFacts DEF OnSuccess, InRange, Indices
  <2>. QED
    BY <1>23, <2>1, ActiveFacts, UnchainTyped, GoOnTyped DEF OnSuccess
<1>24. CASE OnContinue
  BY <1>24, ActiveFacts DEF OnContinue, ReturnContinue, queueVars, listVars
<1>25. CASE OnIndexModified
  <2>1. Current.index \in Nat
    BY <1>25, ActiveFacts, ListFacts DEF OnIndexModified, InRange, Current, Segment
  <2>. QED
    BY <1>25, <2>1, ActiveFacts, UnchainTyped, GoOnTyped DEF OnIndexModified
<1>26. CASE OnAbortSkip
  <2>1. AfterGuarded(active, curIndex[active]) \in Nat
    BY <1>26, ActiveFacts, AfterGuardedType DEF OnAbortSkip, InRange, Indices
  <2>. QED
    BY <1>26, <2>1, ActiveFacts, UnchainTyped, GoOnTyped DEF OnAbortSkip
<1>27. CASE OnAbortAttach
  <2>1. curIndex[active] + 1 \in Nat /\ active \in Lists /\ state = "Running"
    BY <1>27, ActiveFacts DEF OnAbortAttach, InRange, Indices
  <2>2. attached' \in [Lists -> SUBSET Nat]
    BY <1>27, <2>1 DEF OnAbortAttach
  <2>. QED
    BY <1>27, <2>1, <2>2, GoOnTyped DEF OnAbortAttach
<1>28. CASE OnError
  <2>1. ReturnFinished("Terminate") /\ attached' \in [Lists -> SUBSET Nat]
    BY <1>28, ActiveFacts, UnchainTyped DEF OnError
  <2>. QED
    BY <1>28, <2>1, FinishedTyped DEF OnError
<1>29. CASE ModifySwap
  BY <1>29, ActiveFacts DEF ModifySwap, CompleteSyncMessage, queueVars, execVars
<1>30. CASE ModifySwapFreed
  BY <1>30, ActiveFacts DEF ModifySwapFreed, queueVars, listVars, execVars
<1>31. CASE Callback
  BY <1>31, ActiveFacts DEF Callback, BecomeIdle, queueVars, listVars, execVars
<1>32. ASSUME NEW l \in Lists, CallbackStarts(l)
       PROVE  TypeOK'
  <2>1. Msg("StartInternal", l) \in Message
    OBVIOUS
  <2>2. msgs' \in Seq(Message) /\ sem' \in Nat
    BY <1>32, <2>1, QueueTyped DEF CallbackStarts
  <2>. QED
    BY <1>32, <2>2 DEF CallbackStarts, BecomeIdle, listVars, execVars
<1>. QED
  BY <1>1, <1>2, <1>3, <1>4, <1>5, <1>6, <1>7, <1>8, <1>9, <1>10, <1>11, <1>12, <1>13, <1>14,
     <1>15, <1>16, <1>17, <1>18, <1>19, <1>20, <1>21, <1>22, <1>23, <1>24, <1>25, <1>26, <1>27,
     <1>28, <1>29, <1>30, <1>31, <1>32 DEF EngineStep, HandleMessage, ExecuteSegments

(* What a client's call does to the queue and to the client.                *)
LEMMA SendTyped ==
    ASSUME TypeOK, NEW c \in Clients, NEW id \in SyncIds \cup AsyncIds,
           NEW l \in Lists \cup {Null}, Send(c, id, l)
    PROVE  /\ msgs' \in Seq(Message) /\ sem' \in Nat
           /\ client' \in [Clients -> [pc : ClientPc, id : MessageIds, list : Lists \cup {Null}]]
<1>1. Msg(id, l) \in Message
  BY DEF Msg, Message, MessageIds
<1>2. (c \notin Preempt) \in BOOLEAN
  OBVIOUS
<1>. QED
  BY <1>1, <1>2, QueueTyped DEF Send, TypeOK, ClientPc, MessageIds

(* ... and so does every step of a client.                                  *)
LEMMA TypingClient ==
    ASSUME IInv, NEW c \in Clients, ClientCall(c) \/ ClientFinish(c)
    PROVE  TypeOK'
<1>. TypeOK
  BY DEF IInv
<1>1. \A l \in Lists : [i \in Indices(l) |-> NoExtension] \in [Indices(l) -> Extension]
  BY DEF NoExtension, Extension
<1>2. ASSUME NEW l \in Lists, SeCreateSegmentList(c, l)
      PROVE  TypeOK'
  <2>1. ExtensionsTyped(ext')
    BY <1>1, <1>2, ExtensionUpdate DEF SeCreateSegmentList
  <2>. QED
    BY <1>2, <2>1 DEF TypeOK, SeCreateSegmentList, NewList, ExtensionsTyped, queueVars, execVars
<1>3. ASSUME NEW l \in Lists, SeStartSegmentList(c, l)
      PROVE  TypeOK'
  BY <1>3, SendTyped DEF TypeOK, SeStartSegmentList, Send, SyncIds, execVars
<1>4. ASSUME NEW l \in Lists, SeModifySegmentList(c, l)
      PROVE  TypeOK'
  <2>1. ExtensionsTyped(ext')
    BY <1>1, <1>4, ExtensionUpdate DEF SeModifySegmentList
  <2>2. msgs' \in Seq(Message) /\ sem' \in Nat
    BY <1>4, QueueTyped DEF SeModifySegmentList, Msg, Message, MessageIds, SyncIds
  <2>3. client' \in [Clients -> [pc : ClientPc, id : MessageIds, list : Lists \cup {Null}]]
    BY <1>4 DEF TypeOK, SeModifySegmentList, ClientPc, MessageIds, SyncIds
  <2>. QED
    BY <1>4, <2>1, <2>2, <2>3 DEF TypeOK, SeModifySegmentList, NewList, ExtensionsTyped, execVars
<1>5. ASSUME SeGotoNextSegment(c)
      PROVE  TypeOK'
  BY <1>5, SendTyped DEF TypeOK, SeGotoNextSegment, Send, SyncIds, execVars
<1>6. ASSUME SeStopSegmentList(c) \/ SeTerminateSegmentList(c)
      PROVE  TypeOK'
  BY <1>6, SendTyped DEF TypeOK, SeStopSegmentList, SeTerminateSegmentList, Send, AsyncIds,
     execVars
<1>7. ASSUME NEW l \in Lists, SeDestroySegmentList(c, l)
      PROVE  TypeOK'
  BY <1>7 DEF TypeOK, SeDestroySegmentList, ClientPc, MessageIds, AsyncIds, queueVars, listVars,
     execVars
<1>8. ASSUME Post(c)
      PROVE  TypeOK'
  <2>1. client' \in [Clients -> [pc : ClientPc, id : MessageIds, list : Lists \cup {Null}]]
    <3>1. \A r \in [pc : ClientPc, id : MessageIds, list : Lists \cup {Null}] :
             [r EXCEPT !.pc = "wait"] \in [pc : ClientPc, id : MessageIds, list : Lists \cup {Null}]
      BY DEF ClientPc
    <3>2. IdleClient \in [pc : ClientPc, id : MessageIds, list : Lists \cup {Null}]
      BY DEF IdleClient, ClientPc, MessageIds, AsyncIds
    <3>. QED
      BY <1>8, <3>1, <3>2 DEF TypeOK, Post
  <2>. QED
    BY <1>8, <2>1 DEF TypeOK, Post, listVars, execVars
<1>9. ASSUME Return(c)
      PROVE  TypeOK'
  <2>1. replies' \in [SyncIds -> Seq(ReplyStatus)]
    <3>1. \A q \in Seq(ReplyStatus) : q # <<>> => Tail(q) \in Seq(ReplyStatus)
      OBVIOUS
    <3>. QED
      BY <1>9, <3>1 DEF TypeOK, Return
  <2>2. client' \in [Clients -> [pc : ClientPc, id : MessageIds, list : Lists \cup {Null}]]
    BY <1>9 DEF TypeOK, Return, IdleClient, ClientPc, MessageIds, AsyncIds
  <2>. QED
    BY <1>9, <2>1, <2>2 DEF TypeOK, Return, queueVars, execVars
<1>10. ASSUME DestroySegmentList(c)
       PROVE  TypeOK'
  BY <1>10 DEF TypeOK, DestroySegmentList, IdleClient, ClientPc, MessageIds, AsyncIds,
     queueVars, execVars
<1>. QED
  BY <1>2, <1>3, <1>4, <1>5, <1>6, <1>7, <1>8, <1>9, <1>10 DEF ClientCall, ClientFinish

-----------------------------------------------------------------------------
(* Control, the part of the invariant about the queue, the locks and the    *)
(* position in the list, depends on these variables only.                   *)
controlVars == <<msgs, sem, client, replies, pc, state, active, swap, alive, inUse, curIndex>>

LEMMA ControlFrame ==
    ASSUME Control, UNCHANGED controlVars
    PROVE  Control'
<1>. USE DEF Control, controlVars
<1>1. Posts' /\ Threads' /\ Position'
  BY DEF Posts, Unposted, Threads, Position, Executing, InRange
<1>2. EndQueued' /\ ExecutesInRange' /\ RunningListLocked'
  BY DEF EndQueued, StopQueued, ExecutesInRange, RunningListLocked, InRange
<1>3. QueuedListsUsable' /\ Destroys' /\ EditApart'
  BY DEF QueuedListsUsable, Destroys, EditApart, Usable, Destroying, Waiting
<1>4. OneCaller' /\ QueuedAsked' /\ SwapAsked' /\ ReplyAsked'
  BY DEF OneCaller, QueuedAsked, SwapAsked, ReplyAsked, Silent, Asks, Waiting
<1>. QED
  BY <1>1, <1>2, <1>3, <1>4

(* The initial state: nothing queued, nobody waiting, nothing running.      *)
LEMMA ControlInit == Init => Control
<1>. SUFFICES ASSUME Init PROVE Control
  OBVIOUS
<1>. USE DEF Init, IdleClient
<1>1. Posts
  <2>1. Unposted = {}
    BY DEF Unposted
  <2>. QED
    BY <2>1, UnpostedFacts DEF Posts
<1>2. Threads /\ Position /\ EndQueued /\ ExecutesInRange /\ RunningListLocked
  BY DEF Threads, Position, Executing, EndQueued, ExecutesInRange, RunningListLocked
<1>3. QueuedListsUsable /\ Destroys /\ EditApart
  BY DEF QueuedListsUsable, Destroys, EditApart, Waiting
<1>4. OneCaller /\ QueuedAsked /\ SwapAsked /\ ReplyAsked
  BY DEF OneCaller, QueuedAsked, SwapAsked, ReplyAsked, Waiting
<1>. QED
  BY <1>1, <1>2, <1>3, <1>4 DEF Control

(* No step of the engine thread touches a client or frees a list.           *)
Ours == UNCHANGED <<client, alive>>
LEMMA OursFrame ==
    ASSUME Control, Ours
    PROVE  /\ OneCaller' /\ Destroys' /\ Unposted' = Unposted
           /\ \A l : Usable(l)' <=> Usable(l)
           /\ \A c, id, l : Asks(c, id, l)' <=> Asks(c, id, l)
           /\ \A c : Waiting(c)' <=> Waiting(c)
  BY DEF Control, Ours, OneCaller, Destroys, Unposted, Usable, Destroying, Asks, Waiting

(* What the engine does to the queue: it keeps it, it queues a StopInternal *)
(* to itself, or it takes the first message and may queue one.              *)
Grown == \A k \in 1 .. Len(msgs') :
    msgs'[k] = StopInternalMsg \/ (k \in 1 .. Len(msgs) /\ msgs'[k] = msgs[k])
Moved == \A k \in 1 .. Len(msgs') :
    msgs'[k] = StopInternalMsg \/ (k + 1 \in 1 .. Len(msgs) /\ msgs'[k] = msgs[k + 1])

(* The edit in progress: the part of EditApart that is about the queue.     *)
EditNotQueued == \A c \in Clients : Waiting(c) /\ client[c].id = "Modify" =>
    /\ Usable(client[c].list)
    /\ \A k \in 1 .. Len(msgs) : msgs[k].id \in StartIds => msgs[k].list # client[c].list
EditNotRun == \A c \in Clients : Waiting(c) /\ client[c].id = "Modify" =>
    (state = "Running" /\ pc # "callback" /\ active = client[c].list
        => replies["Modify"] = <<"Success">>)

(* In either case a message in the queue was there before, or is a          *)
(* StopInternal: the lists in the queue stay usable, and the edit's list is *)
(* still not queued for anything else.                                      *)
Kept == \A k \in 1 .. Len(msgs') :
    msgs'[k] = StopInternalMsg \/ (\E j \in 1 .. Len(msgs) : msgs'[k] = msgs[j])
LEMMA QueueKept ==
    ASSUME TypeOK, Control, Ours, Grown \/ Moved
    PROVE  QueuedListsUsable' /\ EditNotQueued'
<1>. USE OursFrame DEF Control, StopInternalMsg, Msg
<1>1. Kept
  BY DEF Kept, Grown, Moved
<1>2. QueuedListsUsable'
  BY <1>1 DEF QueuedListsUsable, Kept, ListIds, StartIds
<1>3. EditNotQueued'
  BY <1>1 DEF EditApart, EditNotQueued, Kept, Ours, StartIds
<1>. QED
  BY <1>2, <1>3

(* Nothing is answered, and the queue only gains a StopInternal.            *)
LEMMA EngineGrows ==
    ASSUME TypeOK, Control, Ours, Grown, UNCHANGED replies, pc' # "swap"
    PROVE  /\ QueuedListsUsable' /\ QueuedAsked' /\ SwapAsked' /\ ReplyAsked'
           /\ EditNotQueued'
<1>1. QueuedAsked' /\ SwapAsked' /\ ReplyAsked'
  BY OursFrame DEF Control, StopInternalMsg, Msg, QueuedAsked, SwapAsked, ReplyAsked, Silent,
     Grown, SyncIds, Ours
<1>. QED
  BY <1>1, QueueKept

(* A message that asks for no reply is taken.                               *)
LEMMA EngineTakes ==
    ASSUME TypeOK, Control, Ours, Moved, UNCHANGED replies, pc' # "swap"
    PROVE  /\ QueuedListsUsable' /\ QueuedAsked' /\ SwapAsked' /\ ReplyAsked'
           /\ EditNotQueued'
<1>. USE OursFrame DEF Control, StopInternalMsg, Msg
<1>1. \A k \in 1 .. Len(msgs') : msgs'[k].id \in SyncIds =>
         k + 1 \in 1 .. Len(msgs) /\ msgs'[k] = msgs[k + 1]
  BY DEF Moved, SyncIds
<1>2. \A j, k \in 1 .. Len(msgs') :
         msgs'[j].id \in SyncIds /\ msgs'[k].id \in SyncIds => j = k
  BY <1>1 DEF QueuedAsked
<1>3. \A k \in 1 .. Len(msgs') : msgs'[k].id \in SyncIds =>
         /\ Silent' /\ pc' # "swap"
         /\ \E c \in Clients : Asks(c, msgs'[k].id, msgs'[k].list)
  BY <1>1 DEF QueuedAsked, Silent
<1>4. QueuedAsked'
  BY <1>2, <1>3 DEF QueuedAsked, Asks, Waiting, Ours
<1>5. SwapAsked' /\ ReplyAsked'
  BY DEF SwapAsked, ReplyAsked, Ours
<1>. QED
  BY <1>4, <1>5, QueueKept

(* A synchronous message is taken and answered.                             *)
LEMMA EngineAnswers ==
    ASSUME TypeOK, Control, Ours, Moved, NEW id \in SyncIds, NEW status \in ReplyStatus,
           Receive(id), CompleteSyncMessage(id, status), pc' # "swap"
    PROVE  /\ QueuedListsUsable' /\ QueuedAsked' /\ SwapAsked' /\ ReplyAsked'
           /\ EditNotQueued'
           /\ \E c \in Clients : Asks(c, id, Head(msgs).list)
           /\ Silent
<1>. USE OursFrame DEF Control, StopInternalMsg, Msg
<1>1. /\ Len(msgs) > 0 /\ Head(msgs) = msgs[1] /\ 1 \in 1 .. Len(msgs) /\ msgs[1].id = id
  BY Received DEF Receive
<1>2. Silent /\ \E c \in Clients : Asks(c, id, msgs[1].list)
  BY <1>1 DEF QueuedAsked
<1>3. \A k \in 1 .. Len(msgs') : msgs'[k].id \notin SyncIds
  BY <1>1 DEF Moved, QueuedAsked, SyncIds
<1>4. QueuedAsked'
  BY <1>3 DEF QueuedAsked
<1>5. SwapAsked'
  BY DEF SwapAsked
<1>6. ReplyAsked'
  <2>1. PICK c \in Clients : Waiting(c) /\ client[c].id = id
    BY <1>2 DEF Asks
  <2>2. replies'[id] = <<status>> /\ \A x \in SyncIds \ {id} : replies'[x] = <<>>
    <3>1. Append(<<>>, status) = <<status>>
      OBVIOUS
    <3>. QED
      BY <1>2, <3>1 DEF Silent, CompleteSyncMessage, TypeOK
  <2>. QED
    <3>1. Len(<<status>>) = 1
      OBVIOUS
    <3>. QED
      BY <2>1, <2>2, <3>1 DEF ReplyAsked, Ours, Waiting
<1>. QED
  BY <1>1, <1>2, <1>4, <1>5, <1>6, QueueKept

LEMMA ControlFromParts ==
    ASSUME Posts', Threads', Position', EndQueued', ExecutesInRange', RunningListLocked',
           QueuedListsUsable', OneCaller', QueuedAsked', SwapAsked', ReplyAsked', Destroys',
           EditNotQueued', EditNotRun'
    PROVE  Control'
  BY DEF Control, EditApart, EditNotQueued, EditNotRun

(* The edit is not run: the engine stays with its list, or it starts one    *)
(* for which another client waits, or it is not running.                    *)
LEMMA EditNotRunFrame ==
    ASSUME Control, Ours, UNCHANGED <<replies, active>>, pc # "callback", state = "Running"
    PROVE  EditNotRun'
  BY DEF Control, Ours, EditApart, EditNotRun, Waiting
(* ... or a list another client is answered for ...                         *)
LEMMA EditNotRunOther ==
    ASSUME Control, Ours, NEW c \in Clients, Waiting(c), client[c].id # "Modify"
    PROVE  EditNotRun'
  BY DEF Control, Ours, OneCaller, EditNotRun, Waiting
(* ... or none at all.                                                      *)
LEMMA EditNotRunStopped ==
    ASSUME state' # "Running" \/ pc' = "callback"
    PROVE  EditNotRun'
  BY DEF EditNotRun

(* The counting of posts.                                                   *)
LEMMA PostsQuiet ==
    ASSUME TypeOK, Control, Ours, UNCHANGED queueVars
    PROVE  Posts' /\ Grown
  BY OursFrame DEF Control, Posts, queueVars, Grown
(* ... with a StopInternal more ...                                         *)
LEMMA PostsQueued ==
    ASSUME TypeOK, Control, Ours, MqQueueMessage(StopInternalMsg, TRUE)
    PROVE  Posts' /\ Grown /\ StopQueued'
<1>1. StopInternalMsg \in Message
  BY DEF StopInternalMsg, Msg, Message, MessageIds
<1>2. /\ msgs' = Append(msgs, StopInternalMsg) /\ sem' = sem + 1
      /\ Len(msgs') = Len(msgs) + 1 /\ msgs'[Len(msgs) + 1] = StopInternalMsg
      /\ \A k \in 1 .. Len(msgs) : msgs'[k] = msgs[k]
      /\ Len(msgs) \in Nat
  BY <1>1, Appended DEF MqQueueMessage, TypeOK
<1>3. Posts'
  BY <1>2, OursFrame, UnpostedFacts DEF Control, Posts, TypeOK
<1>4. Grown
  <2>1. ASSUME NEW k \in 1 .. Len(msgs')
        PROVE  msgs'[k] = StopInternalMsg \/ (k \in 1 .. Len(msgs) /\ msgs'[k] = msgs[k])
    <3>1. k = Len(msgs) + 1 \/ k \in 1 .. Len(msgs)
      BY <1>2
    <3>. QED
      BY <1>2, <3>1
  <2>. QED
    BY <2>1 DEF Grown
<1>5. StopQueued'
  BY <1>2 DEF StopQueued, StopInternalMsg, Msg
<1>. QED
  BY <1>3, <1>4, <1>5
(* ... with a message less ...                                              *)
LEMMA PostsTaken ==
    ASSUME TypeOK, Control, Ours, sem > 0, Dequeued
    PROVE  /\ Posts' /\ Moved
           /\ Head(msgs).id # "StopInternal" /\ StopQueued => StopQueued'
<1>1. /\ Len(msgs) > 0 /\ Head(msgs) = msgs[1] /\ Len(msgs) \in Nat
      /\ Len(msgs') = Len(msgs) - 1 /\ sem' = sem - 1
      /\ \A k \in 1 .. Len(msgs) - 1 : msgs'[k] = msgs[k + 1]
  BY Received DEF Dequeued, Control, TypeOK
<1>2. Posts'
  BY <1>1, OursFrame, UnpostedFacts DEF Control, Posts, TypeOK
<1>3. Moved
  BY <1>1 DEF Moved
<1>4. ASSUME Head(msgs).id # "StopInternal", StopQueued
      PROVE  StopQueued'
  <2>1. PICK k \in 1 .. Len(msgs) : msgs[k].id = "StopInternal"
    BY <1>4 DEF StopQueued
  <2>2. k # 1 /\ k - 1 \in 1 .. Len(msgs')
    BY <1>1, <1>4, <2>1
  <2>3. msgs'[k - 1].id = "StopInternal"
    BY <1>1, <2>1, <2>2
  <2>. QED
    BY <2>2, <2>3 DEF StopQueued
<1>. QED
  BY <1>2, <1>3, <1>4
(* ... or with the one in place of the other.                               *)
LEMMA PostsReplaced ==
    ASSUME TypeOK, Control, Ours, sem > 0, DequeuedAndQueued(StopInternalMsg)
    PROVE  Posts' /\ Moved /\ StopQueued'
<1>1. StopInternalMsg \in Message
  BY DEF StopInternalMsg, Msg, Message, MessageIds
<1>2. /\ Len(msgs) > 0 /\ Len(msgs) \in Nat /\ Tail(msgs) \in Seq(Message)
      /\ Len(Tail(msgs)) = Len(msgs) - 1 /\ sem' = sem
      /\ \A k \in 1 .. Len(msgs) - 1 : Tail(msgs)[k] = msgs[k + 1]
  BY Received DEF DequeuedAndQueued, Control, TypeOK
<1>3. /\ Len(msgs') = Len(msgs) /\ msgs'[Len(msgs)] = StopInternalMsg
      /\ \A k \in 1 .. Len(msgs) - 1 : msgs'[k] = msgs[k + 1]
  BY <1>1, <1>2, Appended DEF DequeuedAndQueued
<1>4. Posts'
  BY <1>2, <1>3, OursFrame DEF Control, Posts
<1>5. Moved
  <2>1. ASSUME NEW k \in 1 .. Len(msgs')
        PROVE  msgs'[k] = StopInternalMsg \/ (k + 1 \in 1 .. Len(msgs) /\ msgs'[k] = msgs[k + 1])
    <3>1. Len(msgs') = Len(msgs) /\ Len(msgs) \in Nat
      BY <1>2, <1>3
    <3>2. k = Len(msgs) \/ (k \in 1 .. Len(msgs) - 1 /\ k + 1 \in 1 .. Len(msgs))
      BY <3>1
    <3>. QED
      BY <1>3, <3>2
  <2>. QED
    BY <2>1 DEF Moved
<1>6. StopQueued'
  BY <1>2, <1>3 DEF StopQueued, StopInternalMsg, Msg
<1>. QED
  BY <1>4, <1>5, <1>6

(* What the invariant says of the engine's own position.                    *)
Place == Threads /\ Position /\ EndQueued /\ ExecutesInRange /\ RunningListLocked

(* From execute to the switch on the status: nothing but pc moves.          *)
LEMMA ToStatus ==
    ASSUME TypeOK, Control, pc = "execute", InRange, pc' = "status",
           UNCHANGED <<msgs, sem, client, replies, state, active, swap, alive, inUse, curIndex>>
    PROVE  Control'
<1>. Ours /\ state = "Running" /\ UNCHANGED queueVars
  BY DEF Ours, Control, Threads, queueVars
<1>1. Posts' /\ Grown
  BY PostsQuiet
<1>2. Place'
  BY DEF Place, Control, Threads, Position, Executing, EndQueued, ExecutesInRange,
     RunningListLocked, InRange
<1>. QED
  BY <1>1, <1>2, OursFrame, EngineGrows, EditNotRunFrame, ControlFromParts DEF Place

(* ExecuteSegments returns with a StopInternal queued.                      *)
LEMMA ToFinished ==
    ASSUME TypeOK, Control, state = "Running", pc \notin {"dequeue", "callback", "swap"},
           NEW status, ReturnFinished(status),
           UNCHANGED <<client, replies, state, active, swap, alive, inUse>>,
           curIndex'[active] \in Nat
    PROVE  Control'
<1>. Ours /\ pc' = "dequeue"
  BY DEF Ours, ReturnFinished
<1>1. Posts' /\ Grown /\ StopQueued'
  BY PostsQueued DEF ReturnFinished
<1>2. Place'
  BY <1>1 DEF Place, Control, Threads, Position, Executing, EndQueued, ExecutesInRange,
     RunningListLocked
<1>. QED
  BY <1>1, <1>2, OursFrame, EngineGrows, EditNotRunFrame, ControlFromParts DEF Place

(* The next segment, or the end of the list.                                *)
LEMMA ToNext ==
    ASSUME TypeOK, Control, pc = "status", NEW i \in Nat, GoOn(i)
    PROVE  Control'
<1>. /\ Ours /\ state = "Running" /\ active \in Lists
     /\ UNCHANGED <<client, replies, state, active, swap, alive, inUse>>
     /\ curIndex' = [curIndex EXCEPT ![active] = i]
  BY DEF Ours, Control, Threads, GoOn, TypeOK
<1>1. curIndex'[active] = i
  BY DEF TypeOK
<1>2. CASE i < Total(active)
  <2>1. pc' = "execute" /\ UNCHANGED queueVars
    BY <1>2 DEF GoOn
  <2>2. Posts' /\ Grown
    BY <2>1, PostsQuiet
  <2>3. InRange'
    BY <1>1, <1>2, ListFacts DEF InRange, Indices
  <2>4. Place'
    BY <1>1, <2>1, <2>3 DEF Place, Control, Threads, Position, Executing, EndQueued,
       ExecutesInRange, RunningListLocked
  <2>. QED
    BY <2>1, <2>2, <2>4, OursFrame, EngineGrows, EditNotRunFrame, ControlFromParts DEF Place
<1>3. CASE ~(i < Total(active))
  BY <1>1, <1>3, ToFinished DEF GoOn
<1>. QED
  BY <1>2, <1>3

(* A list is started.                                                       *)
LEMMA ToFirst ==
    ASSUME TypeOK, Control, pc = "dequeue", state = "Idle", NEW l \in Lists, Usable(l),
           BeginList(l), UNCHANGED <<pc, alive>>
    PROVE  Place'
<1>1. curIndex'[l] = 0 /\ active' = l
  BY DEF TypeOK, BeginList
<1>2. InRange'
  BY <1>1, ListFacts DEF InRange, Indices
<1>3. inUse' = {l} /\ l \in alive'
  BY DEF Control, RunningListLocked, BeginList, Usable
<1>. QED
  BY <1>1, <1>2, <1>3 DEF Place, Threads, Position, Executing, EndQueued, ExecutesInRange,
     RunningListLocked, BeginList

(* A list is ended: the engine goes to a static callback.                   *)
LEMMA ToCallback ==
    ASSUME TypeOK, Control, pc = "dequeue", state = "Running", sem > 0, Dequeued,
           NEW callback, EndList(callback)
    PROVE  Control'
<1>. /\ Ours /\ active \in Lists /\ pc' = "callback"
     /\ UNCHANGED <<client, replies, state, active, swap, alive>>
  BY DEF Ours, EndList, TypeOK
<1>1. Posts' /\ Moved
  BY PostsTaken
<1>2. Place'
  BY DEF Place, Control, Threads, Position, Executing, EndQueued, ExecutesInRange,
     RunningListLocked, EndList
<1>. QED
  BY <1>1, <1>2, OursFrame, EngineTakes, EditNotRunStopped, ControlFromParts DEF Place

(* A static callback returns.                                               *)
LEMMA ToIdle ==
    ASSUME Control, BecomeIdle
    PROVE  Place'
  BY DEF BecomeIdle, Place, Control, Threads, Position, Executing, EndQueued, ExecutesInRange,
     RunningListLocked, listVars

(* A message that changes nothing but the queue and the replies.            *)
LEMMA ToDequeue ==
    ASSUME TypeOK, Control, pc = "dequeue", StopQueued => StopQueued' \/ state = "Idle",
           UNCHANGED <<pc, state, active, swap, alive, inUse, curIndex>>
    PROVE  Place'
  BY DEF Place, Control, Threads, Position, Executing, EndQueued, ExecutesInRange,
     RunningListLocked, InRange, TypeOK, EngineState

(* Every step of the engine thread keeps Control ...                        *)
LEMMA ControlEngine ==
    ASSUME IInv, EngineStep
    PROVE  Control'
<1>. TypeOK /\ Control
  BY DEF IInv
<1>. USE DEF Ours
(* Messages about starting a list.                                          *)
<1>1. CASE StartIdle
  <2>. DEFINE l == Head(msgs).list
  <2>1. /\ sem > 0 /\ Dequeued /\ BeginList(l) /\ pc = "dequeue" /\ state = "Idle"
        /\ Receive("Start") /\ CompleteSyncMessage("Start", "Success")
        /\ UNCHANGED <<client, pc, alive>>
    BY <1>1 DEF StartIdle, Receive
  <2>2. l \in Lists /\ Usable(l)
    BY <1>1, HeadList DEF StartIdle, Receive, ListIds, StartIds
  <2>3. Posts' /\ Moved
    BY <2>1, PostsTaken
  <2>4. PICK c \in Clients : Asks(c, "Start", l)
    BY <2>1, <2>3, EngineAnswers DEF SyncIds, ReplyStatus
  <2>5. EditNotRun'
    BY <2>1, <2>4, EditNotRunOther DEF Asks
  <2>6. /\ QueuedListsUsable' /\ QueuedAsked' /\ SwapAsked' /\ ReplyAsked'
        /\ EditNotQueued'
    BY <2>1, <2>3, EngineAnswers DEF SyncIds, ReplyStatus
  <2>. QED
    BY <2>1, <2>2, <2>3, <2>5, <2>6, ToFirst, OursFrame, ControlFromParts DEF Place
<1>2. CASE StartRunning
  <2>1. /\ sem > 0 /\ Dequeued /\ pc = "dequeue" /\ state = "Running"
        /\ Receive("Start") /\ CompleteSyncMessage("Start", "CommandIgnored")
        /\ UNCHANGED <<client, pc, state, active, swap, alive, inUse, curIndex>>
    BY <1>2 DEF StartRunning, Receive, listVars
  <2>2. Posts' /\ Moved /\ (StopQueued => StopQueued')
    BY <2>1, PostsTaken DEF Receive
  <2>3. PICK c \in Clients : Asks(c, "Start", Head(msgs).list)
    BY <2>1, <2>2, EngineAnswers DEF SyncIds, ReplyStatus
  <2>4. EditNotRun'
    BY <2>1, <2>3, EditNotRunOther DEF Asks
  <2>5. /\ QueuedListsUsable' /\ QueuedAsked' /\ SwapAsked' /\ ReplyAsked'
        /\ EditNotQueued'
    BY <2>1, <2>2, EngineAnswers DEF SyncIds, ReplyStatus
  <2>. QED
    BY <2>1, <2>2, <2>4, <2>5, ToDequeue, OursFrame, ControlFromParts DEF Place
<1>3. CASE StartInternalIdle
  <2>. DEFINE l == Head(msgs).list
  <2>1. /\ sem > 0 /\ Dequeued /\ BeginList(l) /\ pc = "dequeue" /\ state = "Idle"
        /\ UNCHANGED <<client, pc, alive, replies>>
    BY <1>3 DEF StartInternalIdle, Receive
  <2>2. l \in Lists /\ Usable(l)
    BY <1>3, HeadList DEF StartInternalIdle, Receive, ListIds, StartIds
  <2>3. Posts' /\ Moved
    BY <2>1, PostsTaken
  <2>4. EditNotRun'
    <3>1. Head(msgs) = msgs[1] /\ 1 \in 1 .. Len(msgs) /\ msgs[1].id = "StartInternal"
      BY <1>3, Received DEF StartInternalIdle, Receive, Control
    <3>2. active' = l
      BY <2>1 DEF BeginList
    <3>. QED
      BY <2>1, <3>1, <3>2 DEF Control, EditApart, EditNotRun, Waiting, StartIds
  <2>. QED
    BY <2>1, <2>2, <2>3, <2>4, ToFirst, EngineTakes, OursFrame, ControlFromParts DEF Place
<1>4. CASE StartInternalRunning
  <2>1. /\ sem > 0 /\ Dequeued /\ pc = "dequeue" /\ state = "Running"
        /\ UNCHANGED <<client, replies, pc, state, active, swap, alive, inUse, curIndex>>
    BY <1>4 DEF StartInternalRunning, Receive, listVars
  <2>2. Posts' /\ Moved /\ (StopQueued => StopQueued')
    BY <1>4, <2>1, PostsTaken DEF StartInternalRunning, Receive
  <2>. QED
    BY <2>1, <2>2, ToDequeue, EngineTakes, EditNotRunFrame, OursFrame, ControlFromParts
       DEF Place
(* Messages that stop a list.                                               *)
<1>5. CASE StopRunning \/ TerminateRunning \/ StopInternalRunning
  <2>1. PICK callback : EndList(callback)
    BY <1>5 DEF StopRunning, TerminateRunning, StopInternalRunning
  <2>2. sem > 0 /\ Dequeued /\ pc = "dequeue" /\ state = "Running"
    BY <1>5 DEF StopRunning, TerminateRunning, StopInternalRunning, Receive
  <2>. QED
    BY <2>1, <2>2, ToCallback
<1>6. CASE StopIdle
  <2>1. /\ sem > 0 /\ Dequeued /\ pc = "dequeue" /\ state = "Idle"
        /\ UNCHANGED <<client, replies, pc, state, active, swap, alive, inUse, curIndex>>
    BY <1>6 DEF StopIdle, Receive, listVars
  <2>2. Posts' /\ Moved
    BY <2>1, PostsTaken
  <2>. QED
    BY <2>1, <2>2, ToDequeue, EngineTakes, EditNotRunStopped, OursFrame, ControlFromParts
       DEF Place
(* An edit.                                                                 *)
<1>7. CASE ModifyDeleted
  <2>1. /\ sem > 0 /\ Dequeued /\ pc = "dequeue" /\ state = "Running"
        /\ Receive("Modify") /\ CompleteSyncMessage("Modify", "DeletedCurrentSegment")
        /\ UNCHANGED <<client, pc, state, active, swap, alive, inUse, curIndex>>
    BY <1>7 DEF ModifyDeleted, Receive, listVars
  <2>2. Posts' /\ Moved /\ (StopQueued => StopQueued')
    BY <2>1, PostsTaken DEF Receive
  <2>3. /\ QueuedListsUsable' /\ QueuedAsked' /\ SwapAsked' /\ ReplyAsked'
        /\ EditNotQueued' /\ Silent
    BY <2>1, <2>2, EngineAnswers DEF SyncIds, ReplyStatus
  <2>4. EditNotRun'
    <3>1. <<>> # <<"Success">>
      OBVIOUS
    <3>. QED
      BY <2>1, <2>3, <3>1 DEF Control, EditApart, EditNotRun, Waiting, Silent, SyncIds
  <2>. QED
    BY <2>1, <2>2, <2>3, <2>4, ToDequeue, OursFrame, ControlFromParts DEF Place
<1>8. CASE ModifyIdle
  <2>1. /\ sem > 0 /\ Dequeued /\ pc = "dequeue" /\ state = "Idle"
        /\ Receive("Modify") /\ CompleteSyncMessage("Modify", "CommandIgnored")
        /\ UNCHANGED <<client, pc, state, active, swap, alive, inUse, curIndex>>
    BY <1>8 DEF ModifyIdle, Receive, listVars
  <2>2. Posts' /\ Moved
    BY <2>1, PostsTaken
  <2>3. /\ QueuedListsUsable' /\ QueuedAsked' /\ SwapAsked' /\ ReplyAsked'
        /\ EditNotQueued'
    BY <2>1, <2>2, EngineAnswers DEF SyncIds, ReplyStatus
  <2>. QED
    BY <2>1, <2>2, <2>3, ToDequeue, EditNotRunStopped, OursFrame, ControlFromParts DEF Place
<1>9. CASE ModifyImport
  <2>. DEFINE new == Head(msgs).list
  <2>1. /\ sem > 0 /\ Dequeued /\ pc = "dequeue" /\ pc' = "swap" /\ state = "Running"
        /\ Head(msgs).id = "Modify" /\ inUse' = inUse \ {active} /\ active \in Lists
        /\ UNCHANGED <<client, replies, state, active, alive, curIndex>>
    BY <1>9 DEF ModifyImport, Receive, TypeOK
  <2>2. new \in Lists /\ Usable(new)
    BY <2>1, HeadList DEF ListIds, StartIds
  <2>3. swap'.list = new /\ swap'.index \in Indices(new)
    BY <1>9 DEF ModifyImport, SameTag
  <2>4. Posts' /\ Moved
    BY <2>1, PostsTaken
  <2>5. /\ Len(msgs) > 0 /\ Head(msgs) = msgs[1] /\ 1 \in 1 .. Len(msgs)
        /\ msgs[1].id = "Modify"
    BY <2>1, Received DEF Control
  <2>6. Silent /\ \E c \in Clients : Asks(c, "Modify", new)
    BY <2>5 DEF Control, QueuedAsked, SyncIds
  <2>7. \A k \in 1 .. Len(msgs') : msgs'[k].id \notin SyncIds
    BY <2>4, <2>5 DEF Control, QueuedAsked, Moved, SyncIds, StopInternalMsg, Msg
  <2>8. QueuedAsked' /\ SwapAsked' /\ ReplyAsked'
    BY <2>1, <2>3, <2>6, <2>7 DEF QueuedAsked, SwapAsked, ReplyAsked, Silent, Asks, Waiting
  <2>9. Place'
    BY <2>1, <2>3 DEF Control, Place, Threads, Position, Executing, EndQueued,
       ExecutesInRange, RunningListLocked
  <2>10. EditNotRun'
    BY <2>1, EditNotRunFrame
  <2>. QED
    BY <2>1, <2>4, <2>8, <2>9, <2>10, QueueKept, OursFrame, ControlFromParts DEF Place
<1>10. CASE ModifySwap
  <2>1. /\ pc = "swap" /\ pc' = "dequeue" /\ active' = swap.list /\ state = "Running"
        /\ inUse' = inUse \cup {swap.list} /\ CompleteSyncMessage("Modify", "Success")
        /\ UNCHANGED <<queueVars, client, state, alive>>
    BY <1>10 DEF ModifySwap, Control, Threads
  <2>2. swap.list \in Lists /\ Usable(swap.list) /\ swap.index \in Indices(swap.list)
    BY <2>1 DEF TypeOK, Control, SwapAsked, Asks, EditApart, Position
  <2>3. PICK c \in Clients : Asks(c, "Modify", swap.list)
    BY <2>1 DEF Control, SwapAsked
  <2>4. /\ \A k \in 1 .. Len(msgs) : msgs[k].id \notin SyncIds
        /\ \A id \in SyncIds : replies[id] = <<>>
    BY <2>1 DEF Control, QueuedAsked, SwapAsked, Silent
  <2>5. replies'["Modify"] = <<"Success">>
        /\ \A id \in SyncIds \ {"Modify"} : replies'[id] = <<>>
    <3>1. Append(<<>>, "Success") = <<"Success">>
      OBVIOUS
    <3>. QED
      BY <2>1, <2>4, <3>1 DEF CompleteSyncMessage, TypeOK, SyncIds
  <2>6. Posts' /\ Grown
    BY <2>1, PostsQuiet
  <2>7. curIndex'[swap.list] = swap.index
    BY <1>10, <2>2 DEF ModifySwap, TypeOK
  <2>8. Place'
    <3>1. InRange'
      BY <2>1, <2>2, <2>7 DEF InRange
    <3>2. inUse' = {active'} /\ active' \in alive'
      BY <2>1, <2>2 DEF Control, RunningListLocked, Usable
    <3>. QED
      BY <2>1, <2>2, <2>7, <3>1, <3>2 DEF Place, Threads, Position, Executing, EndQueued,
         ExecutesInRange, RunningListLocked, Indices
  <2>9. QueuedAsked' /\ SwapAsked'
    BY <2>1, <2>4 DEF QueuedAsked, SwapAsked, queueVars
  <2>10. ReplyAsked'
    <3>1. Len(<<"Success">>) = 1
      OBVIOUS
    <3>. QED
      BY <2>1, <2>3, <2>5, <3>1 DEF ReplyAsked, Asks, Waiting
  <2>11. EditNotRun'
    BY <2>5 DEF EditNotRun
  <2>. QED
    BY <2>1, <2>6, <2>8, <2>9, <2>10, <2>11, QueueKept, OursFrame, ControlFromParts DEF Place
(* A skip.                                                                  *)
<1>11. CASE GotoRunning
  <2>. DEFINE next == IF InRange THEN curIndex[active] + 1 ELSE curIndex[active]
  <2>1. /\ sem > 0 /\ pc = "dequeue" /\ state = "Running" /\ active \in Lists
        /\ Receive("Goto") /\ CompleteSyncMessage("Goto", "Success")
        /\ curIndex' = [curIndex EXCEPT ![active] = next]
        /\ UNCHANGED <<client, pc, state, active, swap, alive, inUse>>
    BY <1>11 DEF GotoRunning, Receive, TypeOK
  <2>2. next \in Nat /\ curIndex'[active] = next
    BY <2>1 DEF TypeOK, Control, Position, Executing
  <2>3. /\ Posts' /\ Moved
        /\ next < Total(active) \/ StopQueued'
    <3>1. CASE next < Total(active)
      BY <1>11, <2>1, <3>1, PostsTaken DEF GotoRunning
    <3>2. CASE ~(next < Total(active))
      BY <1>11, <2>1, <3>2, PostsReplaced DEF GotoRunning
    <3>. QED
      BY <3>1, <3>2
  <2>4. next < Total(active) => InRange'
    BY <2>1, <2>2, ListFacts DEF InRange, Indices
  <2>5. Place'
    BY <2>1, <2>2, <2>3, <2>4 DEF Control, Place, Threads, Position, Executing, EndQueued,
       ExecutesInRange, RunningListLocked
  <2>6. PICK c \in Clients : Asks(c, "Goto", Head(msgs).list)
    BY <2>1, <2>3, EngineAnswers DEF SyncIds, ReplyStatus
  <2>7. EditNotRun'
    BY <2>1, <2>6, EditNotRunOther DEF Asks
  <2>8. /\ QueuedListsUsable' /\ QueuedAsked' /\ SwapAsked' /\ ReplyAsked'
        /\ EditNotQueued'
    BY <2>1, <2>3, EngineAnswers DEF SyncIds, ReplyStatus
  <2>. QED
    BY <2>1, <2>3, <2>5, <2>7, <2>8, OursFrame, ControlFromParts DEF Place
<1>12. CASE GotoIdle
  <2>1. /\ sem > 0 /\ Dequeued /\ pc = "dequeue" /\ state = "Idle"
        /\ Receive("Goto") /\ CompleteSyncMessage("Goto", "CommandIgnored")
        /\ UNCHANGED <<client, pc, state, active, swap, alive, inUse, curIndex>>
    BY <1>12 DEF GotoIdle, Receive, listVars
  <2>2. Posts' /\ Moved
    BY <2>1, PostsTaken
  <2>3. /\ QueuedListsUsable' /\ QueuedAsked' /\ SwapAsked' /\ ReplyAsked'
        /\ EditNotQueued'
    BY <2>1, <2>2, EngineAnswers DEF SyncIds, ReplyStatus
  <2>. QED
    BY <2>1, <2>2, <2>3, ToDequeue, EditNotRunStopped, OursFrame, ControlFromParts DEF Place
(* ExecuteSegments.                                                         *)
<1>13. CASE TimeoutRunning
  <2>1. /\ pc = "dequeue" /\ pc' = "execute" /\ sem = 0 /\ state = "Running"
        /\ UNCHANGED <<queueVars, client, replies, state, active, swap, alive, inUse, curIndex>>
    BY <1>13 DEF TimeoutRunning, listVars
  <2>2. Posts' /\ Grown
    BY <2>1, PostsQuiet
  <2>3. Preempt = {} => InRange
    <3>1. ASSUME Preempt = {}, ~InRange
          PROVE  FALSE
      <4>1. PICK k \in 1 .. Len(msgs) : msgs[k].id = "StopInternal"
        BY <2>1, <3>1 DEF Control, EndQueued, StopQueued
      <4>2. Len(msgs) = 0
        BY <2>1, <3>1, UnpostedFacts DEF Control, Posts
      <4>. QED
        BY <4>1, <4>2
    <3>. QED
      BY <3>1
  <2>4. Place'
    BY <2>1, <2>3 DEF Control, Place, Threads, Position, Executing, EndQueued,
       ExecutesInRange, RunningListLocked, InRange
  <2>. QED
    BY <2>1, <2>2, <2>4, EngineGrows, EditNotRunFrame, OursFrame, ControlFromParts
       DEF Place, queueVars
<1>14. CASE StartSegment \/ StartRepeat \/ RunSegment \/ AbortSegment
  <2>1. /\ pc = "execute" /\ InRange /\ pc' = "status"
        /\ UNCHANGED <<msgs, sem, client, replies, state, active, swap, alive, inUse, curIndex>>
    BY <1>14 DEF StartSegment, StartRepeat, RunSegment, AbortSegment, queueVars, listVars
  <2>. QED
    BY <2>1, ToStatus
<1>15. CASE ExecuteError
  <2>1. /\ pc = "execute" /\ InRange /\ ReturnFinished("Terminate")
        /\ UNCHANGED <<client, replies, state, active, swap, alive, inUse, curIndex>>
    BY <1>15 DEF ExecuteError, listVars
  <2>2. curIndex'[active] \in Nat
    BY <2>1 DEF InRange, Indices
  <2>3. state = "Running"
    BY <2>1 DEF Control, Threads
  <2>. QED
    BY <2>1, <2>2, <2>3, ToFinished
<1>16. CASE OnError
  <2>1. /\ pc = "status" /\ InRange /\ ReturnFinished("Terminate")
        /\ UNCHANGED <<client, replies, state, active, swap, alive, inUse, curIndex>>
    BY <1>16, ActiveFacts DEF OnError
  <2>2. curIndex'[active] \in Nat
    BY <2>1 DEF InRange, Indices
  <2>3. state = "Running"
    BY <2>1 DEF Control, Threads
  <2>. QED
    BY <2>1, <2>2, <2>3, ToFinished
<1>17. CASE OnContinue
  <2>1. /\ pc = "status" /\ pc' = "dequeue" /\ InRange /\ state = "Running"
        /\ UNCHANGED <<queueVars, client, replies, state, active, swap, alive, inUse, curIndex>>
    BY <1>17, ActiveFacts DEF OnContinue, ReturnContinue, listVars
  <2>2. Posts' /\ Grown
    BY <2>1, PostsQuiet
  <2>3. Place'
    BY <2>1 DEF Control, Place, Threads, Position, Executing, EndQueued, ExecutesInRange,
       RunningListLocked, InRange
  <2>. QED
    BY <2>1, <2>2, <2>3, EngineGrows, EditNotRunFrame, OursFrame, ControlFromParts DEF Place
<1>18. CASE OnSuccess \/ OnAbortAttach
  <2>1. pc = "status" /\ GoOn(curIndex[active] + 1) /\ curIndex[active] + 1 \in Nat
    BY <1>18, ActiveFacts DEF OnSuccess, OnAbortAttach, InRange, Indices
  <2>. QED
    BY <2>1, ToNext
<1>19. CASE OnIndexModified
  <2>1. pc = "status" /\ GoOn(Current.index) /\ Current.index \in Nat
    BY <1>19, ActiveFacts, ListFacts DEF OnIndexModified, InRange, Current, Segment
  <2>. QED
    BY <2>1, ToNext
<1>20. CASE OnAbortSkip
  <2>1. pc = "status" /\ GoOn(AfterGuarded(active, curIndex[active]))
    BY <1>20 DEF OnAbortSkip
  <2>2. AfterGuarded(active, curIndex[active]) \in Nat
    BY <2>1, ActiveFacts, AfterGuardedType DEF InRange, Indices
  <2>. QED
    BY <2>1, <2>2, ToNext
(* The process dies.                                                        *)
<1>21. CASE ExecuteOutOfRange \/ StartRepeatNoExtension \/ ModifyOutOfRange \/ ModifySwapFreed
  <2>1. UNCHANGED controlVars
    BY <1>21 DEF ExecuteOutOfRange, StartRepeatNoExtension, ModifyOutOfRange, ModifySwapFreed,
       controlVars, queueVars, listVars
  <2>. QED
    BY <2>1, ControlFrame
(* The static callbacks.                                                    *)
<1>22. CASE Callback
  <2>1. /\ pc = "callback" /\ BecomeIdle /\ state' = "Idle" /\ pc' = "dequeue"
        /\ UNCHANGED <<queueVars, client, replies, alive>>
    BY <1>22 DEF Callback, BecomeIdle, listVars
  <2>2. Posts' /\ Grown
    BY <2>1, PostsQuiet
  <2>. QED
    BY <2>1, <2>2, ToIdle, EngineGrows, EditNotRunStopped, OursFrame, ControlFromParts DEF Place
<1>23. ASSUME NEW l \in Lists, CallbackStarts(l)
       PROVE  Control'
  <2>1. /\ pc = "callback" /\ BecomeIdle /\ state' = "Idle" /\ pc' = "dequeue"
        /\ UNCHANGED <<client, replies, alive>>
        /\ Handle(l) /\ sem' = sem + 1
        /\ msgs' = Append(msgs, Msg("StartInternal", l))
    BY <1>23 DEF CallbackStarts, BecomeIdle, listVars, MqQueueMessage
  <2>2. Msg("StartInternal", l) \in Message
    BY DEF Msg, Message, MessageIds
  <2>3. /\ Len(msgs') = Len(msgs) + 1 /\ Len(msgs) \in Nat
        /\ msgs'[Len(msgs) + 1] = [id |-> "StartInternal", list |-> l]
        /\ \A k \in 1 .. Len(msgs) : msgs'[k] = msgs[k]
    BY <2>1, <2>2, Appended DEF Msg, TypeOK
  <2>4. Usable(l) /\ \A c \in Clients : Waiting(c) /\ client[c].id = "Modify" => client[c].list # l
    BY <2>1 DEF Handle, Usable, Destroying, Waiting
  <2>5. \A k \in 1 .. Len(msgs') : \/ msgs'[k] = [id |-> "StartInternal", list |-> l]
                                   \/ k \in 1 .. Len(msgs) /\ msgs'[k] = msgs[k]
    BY <2>3
  <2>6. Posts'
    BY <2>1, <2>3, OursFrame, UnpostedFacts DEF Control, Posts, TypeOK
  <2>7. QueuedListsUsable'
    BY <2>1, <2>4, <2>5, OursFrame DEF Control, QueuedListsUsable
  <2>8. QueuedAsked' /\ SwapAsked' /\ ReplyAsked'
    BY <2>1, <2>5, OursFrame DEF Control, QueuedAsked, SwapAsked, ReplyAsked, Silent, SyncIds
  <2>9. EditNotQueued'
    BY <2>1, <2>4, <2>5, OursFrame DEF Control, EditApart, EditNotQueued
  <2>. QED
    BY <2>1, <2>6, <2>7, <2>8, <2>9, ToIdle, EditNotRunStopped, OursFrame, ControlFromParts
       DEF Place
<1>. QED
  BY <1>1, <1>2, <1>3, <1>4, <1>5, <1>6, <1>7, <1>8, <1>9, <1>10, <1>11, <1>12, <1>13, <1>14,
     <1>15, <1>16, <1>17, <1>18, <1>19, <1>20, <1>21, <1>22, <1>23
     DEF EngineStep, HandleMessage, ExecuteSegments

-----------------------------------------------------------------------------
(* Control, steps of a client.  None of them moves the engine thread.       *)
Theirs == UNCHANGED <<pc, state, active, swap>>

(* The engine's place, when the client leaves the queue's StopInternal, the *)
(* running list's CurIndex and its memory alone.                            *)
LEMMA PlaceFrame ==
    ASSUME TypeOK, Control, Theirs, UNCHANGED inUse, StopQueued => StopQueued',
           Executing => active \in alive' /\ curIndex'[active] = curIndex[active]
    PROVE  Place'
<1>1. Threads' /\ RunningListLocked'
  BY DEF Control, Theirs, Threads, RunningListLocked, Executing
<1>2. Executing => (InRange' <=> InRange)
  BY DEF Theirs, InRange
<1>3. pc \in {"execute", "status"} => Executing
  BY DEF Control, Threads, Executing
<1>4. Position'
  BY <1>2, <1>3 DEF Control, Theirs, Position, Executing
<1>5. EndQueued' /\ ExecutesInRange'
  BY <1>2, <1>3 DEF Control, Theirs, EndQueued, ExecutesInRange, Executing
<1>. QED
  BY <1>1, <1>4, <1>5 DEF Place

(* A running list exists, so no list is created in its place.               *)
LEMMA NewListElsewhere ==
    ASSUME TypeOK, Control, Executing, NEW l \in Lists, NewList(l)
    PROVE  active # l /\ active \in alive' /\ curIndex'[active] = curIndex[active]
  BY DEF TypeOK, Control, Executing, RunningListLocked, NewList

(* A client queues a message that is not a StopInternal.                    *)
LEMMA ClientQueues ==
    ASSUME TypeOK, Control, NEW c \in Clients, client[c].pc = "idle",
           NEW m \in Message, m.id # "StopInternal",
           MqQueueMessage(m, c \notin Preempt),
           NEW p \in {"postSync", "postAsync", "wait", "idle"},
           c \in Preempt <=> p \in {"postSync", "postAsync"},
           client' = [client EXCEPT ![c] = [pc |-> p, id |-> m.id, list |-> m.list]]
    PROVE  /\ Posts'
           /\ StopQueued => StopQueued'
           /\ Len(msgs') = Len(msgs) + 1 /\ Len(msgs) \in Nat
           /\ msgs'[Len(msgs) + 1] = m
           /\ \A k \in 1 .. Len(msgs) : msgs'[k] = msgs[k]
<1>1. /\ Len(msgs') = Len(msgs) + 1 /\ Len(msgs) \in Nat
      /\ msgs'[Len(msgs) + 1] = m
      /\ \A k \in 1 .. Len(msgs) : msgs'[k] = msgs[k]
  BY Appended DEF TypeOK, MqQueueMessage
<1>2. StopQueued => StopQueued'
  BY <1>1 DEF StopQueued
<1>3. Posts'
  <2>1. c \notin Unposted /\ IsFiniteSet(Unposted) /\ Cardinality(Unposted) \in Nat
    BY UnpostedFacts DEF Unposted
  <2>2. CASE c \in Preempt
    <3>1. Unposted' = Unposted \cup {c} /\ sem' = sem
      BY <2>2 DEF Unposted, TypeOK, MqQueueMessage
    <3>2. Cardinality(Unposted') = Cardinality(Unposted) + 1
      BY <2>1, <3>1, FS_AddElement
    <3>. QED
      BY <1>1, <2>1, <2>2, <3>1, <3>2 DEF Control, Posts, TypeOK
  <2>3. CASE c \notin Preempt
    <3>1. Unposted' = Unposted /\ sem' = sem + 1
      BY <2>1, <2>3 DEF Unposted, TypeOK, MqQueueMessage
    <3>. QED
      BY <1>1, <2>1, <3>1 DEF Control, Posts, TypeOK
  <2>. QED
    BY <2>2, <2>3
<1>. QED
  BY <1>1, <1>2, <1>3

(* Nobody waits, so nothing is queued, edited or answered for anybody.      *)
LEMMA NobodyWaits ==
    ASSUME Control, LockFree
    PROVE  /\ \A c \in Clients : ~Waiting(c)
           /\ \A k \in 1 .. Len(msgs) : msgs[k].id \notin SyncIds
           /\ Silent /\ pc # "swap"
  BY DEF Control, LockFree, Waiting, QueuedAsked, SwapAsked, ReplyAsked, Asks, Silent

(* A synchronous call: it takes the lock that nobody held.                  *)
LEMMA SyncCall ==
    ASSUME TypeOK, Control, NEW c \in Clients, LockFree, client[c].pc = "idle",
           NEW m \in Message, m.id \in SyncIds,
           NEW p \in {"postSync", "wait"},
           client' = [client EXCEPT ![c] = [pc |-> p, id |-> m.id, list |-> m.list]],
           Len(msgs') = Len(msgs) + 1, Len(msgs) \in Nat,
           msgs'[Len(msgs) + 1] = m,
           \A k \in 1 .. Len(msgs) : msgs'[k] = msgs[k],
           Theirs, UNCHANGED replies
    PROVE  OneCaller' /\ QueuedAsked' /\ SwapAsked' /\ ReplyAsked'
<1>1. /\ \A d \in Clients : ~Waiting(d)
      /\ \A k \in 1 .. Len(msgs) : msgs[k].id \notin SyncIds
      /\ Silent /\ pc # "swap"
  BY NobodyWaits
<1>2. \A d \in Clients : d # c => client'[d] = client[d]
  BY DEF TypeOK
<1>3. client'[c].pc = p /\ client'[c].id = m.id /\ client'[c].list = m.list
  BY DEF TypeOK
<1>4. OneCaller'
  BY <1>1, <1>2, <1>3 DEF OneCaller, Waiting
<1>5. SwapAsked' /\ ReplyAsked'
  BY <1>1 DEF SwapAsked, ReplyAsked, Silent, Theirs
<1>6. Asks(c, m.id, m.list)'
  BY <1>3 DEF Asks, Waiting
<1>7. \A k \in 1 .. Len(msgs') : k = Len(msgs) + 1 \/ (k \in 1 .. Len(msgs) /\ msgs'[k] = msgs[k])
  OBVIOUS
<1>8. Silent' /\ pc' # "swap"
  BY <1>1 DEF Silent, Theirs
<1>9. \A k \in 1 .. Len(msgs') : msgs'[k].id \in SyncIds => k = Len(msgs) + 1
  BY <1>1, <1>7
<1>10. QueuedAsked'
  BY <1>6, <1>8, <1>9 DEF QueuedAsked
<1>. QED
  BY <1>4, <1>5, <1>10

(* ... and so does every step of a client.                                  *)
LEMMA ControlClient ==
    ASSUME IInv, NEW c \in Clients, ClientCall(c) \/ ClientFinish(c)
    PROVE  Control'
<1>. TypeOK /\ Control
  BY DEF IInv
<1>. USE DEF Theirs
<1>1. ASSUME NEW l \in Lists, SeCreateSegmentList(c, l)
      PROVE  Control'
  <2>1. Theirs /\ UNCHANGED <<queueVars, client, replies, inUse>> /\ NewList(l)
        /\ alive' = alive \cup {l}
    BY <1>1 DEF SeCreateSegmentList, NewList
  <2>2. Posts' /\ (StopQueued => StopQueued')
    BY <2>1 DEF Control, Posts, Unposted, queueVars, StopQueued
  <2>3. Place'
    BY <2>1, <2>2, NewListElsewhere, PlaceFrame
  <2>4. QueuedListsUsable' /\ Destroys' /\ EditNotQueued' /\ EditNotRun'
    BY <2>1 DEF Control, QueuedListsUsable, Destroys, EditApart, EditNotQueued, EditNotRun,
       Usable, Destroying, Waiting, queueVars
  <2>5. OneCaller' /\ QueuedAsked' /\ SwapAsked' /\ ReplyAsked'
    BY <2>1 DEF Control, OneCaller, QueuedAsked, SwapAsked, ReplyAsked, Silent, Asks, Waiting,
       queueVars
  <2>. QED
    BY <2>2, <2>3, <2>4, <2>5, ControlFromParts DEF Place
<1>2. ASSUME NEW l \in Lists \cup {Null}, NEW id \in {"Start", "Goto"},
             id = "Start" => l \in Lists /\ Handle(l),
             LockFree, Send(c, id, l), UNCHANGED <<alive, curIndex>>
      PROVE  Control'
  <2>. DEFINE p == IF c \in Preempt THEN "postSync" ELSE "wait"
              m == Msg(id, l)
  <2>1. /\ client[c].pc = "idle" /\ MqQueueMessage(m, c \notin Preempt)
        /\ client' = [client EXCEPT ![c] = [pc |-> p, id |-> id, list |-> l]]
        /\ Theirs /\ UNCHANGED <<replies, inUse, alive, curIndex>>
    BY <1>2 DEF Send, SyncIds
  <2>2. m \in Message /\ m.id = id /\ m.list = l
    BY DEF Msg, Message, MessageIds, SyncIds
  <2>. HIDE DEF m
  <2>3. /\ Posts' /\ (StopQueued => StopQueued')
        /\ Len(msgs') = Len(msgs) + 1 /\ Len(msgs) \in Nat
        /\ msgs'[Len(msgs) + 1] = m
        /\ \A k \in 1 .. Len(msgs) : msgs'[k] = msgs[k]
    BY <2>1, <2>2, ClientQueues
  <2>4. OneCaller' /\ QueuedAsked' /\ SwapAsked' /\ ReplyAsked'
    BY <1>2, <2>1, <2>2, <2>3, SyncCall DEF SyncIds
  <2>5. Place'
    <3>1. Executing => active \in alive
      BY DEF Control, RunningListLocked, Executing
    <3>. QED
      BY <2>1, <2>3, <3>1, PlaceFrame
  <2>6. \A d \in Clients : /\ client'[d].pc = "destroy" <=> client[d].pc = "destroy"
                           /\ client'[d].pc = "destroy" => client'[d] = client[d]
    BY <2>1 DEF TypeOK
  <2>7. Destroys' /\ \A x : Usable(x)' <=> Usable(x)
    BY <2>1, <2>6 DEF Control, Destroys, Usable, Destroying
  <2>8. \A k \in 1 .. Len(msgs') : k = Len(msgs) + 1 \/ (k \in 1 .. Len(msgs) /\ msgs'[k] = msgs[k])
    BY <2>3
  <2>9. QueuedListsUsable'
    <3>1. id = "Start" => Usable(l)
      BY <1>2 DEF Handle, Usable, Destroying
    <3>. QED
      BY <2>2, <2>3, <2>7, <2>8, <3>1 DEF Control, QueuedListsUsable, ListIds, StartIds
  <2>10. EditNotQueued' /\ EditNotRun'
    <3>1. \A d \in Clients : Waiting(d)' => d = c /\ client'[c].id = id
      BY <1>2, <2>1, NobodyWaits DEF TypeOK, Waiting
    <3>. QED
      BY <3>1 DEF EditNotQueued, EditNotRun
  <2>. QED
    BY <2>3, <2>4, <2>5, <2>7, <2>9, <2>10, ControlFromParts DEF Place
<1>3. ASSUME NEW id \in AsyncIds, Send(c, id, Null), UNCHANGED <<alive, curIndex>>
      PROVE  Control'
  <2>. DEFINE p == IF c \in Preempt THEN "postAsync" ELSE "idle"
              m == Msg(id, Null)
  <2>1. /\ client[c].pc = "idle" /\ MqQueueMessage(m, c \notin Preempt)
        /\ client' = [client EXCEPT ![c] = [pc |-> p, id |-> id, list |-> Null]]
        /\ Theirs /\ UNCHANGED <<replies, inUse, alive, curIndex>>
    BY <1>3 DEF Send, SyncIds, AsyncIds
  <2>2. m \in Message /\ m.id = id /\ m.list = Null
    BY DEF Msg, Message, MessageIds
  <2>. HIDE DEF m
  <2>3. /\ Posts' /\ (StopQueued => StopQueued')
        /\ Len(msgs') = Len(msgs) + 1 /\ Len(msgs) \in Nat
        /\ msgs'[Len(msgs) + 1] = m
        /\ \A k \in 1 .. Len(msgs) : msgs'[k] = msgs[k]
    BY <2>1, <2>2, ClientQueues DEF AsyncIds
  <2>4. \A d \in Clients :
           /\ Waiting(d)' <=> Waiting(d)
           /\ client'[d].pc = "destroy" <=> client[d].pc = "destroy"
           /\ Waiting(d) \/ client[d].pc = "destroy" => client'[d] = client[d]
    BY <2>1 DEF TypeOK, Waiting
  <2>5. Place'
    <3>1. Executing => active \in alive
      BY DEF Control, RunningListLocked, Executing
    <3>. QED
      BY <2>1, <2>3, <3>1, PlaceFrame
  <2>6. Destroys' /\ \A x : Usable(x)' <=> Usable(x)
    BY <2>1, <2>4 DEF Control, Destroys, Usable, Destroying
  <2>7. /\ m.id \notin SyncIds /\ m.id \notin ListIds
        /\ \A k \in 1 .. Len(msgs') : msgs'[k] = m \/ (k \in 1 .. Len(msgs) /\ msgs'[k] = msgs[k])
    BY <2>2, <2>3 DEF AsyncIds, SyncIds, ListIds, StartIds
  <2>8. QueuedListsUsable'
    BY <2>6, <2>7 DEF Control, QueuedListsUsable
  <2>9. OneCaller' /\ QueuedAsked' /\ SwapAsked' /\ ReplyAsked'
    BY <2>1, <2>4, <2>7 DEF Control, OneCaller, QueuedAsked, SwapAsked, ReplyAsked, Silent, Asks
  <2>10. EditNotQueued' /\ EditNotRun'
    BY <2>1, <2>4, <2>6, <2>7 DEF Control, EditApart, EditNotQueued, EditNotRun, ListIds
  <2>. QED
    BY <2>3, <2>5, <2>6, <2>8, <2>9, <2>10, ControlFromParts DEF Place
<1>4. ASSUME NEW l \in Lists, SeModifySegmentList(c, l)
      PROVE  Control'
  <2>. DEFINE p == IF c \in Preempt THEN "postSync" ELSE "wait"
              m == Msg("Modify", l)
  <2>1. /\ client[c].pc = "idle" /\ MqQueueMessage(m, c \notin Preempt)
        /\ client' = [client EXCEPT ![c] = [pc |-> p, id |-> "Modify", list |-> l]]
        /\ LockFree /\ NewList(l) /\ l \notin alive /\ alive' = alive \cup {l}
        /\ Theirs /\ UNCHANGED <<replies, inUse>>
    BY <1>4 DEF SeModifySegmentList, NewList
  <2>2. m \in Message /\ m.id = "Modify" /\ m.list = l
    BY DEF Msg, Message, MessageIds, SyncIds
  <2>. HIDE DEF m
  <2>3. /\ Posts' /\ (StopQueued => StopQueued')
        /\ Len(msgs') = Len(msgs) + 1 /\ Len(msgs) \in Nat
        /\ msgs'[Len(msgs) + 1] = m
        /\ \A k \in 1 .. Len(msgs) : msgs'[k] = msgs[k]
    BY <2>1, <2>2, ClientQueues
  <2>4. OneCaller' /\ QueuedAsked' /\ SwapAsked' /\ ReplyAsked'
    BY <2>1, <2>2, <2>3, SyncCall DEF SyncIds
  <2>5. Place'
    BY <2>1, <2>3, NewListElsewhere, PlaceFrame
  <2>6. \A d \in Clients : /\ client'[d].pc = "destroy" <=> client[d].pc = "destroy"
                           /\ client'[d].pc = "destroy" => client'[d] = client[d]
    BY <2>1 DEF TypeOK
  <2>7. Destroys' /\ (\A x : Usable(x) => Usable(x)') /\ Usable(l)'
    BY <2>1, <2>6 DEF Control, Destroys, Usable, Destroying
  <2>8. \A k \in 1 .. Len(msgs') : msgs'[k] = m \/ (k \in 1 .. Len(msgs) /\ msgs'[k] = msgs[k])
    BY <2>3
  <2>9. QueuedListsUsable'
    BY <2>2, <2>7, <2>8 DEF Control, QueuedListsUsable
  <2>10. \A d \in Clients : Waiting(d)' => d = c /\ client'[c].list = l
    BY <2>1, NobodyWaits DEF TypeOK, Waiting
  <2>11. EditNotQueued'
    <3>1. \A k \in 1 .. Len(msgs) : msgs[k].id \in StartIds => msgs[k].list # l
      BY <2>1 DEF Control, QueuedListsUsable, Usable, ListIds
    <3>2. m.id \notin StartIds
      BY <2>2 DEF StartIds
    <3>. QED
      BY <2>7, <2>8, <2>10, <3>1, <3>2 DEF EditNotQueued
  <2>12. EditNotRun'
    <3>1. state = "Running" /\ pc # "callback" => active # l
      BY <2>1, NobodyWaits, NewListElsewhere DEF Executing
    <3>. QED
      BY <2>1, <2>10, <3>1 DEF EditNotRun
  <2>. QED
    BY <2>3, <2>4, <2>5, <2>7, <2>9, <2>11, <2>12, ControlFromParts DEF Place
<1>5. ASSUME NEW l \in Lists, SeDestroySegmentList(c, l)
      PROVE  Control'
  <2>1. /\ client[c].pc = "idle" /\ Handle(l) /\ ~InFlight(l)
        /\ client' = [client EXCEPT ![c] = [pc |-> "destroy", id |-> "Stop", list |-> l]]
        /\ Theirs /\ UNCHANGED <<queueVars, replies, inUse, alive, curIndex>>
    BY <1>5 DEF SeDestroySegmentList, listVars
  <2>2. \A d \in Clients : Waiting(d)' <=> Waiting(d)
    BY <2>1 DEF TypeOK, Waiting
  <2>3. \A d \in Clients : d # c => client'[d] = client[d]
    BY <2>1 DEF TypeOK
  <2>4. Posts' /\ (StopQueued => StopQueued')
    BY <2>1 DEF Control, Posts, Unposted, queueVars, StopQueued, TypeOK
  <2>5. Place'
    <3>1. Executing => active \in alive
      BY DEF Control, RunningListLocked, Executing
    <3>. QED
      BY <2>1, <2>4, <3>1, PlaceFrame
  <2>6. /\ client'[c].pc = "destroy" /\ client'[c].list = l /\ l \in alive
        /\ \A d \in Clients : client[d].pc = "destroy" => client[d].list # l
        /\ \A x : Usable(x) /\ x # l => Usable(x)'
    BY <2>1, <2>3 DEF TypeOK, Handle, Usable, Destroying
  <2>7. Destroys'
    BY <2>1, <2>3, <2>6 DEF Control, Destroys
  <2>8. QueuedListsUsable'
    BY <2>1, <2>6 DEF Control, QueuedListsUsable, InFlight, queueVars
  <2>9. OneCaller' /\ QueuedAsked' /\ SwapAsked' /\ ReplyAsked'
    BY <2>1, <2>2, <2>3 DEF Control, OneCaller, QueuedAsked, SwapAsked, ReplyAsked, Silent, Asks,
       Waiting, queueVars
  <2>10. \A d \in Clients : Waiting(d) /\ client[d].id = "Modify" => d # c /\ client[d].list # l
    BY <2>1 DEF Handle, Waiting
  <2>11. EditNotQueued' /\ EditNotRun'
    BY <2>1, <2>2, <2>3, <2>6, <2>10 DEF Control, EditApart, EditNotQueued, EditNotRun, Waiting,
       queueVars
  <2>. QED
    BY <2>4, <2>5, <2>7, <2>8, <2>9, <2>11, ControlFromParts DEF Place
<1>6. ASSUME Post(c)
      PROVE  Control'
  <2>1. /\ c \in Unposted /\ sem' = sem + 1
        /\ Theirs /\ UNCHANGED <<msgs, replies, inUse, alive, curIndex>>
        /\ \A d \in Clients : d # c => client'[d] = client[d]
    BY <1>6 DEF Post, Unposted, listVars, TypeOK
  <2>2. /\ Waiting(c)' <=> Waiting(c)
        /\ Waiting(c) => client'[c].id = client[c].id /\ client'[c].list = client[c].list
        /\ client'[c].pc \in {"wait", "idle"}
    <3>1. CASE client[c].pc = "postSync"
      BY <1>6, <3>1 DEF Post, TypeOK, Waiting
    <3>2. CASE client[c].pc = "postAsync"
      BY <1>6, <3>2 DEF Post, TypeOK, Waiting, IdleClient
    <3>. QED
      BY <1>6, <3>1, <3>2 DEF Post
  <2>3. Posts'
    <3>1. Unposted' = Unposted \ {c}
      BY <2>1, <2>2 DEF Unposted
    <3>2. Cardinality(Unposted') = Cardinality(Unposted) - 1
      BY <2>1, <3>1, UnpostedFacts, FS_RemoveElement
    <3>. QED
      BY <2>1, <3>1, <3>2, UnpostedFacts DEF Control, Posts, TypeOK
  <2>4. Place'
    <3>1. Executing => active \in alive
      BY DEF Control, RunningListLocked, Executing
    <3>2. StopQueued => StopQueued'
      BY <2>1 DEF StopQueued
    <3>. QED
      BY <2>1, <3>1, <3>2, PlaceFrame
  <2>5. \A x : Usable(x)' <=> Usable(x)
    <3>1. client[c].pc # "destroy"
      BY <2>1 DEF Unposted
    <3>. QED
      BY <2>1, <2>2, <3>1 DEF Usable, Destroying
  <2>6. Destroys'
    BY <2>1, <2>2 DEF Control, Destroys
  <2>7. QueuedListsUsable'
    BY <2>1, <2>5 DEF Control, QueuedListsUsable
  <2>8. \A d \in Clients :
           /\ Waiting(d)' <=> Waiting(d)
           /\ Waiting(d) => client'[d].id = client[d].id /\ client'[d].list = client[d].list
    BY <2>1, <2>2 DEF Waiting
  <2>9. \A d \in Clients : \A x, y : Asks(d, x, y) => Asks(d, x, y)'
    BY <2>8 DEF Asks
  <2>10. OneCaller'
    BY <2>8 DEF Control, OneCaller
  <2>11. QueuedAsked' /\ SwapAsked'
    BY <2>1, <2>9 DEF Control, QueuedAsked, SwapAsked, Silent
  <2>12. ReplyAsked'
    BY <2>1, <2>8 DEF Control, ReplyAsked
  <2>13. EditNotQueued' /\ EditNotRun'
    BY <2>1, <2>5, <2>8 DEF Control, EditApart, EditNotQueued, EditNotRun
  <2>. QED
    BY <2>3, <2>4, <2>6, <2>7, <2>10, <2>11, <2>12, <2>13, ControlFromParts DEF Place
<1>7. ASSUME Return(c)
      PROVE  Control'
  <2>. DEFINE id == client[c].id
              l == client[c].list
  <2>1. /\ client[c].pc = "wait" /\ replies[id] # <<>>
        /\ replies' = [replies EXCEPT ![id] = Tail(@)]
        /\ client' = [client EXCEPT ![c] = IdleClient]
        /\ alive' = IF id = "Modify" /\ Head(replies["Modify"]) # "Success"
                      THEN alive \ {l} ELSE alive
        /\ Theirs /\ UNCHANGED <<queueVars, inUse, curIndex>>
    BY <1>7 DEF Return
  <2>2. Waiting(c) /\ id \in SyncIds /\ Len(replies[id]) = 1
    BY <2>1 DEF Control, OneCaller, ReplyAsked, Waiting
  <2>3. /\ ~Silent /\ pc # "swap"
        /\ \A k \in 1 .. Len(msgs) : msgs[k].id \notin SyncIds
    BY <2>1, <2>2 DEF Control, Silent, QueuedAsked, SwapAsked
  <2>4. \A d \in Clients : d # c => client'[d] = client[d] /\ ~Waiting(d)
    BY <2>1, <2>2 DEF Control, OneCaller, TypeOK
  <2>5. client'[c].pc = "idle"
    BY <2>1 DEF TypeOK, IdleClient
  <2>6. \A d \in Clients : ~Waiting(d)'
    BY <2>4, <2>5 DEF Waiting
  <2>7. Silent'
    <3>1. \A x \in SyncIds : x # id => replies[x] = <<>>
      BY <2>2, <2>4 DEF Control, ReplyAsked
    <3>2. ASSUME NEW q \in Seq(ReplyStatus), Len(q) = 1
          PROVE  Tail(q) = <<>>
      <4>1. Tail(q) \in Seq(ReplyStatus) /\ Len(Tail(q)) = 0
        <5>1. Len(q) > 0
          BY <3>2
        <5>2. Tail(q) \in Seq(ReplyStatus) /\ Len(Tail(q)) = Len(q) - 1
          BY <5>1, Shortened, Zenon
        <5>. QED
          BY <3>2, <5>2
      <4>2. \A r \in Seq(ReplyStatus) : Len(r) = 0 => r = <<>>
        OBVIOUS
      <4>. QED
        BY <4>1, <4>2
    <3>. QED
      BY <2>1, <2>2, <3>1, <3>2 DEF Silent, TypeOK
  <2>8. Posts' /\ (StopQueued => StopQueued')
    <3>1. Unposted' = Unposted
      BY <2>1, <2>4, <2>5 DEF Unposted
    <3>. QED
      BY <2>1, <3>1 DEF Control, Posts, queueVars, StopQueued
  <2>9. ASSUME alive' # alive
        PROVE  /\ alive' = alive \ {l} /\ Usable(l)
               /\ \A k \in 1 .. Len(msgs) : msgs[k].id \in ListIds => msgs[k].list # l
               /\ Executing => active # l
    <3>1. id = "Modify" /\ Head(replies["Modify"]) # "Success" /\ alive' = alive \ {l}
      BY <2>1, <2>9
    <3>2. replies["Modify"] # <<"Success">>
      <4>1. Head(<<"Success">>) = "Success"
        OBVIOUS
      <4>. QED
        BY <3>1, <4>1
    <3>. QED
      BY <2>2, <2>3, <3>1, <3>2 DEF Control, EditApart, ListIds, SyncIds, Executing
  <2>10. Place'
    <3>1. Executing => active \in alive
      BY DEF Control, RunningListLocked, Executing
    <3>. QED
      BY <2>1, <2>8, <2>9, <3>1, PlaceFrame
  <2>11. /\ client[c].pc # "destroy"
         /\ \A d \in Clients : client'[d].pc = "destroy" => client'[d] = client[d]
    BY <2>1, <2>4, <2>5
  <2>12. QueuedListsUsable'
    BY <2>1, <2>9, <2>11 DEF Control, QueuedListsUsable, Usable, Destroying, queueVars
  <2>13. Destroys'
    BY <2>9, <2>11 DEF Control, Destroys, Usable, Destroying
  <2>14. OneCaller' /\ ReplyAsked' /\ EditNotQueued' /\ EditNotRun'
    BY <2>6, <2>7 DEF OneCaller, ReplyAsked, Silent, EditNotQueued, EditNotRun
  <2>15. QueuedAsked' /\ SwapAsked'
    BY <2>1, <2>3 DEF QueuedAsked, SwapAsked, queueVars
  <2>. QED
    BY <2>8, <2>10, <2>12, <2>13, <2>14, <2>15, ControlFromParts DEF Place
<1>8. ASSUME DestroySegmentList(c)
      PROVE  Control'
  <2>. DEFINE l == client[c].list
  <2>1. /\ client[c].pc = "destroy" /\ l \notin inUse /\ alive' = alive \ {l}
        /\ client' = [client EXCEPT ![c] = IdleClient]
        /\ Theirs /\ UNCHANGED <<queueVars, replies, inUse, curIndex>>
    BY <1>8 DEF DestroySegmentList
  <2>2. /\ client'[c].pc = "idle" /\ \A d \in Clients : d # c => client'[d] = client[d]
        /\ \A d \in Clients : Waiting(d)' <=> Waiting(d)
    BY <2>1 DEF TypeOK, IdleClient, Waiting
  <2>3. Posts' /\ (StopQueued => StopQueued')
    <3>1. Unposted' = Unposted
      BY <2>1, <2>2 DEF Unposted
    <3>. QED
      BY <2>1, <3>1 DEF Control, Posts, queueVars, StopQueued
  <2>4. ~Usable(l) /\ \A x : Usable(x) => Usable(x)'
    BY <2>1, <2>2 DEF Usable, Destroying
  <2>5. Place'
    <3>1. Executing => active \in alive /\ active # l
      BY <2>1 DEF Control, RunningListLocked, Executing
    <3>. QED
      BY <2>1, <2>3, <3>1, PlaceFrame
  <2>6. Destroys'
    BY <2>1, <2>2 DEF Control, Destroys
  <2>7. QueuedListsUsable'
    BY <2>1, <2>4 DEF Control, QueuedListsUsable, queueVars
  <2>8. ~Waiting(c)
    BY <2>1 DEF Waiting
  <2>9. OneCaller' /\ QueuedAsked' /\ SwapAsked' /\ ReplyAsked'
    BY <2>1, <2>2, <2>8 DEF Control, OneCaller, QueuedAsked, SwapAsked, ReplyAsked, Silent, Asks,
       queueVars
  <2>10. EditNotQueued' /\ EditNotRun'
    BY <2>1, <2>2, <2>4, <2>8 DEF Control, EditApart, EditNotQueued, EditNotRun, queueVars
  <2>. QED
    BY <2>3, <2>5, <2>6, <2>7, <2>9, <2>10, ControlFromParts DEF Place
<1>9. ASSUME SeStopSegmentList(c) \/ SeTerminateSegmentList(c)
      PROVE  Control'
  BY <1>3, <1>9 DEF SeStopSegmentList, SeTerminateSegmentList, AsyncIds
<1>10. ASSUME SeGotoNextSegment(c)
       PROVE  Control'
  BY <1>2, <1>10 DEF SeGotoNextSegment
<1>11. ASSUME NEW l \in Lists, SeStartSegmentList(c, l)
       PROVE  Control'
  BY <1>2, <1>11 DEF SeStartSegmentList
<1>. QED
  BY <1>1, <1>4, <1>5, <1>6, <1>7, <1>8, <1>9, <1>10, <1>11 DEF ClientCall, ClientFinish

-----------------------------------------------------------------------------
(* The theorems.                                                            *)

(* The invariant holds initially ...                                        *)
LEMMA InvariantInit == Init => IInv
  BY TypingInit, ControlInit DEF IInv

(* ... and every step keeps it ...                                          *)
LEMMA InvariantNext == IInv /\ [Next]_vars => IInv'
<1>. SUFFICES ASSUME IInv, [Next]_vars PROVE IInv'
  OBVIOUS
<1>1. CASE EngineStep
  BY <1>1, TypingEngine, ControlEngine DEF IInv
<1>2. ASSUME NEW c \in Clients, ClientCall(c) \/ ClientFinish(c)
      PROVE  IInv'
  BY <1>2, TypingClient, ControlClient DEF IInv
<1>3. CASE UNCHANGED vars
  <2>1. Control'
    BY <1>3, ControlFrame DEF IInv, vars, controlVars
  <2>2. TypeOK'
    BY <1>3 DEF IInv, TypeOK, vars
  <2>. QED
    BY <2>1, <2>2 DEF IInv
<1>. QED
  BY <1>1, <1>2, <1>3 DEF Next, Crashed

(* ... so it holds in every reachable state.                                *)
THEOREM Invariance == Spec => []IInv
  BY InvariantInit, InvariantNext, PTL DEF Spec

(* Every variable has its type in every reachable state, for any lists the  *)
(* parser accepts and any number of clients.                                *)
THEOREM TypeCorrect == Spec => []TypeOK
<1>1. IInv => TypeOK
  BY DEF IInv
<1>. QED
  BY <1>1, Invariance, PTL

(* The engine holds the InUse mutex of exactly the list it runs, and nobody *)
(* frees that list.                                                         *)
THEOREM RunningListIsLocked == Spec => []RunningListLocked
<1>1. IInv => RunningListLocked
  BY DEF IInv, Control
<1>. QED
  BY <1>1, Invariance, PTL

(* While the engine waits for messages past the end of its list, the        *)
(* StopInternal that will end the list is queued, and ExecuteSegments can   *)
(* be entered only while the post of a queued message is missing ...        *)
THEOREM EndIsPending == Spec => []EndPending
<1>1. IInv => EndPending
  <2>. SUFFICES ASSUME IInv, pc = "dequeue", state = "Running", ~InRange
                PROVE  StopQueued /\ (sem = 0 => PostOutstanding)
    BY DEF EndPending
  <2>1. PICK k \in 1 .. Len(msgs) : msgs[k].id = "StopInternal"
    BY DEF IInv, Control, EndQueued, StopQueued
  <2>2. ASSUME sem = 0 PROVE PostOutstanding
    <3>1. Len(msgs) # 0 /\ Cardinality(Unposted) # 0
      BY <2>1, <2>2, UnpostedFacts DEF IInv, Control, Posts
    <3>2. Unposted # {}
      BY <3>1, UnpostedFacts
    <3>. QED
      BY <3>2 DEF Unposted, PostOutstanding
  <2>. QED
    BY <2>1, <2>2 DEF StopQueued
<1>. QED
  BY <1>1, Invariance, PTL

(* ... so never, when no client can be held up there for 25 ms.             *)
THEOREM NeverExecutesOutOfRange == Spec => []ExecutesInRange
<1>1. IInv => ExecutesInRange
  BY DEF IInv, Control
<1>. QED
  BY <1>1, Invariance, PTL
=============================================================================
