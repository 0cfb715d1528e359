----------------------------- MODULE CanProtocol ----------------------------
(***************************************************************************)
(* The CANbus protocol (src/TaCanProtocol): nodes that all run the library  *)
(* on one bus.  On each node, threads call CnSendMessage and one thread     *)
(* reads frames; the two meet in CmdAckNakList.                             *)
(*                                                                          *)
(* A frame carries which command it is a fragment of instead of bytes, so   *)
(* that a reassembled message shows whose fragments it is made of.  The     *)
(* frames are those the library sends: their lengths are right.             *)
(***************************************************************************)
EXTENDS Integers, SequencesExt, FiniteSetsExt

CONSTANTS
    Apps,     \* the applications to check: see below
    Nodes,
    Threads,
    Broadcast \* CAN_ID_BROADCAST

ASSUME BroadcastAssumption == Broadcast \notin Nodes

MaxRetries == 3  \* MAX_COMMAND_RETRIES and MAX_EXT_CMD_RETRIES

Commands == {"CMD", "EXT_CMD"}
Announcements == {"ANN", "EXT_ANN"}

(***************************************************************************)
(* An application: node[t] is where thread t runs; program[t] the messages  *)
(* it sends; slots[n], for each node n on the bus, the groups of receive    *)
(* slots it adds, each row with the messages it matches and the status its  *)
(* callback returns.  losses, failures and interrupts bound the frames the  *)
(* bus loses, the writes the driver refuses and the waits a signal          *)
(* interrupts; timely says that no frame is ever slower than a timeout: a   *)
(* wait expires only when no frame is on its way.                           *)
(***************************************************************************)
Messages == {m \in [type : Commands \cup Announcements, mid : Nat,
                     did : Nodes \cup {Broadcast}, packets : Nat \ {0}] :
                m.type \in {"CMD", "ANN"} => m.packets = 1}
Rows == [mids : SUBSET Nat, status : Nat]
Groups == [priority : BOOLEAN, rows : Seq(Rows)]

ASSUME AppsAssumption ==
    \A a \in Apps : /\ a.node \in [Threads -> Nodes]
                    /\ a.program \in [Threads -> Seq(Messages)]
                    /\ DOMAIN a.slots \subseteq Nodes
                    /\ a.slots \in [DOMAIN a.slots -> Seq(Groups)]

VARIABLES
    app,
    bus,      \* per node, the frames its driver has not been asked for yet
    slots,    \* CanRxMessages
    groups,   \* how many groups of slots the node has added
    ext,      \* ExtendedList: per node and arbitration id, the reassembly
    AckNaks,  \* CmdAckNakList
    pc, retry, packet,  \* of the thread's current call
    status,   \* history: what each call of the thread returned
    delivered,\* history: what the nodes gave to their callbacks
    errors,   \* history: the protocol errors given to the status callbacks
    faults    \* how many losses, failures and interrupts there were

senders == <<pc, retry, packet, status>>
receivers == <<slots, groups, ext>>
vars == <<app, bus, receivers, AckNaks, senders, delivered, errors, faults>>

Idle == [cur |-> 0, last |-> 0, data |-> <<>>]

\* CAN_STATUS, and the ReturnCode of an entry nobody has answered: any value.
CsSuccess == 0
CsTimeout == 2
CsUnknownMessage == 3
CsFailed == 8
Garbage == 99999

Init ==
    /\ app \in Apps
    /\ bus = [n \in Nodes |-> <<>>]
    /\ slots = [n \in Nodes |-> <<>>]
    /\ groups = [n \in Nodes |-> 0]
    /\ ext = [n \in Nodes |-> <<>>]
    /\ AckNaks = [n \in Nodes |-> <<>>]
    /\ pc = [t \in Threads |-> "idle"]
    /\ retry = [t \in Threads |-> 0]
    /\ packet = [t \in Threads |-> 1]
    /\ status = [t \in Threads |-> <<>>]
    /\ delivered = {} /\ errors = {}
    /\ faults = [f \in {"losses", "failures", "interrupts"} |-> 0]

(***************************************************************************)
(* The threads that send.                                                   *)
(***************************************************************************)
Sid(t) == app.node[t]
Nr(t) == Len(status[t]) + 1
Message(t) == app.program[t][Nr(t)]
Acked(t) == Message(t).type \in Commands

\* The list entry a command waits on; ExpectedAckNakId swaps source and target.
AckType(type) == IF type = "CMD" THEN "CMD_ACKNAK" ELSE "EXT_CMD_ACKNAK"
Expected(t) == [type |-> AckType(Message(t).type), mid |-> Message(t).mid,
                sid |-> Message(t).did, did |-> Sid(t)]

IdOf(f) == [type |-> f.type, mid |-> f.mid, sid |-> f.sid, did |-> f.did]
Entry(t) == [by |-> t, id |-> Expected(t), posts |-> 0, code |-> Garbage]

\* Every other node's driver receives a frame: self reception is disabled.
Transmit(queues, f) ==
    [n \in Nodes |-> IF n \in DOMAIN app.slots \ {f.sid} THEN Append(queues[n], f) ELSE queues[n]]

Frame(t) == [type |-> Message(t).type, mid |-> Message(t).mid,
             sid |-> Sid(t), did |-> Message(t).did,
             cur |-> packet[t], last |-> Message(t).packets,
             data |-> [by |-> t, nr |-> Nr(t), packet |-> packet[t]]]

\* CnSendMessage up to the first write: a command enters the list.
Send(t) ==
    /\ pc[t] = "idle" /\ Nr(t) <= Len(app.program[t])
    /\ pc' = [pc EXCEPT ![t] = "send"]
    /\ retry' = [retry EXCEPT ![t] = 0]
    /\ packet' = [packet EXCEPT ![t] = 1]
    /\ AckNaks' = IF Acked(t) THEN [AckNaks EXCEPT ![Sid(t)] = <<Entry(t)>> \o @]
                              ELSE AckNaks
    /\ UNCHANGED <<app, bus, receivers, status, delivered, errors, faults>>

Return(t, code) ==
    /\ pc' = [pc EXCEPT ![t] = "idle"]
    /\ status' = [status EXCEPT ![t] = Append(@, code)]

\* SendCanbusMessage writes a frame; after the last an announcement is done.
Write(t) ==
    /\ pc[t] = "send"
    /\ bus' = Transmit(bus, Frame(t))
    /\ packet' = [packet EXCEPT ![t] = @ + 1]
    /\ CASE packet[t] < Message(t).packets -> UNCHANGED <<pc, status>>
         [] packet[t] >= Message(t).packets /\ Acked(t) ->
                pc' = [pc EXCEPT ![t] = "wait"] /\ UNCHANGED status
         [] OTHER -> Return(t, CsSuccess)
    /\ UNCHANGED <<app, receivers, AckNaks, retry, delivered, errors, faults>>

\* The driver refuses a write.
WriteFails(t) ==
    /\ pc[t] = "send" /\ faults.failures < app.failures
    /\ faults' = [faults EXCEPT !.failures = @ + 1]
    /\ IF Acked(t) THEN pc' = [pc EXCEPT ![t] = "failed"] /\ UNCHANGED status
                   ELSE Return(t, CsFailed)
    /\ UNCHANGED <<app, bus, receivers, AckNaks, retry, packet, delivered, errors>>

MyEntry(t) == CHOOSE i \in DOMAIN AckNaks[Sid(t)] : AckNaks[Sid(t)][i].by = t
Posted(t) == AckNaks[Sid(t)][MyEntry(t)].posts > 0

\* sem_timedwait is woken by an answer.
Answered(t) ==
    /\ pc[t] = "wait" /\ Posted(t)
    /\ AckNaks' = [AckNaks EXCEPT ![Sid(t)][MyEntry(t)].posts = @ - 1]
    /\ pc' = [pc EXCEPT ![t] = "answered"]
    /\ UNCHANGED <<app, bus, receivers, retry, packet, status, delivered, errors, faults>>

\* sem_timedwait times out: all packets are sent again, but for the last retry.
BusQuiet == \A n \in Nodes : bus[n] = <<>>
ResendTwice(t) ==    \* Fault: one attempt too few.
    /\ retry' = [retry EXCEPT ![t] = @ + 1]
    /\ packet' = [packet EXCEPT ![t] = 1]
    /\ pc' = [pc EXCEPT ![t] = IF retry'[t] >= MaxRetries - 1 THEN "timedout" ELSE "send"]
Resend(t) ==
    /\ retry' = [retry EXCEPT ![t] = @ + 1]
    /\ packet' = [packet EXCEPT ![t] = 1]
    /\ pc' = [pc EXCEPT ![t] = IF retry'[t] >= MaxRetries THEN "timedout" ELSE "send"]

WaitForever(t) ==   \* Fault: sem_wait, without a timeout.
    FALSE /\ UNCHANGED vars
Timeout(t) ==
    /\ pc[t] = "wait" /\ ~Posted(t)
    /\ app.timely => BusQuiet
    /\ Resend(t)
    /\ UNCHANGED <<app, bus, receivers, AckNaks, status, delivered, errors, faults>>

\* sem_timedwait fails otherwise: a command is sent again, without counting;
\* an extended command leaves its loop and returns whatever its entry holds.
Interrupted(t) ==
    /\ pc[t] = "wait" /\ faults.interrupts < app.interrupts
    /\ faults' = [faults EXCEPT !.interrupts = @ + 1]
    /\ packet' = [packet EXCEPT ![t] = 1]
    /\ pc' = [pc EXCEPT ![t] = IF Message(t).type = "CMD" THEN "send" ELSE "answered"]
    /\ UNCHANGED <<app, bus, receivers, AckNaks, retry, status, delivered, errors>>

\* The call takes its entry out of the list and returns.
UnlistAnswered(list, t) ==  \* Fault: a failed call leaves its entry in the list.
    IF pc[t] = "failed" THEN list ELSE RemoveAt(list, MyEntry(t))
Unlist(list, t) == RemoveAt(list, MyEntry(t))

Leave(t) ==
    /\ pc[t] \in {"answered", "failed", "timedout"}
    /\ AckNaks' = [AckNaks EXCEPT ![Sid(t)] = Unlist(@, t)]
    /\ Return(t, CASE pc[t] = "failed" -> CsFailed
                   [] pc[t] = "timedout" -> CsTimeout
                   [] OTHER -> AckNaks[Sid(t)][MyEntry(t)].code)
    /\ UNCHANGED <<app, bus, receivers, retry, packet, delivered, errors, faults>>

(***************************************************************************)
(* The read thread of a node, and the slots it matches frames with.         *)
(***************************************************************************)
\* CnInitializeProtocol and CnAddMessageSlots(Ex): one group under the lock.
\* The read thread runs before the first group is added.
AddMessageSlots(n) ==
    /\ n \in DOMAIN app.slots /\ groups[n] < Len(app.slots[n])
    /\ groups' = [groups EXCEPT ![n] = @ + 1]
    /\ LET g == app.slots[n][groups'[n]] IN
       slots' = [slots EXCEPT ![n] = IF g.priority THEN Reverse(g.rows) \o @ ELSE @ \o g.rows]
    /\ UNCHANGED <<app, bus, ext, AckNaks, senders, delivered, errors, faults>>

\* SendMessageToApplication: every slot that matches is called; the status of
\* the last one is the answer.
Matching(n, f) == {i \in DOMAIN slots[n] : f.mid \in slots[n][i].mids}
Answer(n, f) == IF Matching(n, f) = {} THEN CsUnknownMessage
                                       ELSE slots[n][Max(Matching(n, f))].status

\* delivered is a set: who was given which data, and the status it returned.
Deliver(n, f, data) ==
    delivered' = delivered \cup {[node |-> n, data |-> data, status |-> Answer(n, f)]}

\* The answer goes back with source and target swapped; a refusal is negative.
NakPositive(code) == code  \* Fault: the sign is not changed.
Nak(code) == -code
AnswerFrame(n, f) ==
    [type |-> AckType(f.type), mid |-> f.mid, sid |-> f.did, did |-> f.sid,
     code |-> IF Answer(n, f) = CsSuccess THEN 0 ELSE Nak(Answer(n, f))]

Reject(error) == /\ errors' = errors \cup {error}
                 /\ UNCHANGED delivered

\* The reassembly of one arbitration id: what a packet makes of it.
State(n, f) == IF IdOf(f) \in DOMAIN ext[n] THEN ext[n][IdOf(f)] ELSE Idle
SetState(n, f, s) ==
    ext' = [ext EXCEPT ![n] = [id \in DOMAIN @ \cup {IdOf(f)} |->
                                  IF id = IdOf(f) THEN s ELSE @[id]]]

InOrder(s, f) == f.cur = s.cur + 1 /\ f.last = s.last
Completes(s, f) == IF s.cur = 0 THEN f.cur = 1 /\ f.last = 1
                                ELSE InOrder(s, f) /\ f.cur = s.last
Continues(s, f) == IF s.cur = 0 THEN f.cur = 1 /\ f.last > 1
                                ELSE InOrder(s, f) /\ f.cur < s.last
AfterLastKept(s, f) ==  \* Fault: not reset after the last packet.
    [s EXCEPT !.cur = f.cur, !.data = Append(@, f.data)]
AfterLast(s, f) == IF s.cur = 0 THEN s ELSE Idle

Reassemble(n, f) ==
    LET s == State(n, f) IN
    \/ /\ Continues(s, f)
       /\ SetState(n, f, [cur |-> f.cur, last |-> f.last,
                          data |-> IF s.cur = 0 THEN <<f.data>> ELSE Append(s.data, f.data)])
       /\ UNCHANGED <<delivered, errors>>
    \/ /\ Completes(s, f)
       /\ Deliver(n, f, IF s.cur = 0 THEN <<f.data>> ELSE Append(s.data, f.data))
       /\ SetState(n, f, AfterLast(s, f))
       /\ UNCHANGED errors
    \/ /\ ~Continues(s, f) /\ ~Completes(s, f)
       /\ Reject(IF s.cur = 0 THEN "BadCurPacket"
                 ELSE IF f.cur # s.cur + 1 THEN "OutOfOrder" ELSE "LastPacketChanged")
       /\ SetState(n, f, Idle)

Received(n) == Head(bus[n])
Taken(n) == [bus EXCEPT ![n] = Tail(@)]
Reads(n, types) == bus[n] # <<>> /\ Received(n).type \in types
ForMe(n) == Received(n).did = n

NotForMe(n) ==
    /\ Reads(n, Commands \cup {AckType(c) : c \in Commands}) /\ ~ForMe(n)
    /\ bus' = Taken(n)
    /\ UNCHANGED <<app, receivers, AckNaks, senders, delivered, errors, faults>>

ReceiveCommand(n) ==
    /\ Reads(n, {"CMD"}) /\ ForMe(n)
    /\ Deliver(n, Received(n), <<Received(n).data>>)
    /\ bus' = Transmit(Taken(n), AnswerFrame(n, Received(n)))
    /\ UNCHANGED <<app, receivers, AckNaks, senders, errors, faults>>

ReceiveExtCommand(n) ==
    /\ Reads(n, {"EXT_CMD"}) /\ ForMe(n)
    /\ Reassemble(n, Received(n))
    /\ bus' = IF Completes(State(n, Received(n)), Received(n))
              THEN Transmit(Taken(n), AnswerFrame(n, Received(n))) ELSE Taken(n)
    /\ UNCHANGED <<app, slots, groups, AckNaks, senders, faults>>

ReceiveAnnouncement(n) ==
    /\ Reads(n, {"ANN"})
    /\ Deliver(n, Received(n), <<Received(n).data>>)
    /\ bus' = Taken(n)
    /\ UNCHANGED <<app, receivers, AckNaks, senders, errors, faults>>

ReceiveExtAnnouncement(n) ==
    /\ Reads(n, {"EXT_ANN"})
    /\ Reassemble(n, Received(n))
    /\ bus' = Taken(n)
    /\ UNCHANGED <<app, slots, groups, AckNaks, senders, faults>>

\* ReceiveAckNak: the first entry in the list that expects this answer.
ReceiveAckNak(n) ==
    LET f == Received(n)
        waiting == {i \in DOMAIN AckNaks[n] : AckNaks[n][i].id = IdOf(f)} IN
    /\ Reads(n, {AckType(c) : c \in Commands}) /\ ForMe(n)
    /\ bus' = Taken(n)
    /\ IF waiting = {}
       THEN Reject("AckNakOrphan") /\ UNCHANGED AckNaks
       ELSE /\ AckNaks' = [AckNaks EXCEPT ![n][Min(waiting)].posts = @ + 1,
                                          ![n][Min(waiting)].code = f.code]
            /\ UNCHANGED <<delivered, errors>>
    /\ UNCHANGED <<app, receivers, senders, faults>>

\* The bus or the driver loses a frame.
Lose(n) ==
    /\ bus[n] # <<>> /\ faults.losses < app.losses
    /\ bus' = Taken(n)
    /\ faults' = [faults EXCEPT !.losses = @ + 1]
    /\ UNCHANGED <<app, receivers, AckNaks, senders, delivered, errors>>

SendStep(t) == Send(t) \/ Write(t) \/ Answered(t) \/ Timeout(t) \/ Leave(t)
ReceiveStep(n) == \/ NotForMe(n) \/ ReceiveCommand(n) \/ ReceiveExtCommand(n)
                  \/ ReceiveAnnouncement(n) \/ ReceiveExtAnnouncement(n) \/ ReceiveAckNak(n)

Next == \/ \E t \in Threads : SendStep(t) \/ WriteFails(t) \/ Interrupted(t)
        \/ \E n \in Nodes : ReceiveStep(n) \/ AddMessageSlots(n) \/ Lose(n)

\* Every thread runs, the driver delivers, and a semaphore wait ends in time.
Fairness == /\ \A t \in Threads : WF_vars(SendStep(t))
            /\ \A n \in Nodes : WF_vars(ReceiveStep(n)) /\ WF_vars(AddMessageSlots(n))

Spec == Init /\ [][Next]_vars /\ Fairness

(***************************************************************************)
(* Properties.                                                              *)
(***************************************************************************)
Whole(t, i) == [k \in 1 .. app.program[t][i].packets |-> [by |-> t, nr |-> i, packet |-> k]]

Ids(t) == {[type |-> m.type, mid |-> m.mid, did |-> m.did] : m \in Range(app.program[t])}
Alone == \A t, u \in Threads : t # u /\ Sid(t) = Sid(u) => Ids(t) \cap Ids(u) = {}

MessageId(t, i) == LET m == app.program[t][i]
                   IN  [type |-> m.type, mid |-> m.mid, sid |-> Sid(t), did |-> m.did]

\* No other message is sent under the id of this one.
Sole(t, i) == \A u \in Threads : \A j \in DOMAIN app.program[u] :
                 MessageId(u, j) = MessageId(t, i) => u = t /\ j = i

\* An id has one user, who gets his answers in time and is not interrupted.
Prompt == app.timely /\ Alone /\ faults.interrupts = 0

\* SendCommandMessage, ReceiveAckNak: an answer a command returns is the one
\* its own target gave to that very command, whole; a refusal is negative.
\* Answers are matched by the id alone, so where it is used again they must
\* come in time; and a fault may leave the fragments of an extended command
\* behind, which the next one with that id is then completed with.
AnswerIsOwn ==
    \A t \in Threads : \A i \in DOMAIN status[t] :
        LET m == app.program[t][i]
            s == status[t][i]
            apart == Sole(t, i) \/ (Prompt /\ m.type = "CMD")
        IN  m.type \in Commands /\ apart /\ s \notin {CsFailed, CsTimeout, Garbage} =>
                s <= 0 /\ [node |-> m.did, data |-> Whole(t, i), status |-> -s] \in delivered

\* SendCommandMessage, SendExtCommandMessage: the list holds exactly the
\* entries of the calls that are in progress, each once: ReceiveAckNak never
\* posts the semaphore of a call that has returned.
EntriesLive ==
    \A n \in Nodes :
        /\ \A i, j \in DOMAIN AckNaks[n] : AckNaks[n][i].by = AckNaks[n][j].by => i = j
        /\ {e.by : e \in Range(AckNaks[n])}
              = {t \in Threads : Sid(t) = n /\ pc[t] # "idle" /\ Acked(t)}

\* Every target of a command is on the bus, and so is its sender.
Reachable ==
    \A t \in Threads : \A m \in Range(app.program[t]) :
        m.type \in Commands => Sid(t) \in DOMAIN app.slots /\ m.did \in DOMAIN app.slots \ {Sid(t)}

\* The retries: with answers in time and one user per id, a command times out
\* only after a loss in each of its attempts.  An extended command needs two
\* faults: the attempt after a lost or refused packet may be spent on
\* resetting the reassembly.
TimeoutNeedsLosses ==
    app.timely /\ Alone /\ Reachable =>
        \A t \in Threads : \A i \in DOMAIN status[t] : status[t][i] = CsTimeout =>
            IF app.program[t][i].type = "CMD" THEN faults.losses >= MaxRetries
                                              ELSE faults.losses + faults.failures >= 2

\* Ext state machines and CmdAckNakList: on a bus without faults, with
\* answers in time and one user per id, no protocol error is reported.
QuietWithoutFaults ==
    app.timely /\ Alone /\ faults = [f \in DOMAIN faults |-> 0] => errors = {}

\* CnSendMessage: a call that has begun returns.
SendsReturn == \A t \in Threads : pc[t] # "idle" ~> pc[t] = "idle"
=============================================================================
