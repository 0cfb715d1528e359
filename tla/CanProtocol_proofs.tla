------------------------ MODULE CanProtocol_proofs -------------------------
(***************************************************************************)
(* Theorems about CanProtocol, for any nodes, threads and applications, any *)
(* losses, refused writes, interrupted waits and late answers.              *)
(***************************************************************************)
EXTENDS CanProtocol, SequenceTheorems, WellFoundedInduction, TLAPS

(***************************************************************************)
(* The invariant.                                                           *)
(***************************************************************************)
\* What a thread is doing: a call in progress is one of its program, and what
\* it has still to write of the message is there.
Waiting == {"wait", "answered", "failed", "timedout"}

SendersOK ==
    /\ app \in Apps
    /\ pc \in [Threads -> {"idle", "send"} \cup Waiting]
    /\ status \in [Threads -> Seq(Int)]
    /\ packet \in [Threads -> Nat \ {0}]
    /\ \A t \in Threads :
          /\ DOMAIN status[t] \subseteq DOMAIN app.program[t]
          /\ pc[t] # "idle" => Nr(t) \in DOMAIN app.program[t]
          /\ pc[t] = "send" => packet[t] <= Message(t).packets
          /\ pc[t] \in Waiting => Acked(t)

SlotsOK == /\ groups \in [Nodes -> Nat]
           /\ slots \in [Nodes -> Seq(Rows)]

\* The fragments of the messages of a program, and the frames that carry them.
Of(p) == app.program[p.by][p.nr]
Pieces == {p \in [by : Threads, nr : Nat, packet : Nat] :
              p.nr \in DOMAIN app.program[p.by] /\ p.packet \in 1 .. Of(p).packets}
PieceId(p) == [type |-> Of(p).type, mid |-> Of(p).mid,
               sid |-> app.node[p.by], did |-> Of(p).did]
FragmentOf(p) == [type |-> Of(p).type, mid |-> Of(p).mid,
                  sid |-> app.node[p.by], did |-> Of(p).did,
                  cur |-> p.packet, last |-> Of(p).packets, data |-> p]
Fragments == {FragmentOf(p) : p \in Pieces}

\* data is the first fragments, in order, of messages of last fragments that
\* are sent as id.
Gathered(data, id, last) ==
    /\ data \in Seq(Pieces) /\ data # <<>>
    /\ \A k \in 1 .. Len(data) : /\ data[k].packet = k
                                 /\ PieceId(data[k]) = id
                                 /\ Of(data[k]).packets = last
Complete(data, id) == Gathered(data, id, Len(data))

\* The command an answer is for.
CommandId(c, id) == [type |-> c, mid |-> id.mid, sid |-> id.did, did |-> id.sid]

\* The node an answer comes from has given a message of that id, complete, to
\* its callbacks, and the answer says what they returned.
Given(id, code) ==
    /\ code <= 0
    /\ \E d \in delivered : \E c \in Commands :
          /\ id.type = AckType(c)
          /\ d = [node |-> id.sid, data |-> d.data, status |-> -code]
          /\ Complete(d.data, CommandId(c, id))

AckIds == [type : {AckType(c) : c \in Commands}, mid : Nat,
           sid : Nodes \cup {Broadcast}, did : Nodes \cup {Broadcast}]
AnswerFrames == [type : {AckType(c) : c \in Commands}, mid : Nat,
                 sid : Nodes \cup {Broadcast}, did : Nodes \cup {Broadcast}, code : Int]
Answers == {f \in AnswerFrames : Given(IdOf(f), f.code)}

BusOK == bus \in [Nodes -> Seq(Fragments \cup Answers)]

\* A reassembly has the first cur of last fragments.
Assembled(s, id) ==
    s.cur # 0 => /\ s.cur \in Nat /\ s.cur = Len(s.data) /\ s.cur < s.last
                 /\ Gathered(s.data, id, s.last)
ReassemblyOK == /\ DOMAIN ext = Nodes
                /\ \A n \in Nodes : \A id \in DOMAIN ext[n] : Assembled(ext[n][id], id)

\* The list of a node: one entry for each of its commands in progress.
Entries == {e \in [by : Threads, id : AckIds, posts : Nat, code : Int] :
               e.code = Garbage \/ Given(e.id, e.code)}
Busy(t) == pc[t] # "idle" /\ Acked(t)
Listed(n, e) == Sid(e.by) = n /\ Busy(e.by) /\ e.id = Expected(e.by)
ListsOK ==
    /\ AckNaks \in [Nodes -> Seq(Entries)]
    /\ \A n \in Nodes : \A i \in 1 .. Len(AckNaks[n]) : Listed(n, AckNaks[n][i])
    /\ \A n \in Nodes : \A i, j \in 1 .. Len(AckNaks[n]) :
          AckNaks[n][i].by = AckNaks[n][j].by => i = j
    /\ \A t \in Threads : Busy(t) =>
          \E i \in 1 .. Len(AckNaks[Sid(t)]) : AckNaks[Sid(t)][i].by = t

\* What a command has returned.
AnswerId(t, i) == LET m == app.program[t][i]
                  IN  [type |-> AckType(m.type), mid |-> m.mid, sid |-> m.did, did |-> Sid(t)]
ReturnedOK ==
    \A t \in Threads : \A i \in DOMAIN status[t] :
        app.program[t][i].type \in Commands =>
            \/ status[t][i] \in {CsFailed, CsTimeout, Garbage}
            \/ Given(AnswerId(t, i), status[t][i])

DeliveredOK == \A d \in delivered : \E p \in Pieces : Complete(d.data, PieceId(p))

Inv == /\ SendersOK /\ SlotsOK /\ BusOK /\ ReassemblyOK
       /\ ListsOK /\ ReturnedOK /\ DeliveredOK

-----------------------------------------------------------------------------
(***************************************************************************)
(* Sets of numbers, lists, and the bus.                                     *)
(***************************************************************************)
LEMMA LeastElement ==
    ASSUME NEW T, T \subseteq Nat, T # {}
    PROVE  Min(T) \in T /\ \A y \in T : Min(T) <= y
<1>1. PICK x \in T : \A y \in T : ~ (<<y, x>> \in OpToRel(<, Nat))
  BY NatLessThanWellFounded, WFMin
<1>2. \A y \in T : ~ (y < x)
  BY <1>1 DEF OpToRel
<1>3. \A y \in T : x <= y
  BY <1>2
<1>. QED
  BY <1>3 DEF Min

\* The greatest of some of the first n numbers is n less the least distance to n.
LEMMA GreatestElement ==
    ASSUME NEW n \in Nat, NEW T, T \subseteq 1 .. n, T # {}
    PROVE  Max(T) \in T
<1>. DEFINE D == {k \in Nat : n - k \in T}
<1>1. D # {} /\ D \subseteq Nat
  <2>1. PICK x \in T : TRUE
    OBVIOUS
  <2>2. n - x \in Nat /\ n - (n - x) = x
    BY <2>1
  <2>. QED
    BY <2>1, <2>2
<1>2. PICK k \in D : \A y \in D : k <= y
  BY <1>1, LeastElement
<1>3. \A y \in T : y <= n - k
  <2>. SUFFICES ASSUME NEW y \in T PROVE y <= n - k
    OBVIOUS
  <2>1. n - y \in Nat /\ n - (n - y) = y
    OBVIOUS
  <2>2. n - y \in D
    BY <2>1
  <2>3. k <= n - y /\ k \in Nat
    BY <1>2, <2>2
  <2>. QED
    BY <2>1, <2>3
<1>4. n - k \in T
  BY <1>2
<1>. QED
  BY <1>3, <1>4 DEF Max

(* A list without one of its members: list::remove.                         *)
LEMMA Removed ==
    ASSUME NEW S, NEW s \in Seq(S), NEW k \in 1 .. Len(s)
    PROVE  /\ RemoveAt(s, k) \in Seq(S) /\ Len(RemoveAt(s, k)) = Len(s) - 1
           /\ \A i \in 1 .. Len(s) - 1 : RemoveAt(s, k)[i] = IF i < k THEN s[i] ELSE s[i + 1]
<1>. DEFINE a == SubSeq(s, 1, k - 1)
            b == SubSeq(s, k + 1, Len(s))
            r == RemoveAt(s, k)
<1>1. a \in Seq(S) /\ Len(a) = k - 1 /\ \A i \in 1 .. k - 1 : a[i] = s[i]
  BY SubSeqProperties
<1>2. b \in Seq(S) /\ Len(b) = Len(s) - k /\ \A i \in 1 .. Len(s) - k : b[i] = s[k + i]
  BY SubSeqProperties
<1>3. r = a \o b
  BY DEF RemoveAt
<1>. HIDE DEF a, b, r
<1>4. /\ r \in Seq(S) /\ Len(r) = Len(a) + Len(b)
      /\ \A i \in 1 .. Len(a) + Len(b) : r[i] = IF i <= Len(a) THEN a[i] ELSE b[i - Len(a)]
  BY <1>1, <1>2, <1>3, ConcatProperties
<1>5. Len(s) \in Nat /\ k \in 1 .. Len(s)
  OBVIOUS
<1>6. ASSUME NEW i \in 1 .. Len(s) - 1 PROVE r[i] = IF i < k THEN s[i] ELSE s[i + 1]
  <2>1. CASE i < k
    <3>1. i \in 1 .. k - 1 /\ i \in 1 .. Len(a) + Len(b) /\ i <= Len(a)
      BY <1>1, <1>2, <1>5, <2>1
    <3>2. r[i] = a[i] /\ a[i] = s[i]
      BY <1>1, <1>4, <3>1
    <3>. QED
      BY <2>1, <3>2
  <2>2. CASE i >= k
    <3>1. i - (k - 1) \in 1 .. Len(s) - k /\ k + (i - (k - 1)) = i + 1 /\ i \in 1 .. Len(a) + Len(b)
      BY <1>1, <1>2, <1>5, <2>2
    <3>2. r[i] = b[i - (k - 1)]
      BY <1>1, <1>4, <1>5, <2>2, <3>1
    <3>. QED
      BY <1>2, <1>5, <2>2, <3>1, <3>2
  <2>. QED
    BY <1>5, <2>1, <2>2
<1>. QED
  BY <1>1, <1>2, <1>4, <1>5, <1>6 DEF r

\* A callback's status, and what a frame nobody matches is answered, is a number.
LEMMA AnswerIsNat ==
    ASSUME SlotsOK, NEW n \in Nodes, NEW f
    PROVE  Answer(n, f) \in Nat
<1>1. slots[n] \in Seq(Rows)
  BY DEF SlotsOK
<1>2. CASE Matching(n, f) = {}
  BY <1>2 DEF Answer, CsUnknownMessage
<1>3. CASE Matching(n, f) # {}
  <2>1. Matching(n, f) \subseteq 1 .. Len(slots[n]) /\ Len(slots[n]) \in Nat
    BY <1>1 DEF Matching
  <2>2. Max(Matching(n, f)) \in 1 .. Len(slots[n])
    BY <1>3, <2>1, GreatestElement
  <2>3. slots[n][Max(Matching(n, f))] \in Rows
    BY <1>1, <2>2
  <2>. QED
    BY <1>3, <2>3 DEF Answer, Rows
<1>. QED
  BY <1>2, <1>3

LEMMA TransmitKeeps ==
    ASSUME NEW G, NEW f \in G, NEW queues \in [Nodes -> Seq(G)]
    PROVE  Transmit(queues, f) \in [Nodes -> Seq(G)]
BY AppendProperties DEF Transmit

LEMMA TakenKeeps ==
    ASSUME NEW G, bus \in [Nodes -> Seq(G)], NEW n \in Nodes, bus[n] # <<>>
    PROVE  Taken(n) \in [Nodes -> Seq(G)] /\ Received(n) \in G
<1>1. Head(bus[n]) \in G /\ Tail(bus[n]) \in Seq(G)
  BY HeadTailProperties
<1>. QED
  BY <1>1 DEF Taken, Received

(***************************************************************************)
(* What no step undoes: the application stays, and what was delivered.      *)
(***************************************************************************)
LEMMA OnlyGrows ==
    ASSUME [Next]_vars
    PROVE  app' = app /\ delivered \subseteq delivered'
<1>. USE DEF vars, senders, receivers
<1>1. ASSUME NEW t \in Threads, SendStep(t) \/ WriteFails(t) \/ Interrupted(t)
      PROVE  app' = app /\ delivered' = delivered
  BY <1>1 DEF SendStep, Send, Write, WriteFails, Answered, Timeout, Interrupted, Leave
<1>2. ASSUME NEW n \in Nodes, ReceiveStep(n) \/ AddMessageSlots(n) \/ Lose(n)
      PROVE  app' = app /\ delivered \subseteq delivered'
  BY <1>2 DEF ReceiveStep, NotForMe, ReceiveCommand, ReceiveExtCommand, ReceiveAnnouncement,
              ReceiveExtAnnouncement, ReceiveAckNak, AddMessageSlots, Lose, Reassemble, Deliver, Reject
<1>. QED
  BY <1>1, <1>2 DEF Next

LEMMA PiecesStay ==
    ASSUME app' = app
    PROVE  /\ Pieces' = Pieces /\ Fragments' = Fragments
           /\ \A p : PieceId(p)' = PieceId(p) /\ Of(p)' = Of(p)
BY DEF Pieces, Fragments, FragmentOf, PieceId, Of

LEMMA GatheredStays ==
    ASSUME app' = app, NEW data, NEW id, NEW last
    PROVE  Gathered(data, id, last)' = Gathered(data, id, last)
BY DEF Gathered, Pieces, PieceId, Of

LEMMA GivenLasts ==
    ASSUME app' = app, delivered \subseteq delivered', NEW id, NEW code, Given(id, code)
    PROVE  Given(id, code)'
BY GatheredStays DEF Given, Complete

LEMMA AnswersLast ==
    ASSUME app' = app, delivered \subseteq delivered'
    PROVE  Answers \subseteq Answers' /\ Entries \subseteq Entries'
BY GivenLasts DEF Answers, Entries

-----------------------------------------------------------------------------
(***************************************************************************)
(* The threads that send.                                                   *)
(***************************************************************************)
LEMMA AppTypes ==
    ASSUME app \in Apps
    PROVE  /\ app.node \in [Threads -> Nodes]
           /\ app.program \in [Threads -> Seq(Messages)]
           /\ DOMAIN app.slots \subseteq Nodes
           /\ app.slots \in [DOMAIN app.slots -> Seq(Groups)]
BY AppsAssumption

LEMMA MessageTypes ==
    ASSUME app \in Apps, NEW t \in Threads, NEW i \in DOMAIN app.program[t]
    PROVE  /\ app.program[t][i] \in Messages
           /\ app.program[t][i].type \in Commands \cup Announcements
           /\ app.program[t][i].mid \in Nat
           /\ app.program[t][i].did \in Nodes \cup {Broadcast}
           /\ app.program[t][i].packets \in Nat \ {0}
           /\ app.program[t][i].type \in {"CMD", "ANN"} => app.program[t][i].packets = 1
<1>1. app.program[t] \in Seq(Messages)
  BY AppTypes
<1>2. app.program[t][i] \in Messages
  BY <1>1
<1>. QED
  BY <1>2 DEF Messages

\* A command in progress has exactly one entry, in the list of its node.
LEMMA HasEntry ==
    ASSUME SendersOK, ListsOK, NEW t \in Threads, pc[t] # "idle", Acked(t)
    PROVE  /\ Sid(t) \in Nodes
           /\ MyEntry(t) \in 1 .. Len(AckNaks[Sid(t)])
           /\ AckNaks[Sid(t)][MyEntry(t)].by = t
           /\ AckNaks[Sid(t)][MyEntry(t)] \in Entries
           /\ AckNaks[Sid(t)] \in Seq(Entries)
<1>1. Sid(t) \in Nodes
  BY AppTypes DEF SendersOK, Sid
<1>2. AckNaks[Sid(t)] \in Seq(Entries)
  BY <1>1 DEF ListsOK
<1>3. \E i \in DOMAIN AckNaks[Sid(t)] : AckNaks[Sid(t)][i].by = t
  BY <1>2 DEF ListsOK, Busy
<1>4. MyEntry(t) \in DOMAIN AckNaks[Sid(t)] /\ AckNaks[Sid(t)][MyEntry(t)].by = t
  BY <1>3 DEF MyEntry
<1>. QED
  BY <1>1, <1>2, <1>4

\* The thread's next message becomes its last one.
LEMMA ReturnedOne ==
    ASSUME SendersOK, NEW t \in Threads, pc[t] # "idle", NEW code \in Int,
           status' = [status EXCEPT ![t] = Append(@, code)]
    PROVE  /\ status' \in [Threads -> Seq(Int)]
           /\ \A u \in Threads : u # t => status'[u] = status[u]
           /\ DOMAIN status'[t] = DOMAIN status[t] \cup {Nr(t)}
           /\ status'[t][Nr(t)] = code
           /\ \A i \in DOMAIN status[t] : status'[t][i] = status[t][i]
           /\ DOMAIN status'[t] \subseteq DOMAIN app.program[t]
           /\ Nr(t) \in DOMAIN app.program[t]
<1>1. status[t] \in Seq(Int) /\ Len(status[t]) \in Nat /\ Nr(t) = Len(status[t]) + 1
  BY DEF SendersOK, Nr
<1>2. status'[t] = Append(status[t], code)
  BY DEF SendersOK
<1>3. /\ status'[t] \in Seq(Int) /\ Len(status'[t]) = Len(status[t]) + 1
      /\ status'[t][Nr(t)] = code
      /\ \A i \in 1 .. Len(status[t]) : status'[t][i] = status[t][i]
  BY <1>1, <1>2, AppendProperties
<1>4. DOMAIN status'[t] = DOMAIN status[t] \cup {Nr(t)}
  BY <1>1, <1>3
<1>5. status' \in [Threads -> Seq(Int)] /\ \A u \in Threads : u # t => status'[u] = status[u]
  BY <1>3 DEF SendersOK
<1>6. DOMAIN status[t] \subseteq DOMAIN app.program[t] /\ Nr(t) \in DOMAIN app.program[t]
  BY DEF SendersOK
<1>. QED
  BY <1>1, <1>3, <1>4, <1>5, <1>6

\* What a call that leaves returns: it failed, it timed out, or its entry's code.
LEMMA LeavingCode ==
    ASSUME SendersOK, ListsOK, NEW t \in Threads, Leave(t)
    PROVE  \E code \in Int :
              /\ status' = [status EXCEPT ![t] = Append(@, code)]
              /\ \/ code \in {CsFailed, CsTimeout, Garbage}
                 \/ Given(AnswerId(t, Nr(t)), code)
<1>1. Acked(t) /\ pc[t] # "idle"
  BY DEF Leave, SendersOK, Waiting
<1>. DEFINE e == AckNaks[Sid(t)][MyEntry(t)]
<1>2. /\ Sid(t) \in Nodes /\ MyEntry(t) \in 1 .. Len(AckNaks[Sid(t)])
      /\ e.by = t /\ e \in Entries
  BY <1>1, HasEntry
<1>3. e.id = Expected(t)
  BY <1>2 DEF ListsOK, Listed
<1>4. e.code \in Int /\ (e.code = Garbage \/ Given(e.id, e.code))
  BY <1>2 DEF Entries
<1>5. Expected(t) = AnswerId(t, Nr(t))
  BY DEF Expected, AnswerId, Message
<1>. HIDE DEF e
<1>6. CASE pc[t] \in {"failed", "timedout"}
  <2>. DEFINE code == IF pc[t] = "failed" THEN CsFailed ELSE CsTimeout
  <2>1. status' = [status EXCEPT ![t] = Append(@, code)]
    BY <1>6 DEF Leave, Return
  <2>2. code \in Int /\ code \in {CsFailed, CsTimeout, Garbage}
    BY DEF CsFailed, CsTimeout
  <2>. HIDE DEF code
  <2>. QED
    BY <2>1, <2>2
<1>7. CASE pc[t] \notin {"failed", "timedout"}
  <2>1. status' = [status EXCEPT ![t] = Append(@, e.code)]
    BY <1>7 DEF Leave, Return, e
  <2>. QED
    BY <1>3, <1>4, <1>5, <2>1
<1>. QED
  BY <1>6, <1>7

LEMMA SendersStay ==
    ASSUME SendersOK, UNCHANGED <<app, pc, status, packet>>
    PROVE  SendersOK'
BY DEF SendersOK, Nr, Message, Acked

LEMMA SendersStep ==
    ASSUME SendersOK, ListsOK, [Next]_vars
    PROVE  SendersOK'
<1>. USE DEF vars, senders, receivers
<1>0. app' = app
  BY OnlyGrows
<1>1. ASSUME NEW t \in Threads, Send(t) PROVE SendersOK'
  <2>1. Nr(t) \in DOMAIN app.program[t]
    <3>1. app.program[t] \in Seq(Messages) /\ status[t] \in Seq(Int)
      BY AppTypes DEF SendersOK
    <3>. QED
      BY <1>1, <3>1 DEF Send, Nr
  <2>2. Message(t).packets \in Nat \ {0}
    BY <2>1, MessageTypes DEF SendersOK, Message
  <2>. QED
    BY <1>1, <2>1, <2>2 DEF Send, SendersOK, Nr, Message, Acked, Waiting
<1>2. ASSUME NEW t \in Threads, Write(t) PROVE SendersOK'
  <2>1. Message(t).packets \in Nat \ {0} /\ packet[t] \in Nat \ {0}
    BY <1>2, MessageTypes DEF SendersOK, Message, Write
  <2>2. packet' \in [Threads -> Nat \ {0}]
    BY <1>2 DEF Write, SendersOK
  <2>3. CASE packet[t] < Message(t).packets /\ UNCHANGED <<pc, status>>
    BY <1>2, <2>1, <2>2, <2>3 DEF Write, SendersOK, Nr, Message, Acked
  <2>4. CASE Acked(t) /\ pc' = [pc EXCEPT ![t] = "wait"] /\ UNCHANGED status
    BY <1>2, <2>2, <2>4 DEF Write, SendersOK, Nr, Message, Acked, Waiting
  <2>5. CASE Return(t, CsSuccess)
    <3>1. /\ status' \in [Threads -> Seq(Int)] /\ DOMAIN status'[t] \subseteq DOMAIN app.program[t]
          /\ \A u \in Threads : u # t => status'[u] = status[u]
      <4>1. status' = [status EXCEPT ![t] = Append(@, 0)] /\ pc[t] # "idle" /\ 0 \in Int
        BY <1>2, <2>5 DEF Return, CsSuccess, Write
      <4>. QED
        BY <4>1, ReturnedOne
    <3>. QED
      BY <1>0, <1>2, <2>2, <2>5, <3>1 DEF Write, Return, SendersOK, Nr, Message, Acked, Waiting
  <2>. QED
    BY <1>2, <2>1, <2>3, <2>4, <2>5 DEF Write
<1>3. ASSUME NEW t \in Threads, WriteFails(t) PROVE SendersOK'
  <2>1. CASE Acked(t)
    BY <1>3, <2>1 DEF WriteFails, SendersOK, Nr, Message, Acked, Waiting
  <2>2. CASE ~Acked(t)
    <3>1. /\ status' \in [Threads -> Seq(Int)] /\ DOMAIN status'[t] \subseteq DOMAIN app.program[t]
          /\ \A u \in Threads : u # t => status'[u] = status[u]
      <4>1. status' = [status EXCEPT ![t] = Append(@, 8)] /\ pc[t] # "idle" /\ 8 \in Int
        BY <1>3, <2>2 DEF Return, CsFailed, WriteFails
      <4>. QED
        BY <4>1, ReturnedOne
    <3>. QED
      BY <1>0, <1>3, <2>2, <3>1 DEF WriteFails, Return, SendersOK, Nr, Message, Acked, Waiting
  <2>. QED
    BY <2>1, <2>2
<1>4. ASSUME NEW t \in Threads, Answered(t) PROVE SendersOK'
  BY <1>4 DEF Answered, SendersOK, Nr, Message, Acked, Waiting
<1>5. ASSUME NEW t \in Threads, Timeout(t) \/ Interrupted(t) PROVE SendersOK'
  <2>1. Message(t).packets \in Nat \ {0}
    BY <1>5, MessageTypes DEF SendersOK, Message, Timeout, Interrupted
  <2>2. /\ packet' = [packet EXCEPT ![t] = 1] /\ UNCHANGED status /\ pc[t] = "wait"
        /\ \E p \in {"send", "answered", "timedout"} : pc' = [pc EXCEPT ![t] = p]
    BY <1>5 DEF Timeout, Interrupted, Resend
  <2>. QED
    BY <1>0, <2>1, <2>2 DEF SendersOK, Nr, Message, Acked, Waiting
<1>6. ASSUME NEW t \in Threads, Leave(t) PROVE SendersOK'
  <2>1. PICK code \in Int : status' = [status EXCEPT ![t] = Append(@, code)]
    BY <1>6, LeavingCode
  <2>2. /\ status' \in [Threads -> Seq(Int)] /\ DOMAIN status'[t] \subseteq DOMAIN app.program[t]
        /\ \A u \in Threads : u # t => status'[u] = status[u]
    BY <1>6, <2>1, ReturnedOne DEF Leave
  <2>. QED
    BY <1>0, <1>6, <2>2 DEF Leave, Return, SendersOK, Nr, Message, Acked, Waiting
<1>7. ASSUME NEW n \in Nodes, ReceiveStep(n) \/ AddMessageSlots(n) \/ Lose(n) PROVE SendersOK'
  <2>1. UNCHANGED <<app, pc, status, packet>>
    BY <1>0, <1>7 DEF ReceiveStep, NotForMe, ReceiveCommand, ReceiveExtCommand, ReceiveAnnouncement,
                 ReceiveExtAnnouncement, ReceiveAckNak, AddMessageSlots, Lose
  <2>. QED
    BY <2>1, SendersStay
<1>. QED
  BY <1>1, <1>2, <1>3, <1>4, <1>5, <1>6, <1>7, SendersStay DEF Next, SendStep

(***************************************************************************)
(* The slots, the bus and the reassemblies.                                 *)
(***************************************************************************)
LEMMA SlotsStep ==
    ASSUME SendersOK, SlotsOK, [Next]_vars
    PROVE  SlotsOK'
<1>. USE DEF vars, senders, receivers
<1>1. ASSUME NEW n \in Nodes, AddMessageSlots(n) PROVE SlotsOK'
  <2>0. /\ n \in DOMAIN app.slots /\ groups[n] < Len(app.slots[n])
        /\ groups' = [groups EXCEPT ![n] = groups[n] + 1] /\ groups[n] \in Nat
    BY <1>1 DEF AddMessageSlots, SlotsOK
  <2>1. groups'[n] = groups[n] + 1 /\ groups' \in [Nodes -> Nat]
    BY <2>0 DEF SlotsOK
  <2>2. app.slots[n] \in Seq(Groups) /\ groups[n] + 1 \in 1 .. Len(app.slots[n])
    <3>1. app.slots[n] \in Seq(Groups)
      BY <2>0, AppTypes DEF SendersOK
    <3>2. Len(app.slots[n]) \in Nat
      BY <3>1
    <3>. QED
      BY <2>0, <3>1, <3>2
  <2>. DEFINE g == app.slots[n][groups'[n]]
  <2>3. g \in Groups /\ g.rows \in Seq(Rows)
    <3>1. g = app.slots[n][groups[n] + 1]
      BY <2>1
    <3>2. g \in Groups
      BY <2>2, <3>1
    <3>. QED
      BY <3>2 DEF Groups
  <2>. HIDE DEF g
  <2>4. Reverse(g.rows) \in Seq(Rows)
    <3>1. \A i \in 1 .. Len(g.rows) : Len(g.rows) - i + 1 \in 1 .. Len(g.rows)
      BY <2>3
    <3>2. Reverse(g.rows) \in [1 .. Len(g.rows) -> Rows]
      BY <2>3, <3>1 DEF Reverse
    <3>. QED
      BY <2>3, <3>2
  <2>5. slots[n] \in Seq(Rows)
    BY DEF SlotsOK
  <2>6. Reverse(g.rows) \o slots[n] \in Seq(Rows) /\ slots[n] \o g.rows \in Seq(Rows)
    BY <2>3, <2>4, <2>5, ConcatProperties
  <2>7. slots' = [slots EXCEPT ![n] = IF g.priority THEN Reverse(g.rows) \o @ ELSE @ \o g.rows]
    BY <1>1 DEF AddMessageSlots, g
  <2>8. slots' \in [Nodes -> Seq(Rows)]
    BY <2>6, <2>7 DEF SlotsOK
  <2>. QED
    BY <2>1, <2>8 DEF SlotsOK
<1>2. ASSUME NEW n \in Nodes, ReceiveStep(n) \/ Lose(n) PROVE UNCHANGED <<slots, groups>>
  BY <1>2 DEF ReceiveStep, NotForMe, ReceiveCommand, ReceiveExtCommand, ReceiveAnnouncement,
              ReceiveExtAnnouncement, ReceiveAckNak, Lose
<1>3. ASSUME NEW t \in Threads, SendStep(t) \/ WriteFails(t) \/ Interrupted(t)
      PROVE  UNCHANGED <<slots, groups>>
  BY <1>3 DEF SendStep, Send, Write, WriteFails, Answered, Timeout, Interrupted, Leave
<1>4. CASE UNCHANGED <<slots, groups>>
  BY <1>4 DEF SlotsOK
<1>. QED
  BY <1>1, <1>2, <1>3, <1>4 DEF Next

LEMMA FragmentFacts ==
    ASSUME SendersOK, NEW f \in Fragments
    PROVE  /\ f.data \in Pieces /\ IdOf(f) = PieceId(f.data)
           /\ f.cur = f.data.packet /\ f.last = Of(f.data).packets
           /\ f.cur \in Nat /\ f.last \in Nat /\ 1 <= f.cur /\ f.cur <= f.last
           /\ f.type \in Commands \cup Announcements
           /\ f.type \in {"CMD", "ANN"} => f.last = 1
           /\ f.mid \in Nat /\ f.sid \in Nodes /\ f.did \in Nodes \cup {Broadcast}
<1>1. PICK p \in Pieces : f = FragmentOf(p)
  BY DEF Fragments
<1>2. p.by \in Threads /\ p.nr \in DOMAIN app.program[p.by] /\ p.packet \in 1 .. Of(p).packets
  BY DEF Pieces
<1>3. /\ Of(p).type \in Commands \cup Announcements /\ Of(p).mid \in Nat
      /\ Of(p).did \in Nodes \cup {Broadcast} /\ Of(p).packets \in Nat \ {0}
      /\ Of(p).type \in {"CMD", "ANN"} => Of(p).packets = 1
  BY <1>2, MessageTypes DEF Of, SendersOK
<1>4. app.node[p.by] \in Nodes
  BY <1>2, AppTypes DEF SendersOK
<1>5. /\ f.data = p /\ f.cur = p.packet /\ f.last = Of(p).packets
      /\ f.type = Of(p).type /\ f.mid = Of(p).mid /\ f.sid = app.node[p.by] /\ f.did = Of(p).did
  BY <1>1 DEF FragmentOf
<1>6. IdOf(f) = PieceId(p)
  BY <1>5 DEF IdOf, PieceId
<1>. QED
  BY <1>2, <1>3, <1>4, <1>5, <1>6

LEMMA AnswerFacts ==
    ASSUME NEW f \in Answers
    PROVE  /\ f.type \in {AckType(c) : c \in Commands} /\ f.code \in Int
           /\ IdOf(f) \in AckIds /\ Given(IdOf(f), f.code)
BY DEF Answers, AnswerFrames, AckIds, IdOf

LEMMA FrameKinds ==
    ASSUME SendersOK, NEW f \in Fragments \cup Answers
    PROVE  /\ f.type \in Commands \cup Announcements => f \in Fragments
           /\ f.type \in {AckType(c) : c \in Commands} => f \in Answers
<1>1. f \in Fragments => f.type \in Commands \cup Announcements
  BY FragmentFacts
<1>2. f \in Answers => f.type \in {AckType(c) : c \in Commands}
  BY AnswerFacts
<1>. QED
  BY <1>1, <1>2 DEF AckType, Commands, Announcements

\* The first fragment of a message; one more, in its turn.
LEMMA GatheredOne ==
    ASSUME NEW p \in Pieces, p.packet = 1
    PROVE  Gathered(<<p>>, PieceId(p), Of(p).packets)
BY DEF Gathered

LEMMA GatheredMore ==
    ASSUME NEW data, NEW id, NEW last, Gathered(data, id, last),
           NEW p \in Pieces, PieceId(p) = id, Of(p).packets = last, p.packet = Len(data) + 1
    PROVE  Gathered(Append(data, p), id, last) /\ Len(Append(data, p)) = Len(data) + 1
<1>1. /\ data \in Seq(Pieces) /\ Len(data) \in Nat
      /\ \A k \in 1 .. Len(data) : data[k].packet = k /\ PieceId(data[k]) = id /\ Of(data[k]).packets = last
  BY DEF Gathered
<1>2. /\ Append(data, p) \in Seq(Pieces) /\ Len(Append(data, p)) = Len(data) + 1
      /\ Append(data, p)[Len(data) + 1] = p
      /\ \A k \in 1 .. Len(data) : Append(data, p)[k] = data[k]
  BY <1>1, AppendProperties
<1>3. ASSUME NEW k \in 1 .. Len(Append(data, p))
      PROVE  /\ Append(data, p)[k].packet = k /\ PieceId(Append(data, p)[k]) = id
             /\ Of(Append(data, p)[k]).packets = last
  <2>1. CASE k = Len(data) + 1
    BY <1>2, <2>1
  <2>2. CASE k # Len(data) + 1
    <3>1. k \in 1 .. Len(data)
      BY <1>1, <1>2, <2>2
    <3>. QED
      BY <1>1, <1>2, <3>1
  <2>. QED
    BY <2>1, <2>2
<1>4. Append(data, p) # <<>>
  BY <1>1, <1>2
<1>. QED
  BY <1>2, <1>3, <1>4 DEF Gathered

LEMMA AssembledStays ==
    ASSUME app' = app, NEW s, NEW id
    PROVE  Assembled(s, id)' = Assembled(s, id)
BY GatheredStays DEF Assembled

LEMMA SetStateKeeps ==
    ASSUME ReassemblyOK, app' = app, NEW n \in Nodes, NEW f, NEW s,
           SetState(n, f, s), Assembled(s, IdOf(f))
    PROVE  ReassemblyOK'
<1>1. DOMAIN ext' = Nodes /\ DOMAIN ext = Nodes
  BY DEF ReassemblyOK, SetState
<1>2. ASSUME NEW m \in Nodes, NEW id \in DOMAIN ext'[m], NEW x, x = ext'[m][id]
      PROVE  Assembled(x, id)'
  <2>1. CASE m = n /\ id = IdOf(f)
    <3>1. x = s
      BY <1>1, <1>2, <2>1 DEF SetState
    <3>. QED
      BY <2>1, <3>1, AssembledStays
  <2>2. CASE ~(m = n /\ id = IdOf(f))
    <3>1. id \in DOMAIN ext[m] /\ x = ext[m][id]
      BY <1>1, <1>2, <2>2 DEF SetState
    <3>2. Assembled(x, id)
      BY <3>1 DEF ReassemblyOK
    <3>. QED
      BY <3>2, AssembledStays
  <2>. QED
    BY <2>1, <2>2
<1>. QED
  BY <1>1, <1>2 DEF ReassemblyOK

\* A reassembly delivers only what is complete, and stays one of its id.
LEMMA Reassembled ==
    ASSUME SendersOK, ReassemblyOK, app' = app,
           NEW n \in Nodes, NEW f \in Fragments, Reassemble(n, f)
    PROVE  /\ ReassemblyOK'
           /\ \/ delivered' = delivered /\ ~Completes(State(n, f), f)
              \/ \E data : Deliver(n, f, data) /\ Complete(data, IdOf(f))
<1>. DEFINE s == State(n, f)
            data == IF s.cur = 0 THEN <<f.data>> ELSE Append(s.data, f.data)
<1>1. /\ f.data \in Pieces /\ IdOf(f) = PieceId(f.data)
      /\ f.cur = f.data.packet /\ f.last = Of(f.data).packets
      /\ f.cur \in Nat /\ f.last \in Nat /\ 1 <= f.cur /\ f.cur <= f.last
  BY FragmentFacts
<1>2. Assembled(s, IdOf(f))
  BY DEF ReassemblyOK, State, Assembled, Idle
<1>3. ASSUME Continues(s, f) \/ Completes(s, f)
      PROVE  Gathered(data, IdOf(f), f.last) /\ Len(data) = f.cur
  <2>1. CASE s.cur = 0
    <3>1. f.cur = 1 /\ data = <<f.data>>
      BY <1>3, <2>1 DEF Continues, Completes
    <3>. QED
      BY <1>1, <3>1, GatheredOne
  <2>2. CASE s.cur # 0
    <3>1. /\ s.cur = Len(s.data) /\ Gathered(s.data, IdOf(f), s.last)
          /\ f.cur = s.cur + 1 /\ f.last = s.last /\ data = Append(s.data, f.data)
      BY <1>2, <1>3, <2>2 DEF Continues, Completes, InOrder, Assembled
    <3>2. Gathered(Append(s.data, f.data), IdOf(f), s.last)
          /\ Len(Append(s.data, f.data)) = Len(s.data) + 1
      BY <1>1, <3>1, GatheredMore
    <3>. QED
      BY <3>1, <3>2
  <2>. QED
    BY <2>1, <2>2
<1>. HIDE DEF data
<1>4. CASE /\ Continues(s, f) /\ delivered' = delivered
           /\ SetState(n, f, [cur |-> f.cur, last |-> f.last, data |-> data])
  <2>. DEFINE x == [cur |-> f.cur, last |-> f.last, data |-> data]
  <2>1. f.cur < f.last
    BY <1>1, <1>2, <1>4 DEF Continues, InOrder, Assembled
  <2>2. Assembled(x, IdOf(f))
    BY <1>1, <1>3, <1>4, <2>1 DEF Assembled
  <2>3. SetState(n, f, x)
    BY <1>4
  <2>. HIDE DEF x
  <2>4. ReassemblyOK'
    BY <2>2, <2>3, SetStateKeeps
  <2>5. ~Completes(s, f)
    BY <1>1, <1>2, <1>4, <2>1 DEF Completes, Continues, InOrder, Assembled
  <2>. QED
    BY <1>4, <2>4, <2>5
<1>5. CASE Completes(s, f) /\ Deliver(n, f, data) /\ SetState(n, f, AfterLast(s, f))
  <2>1. f.cur = f.last
    BY <1>5 DEF Completes, InOrder
  <2>2. Complete(data, IdOf(f))
    BY <1>3, <1>5, <2>1 DEF Complete
  <2>3. Assembled(AfterLast(s, f), IdOf(f))
    BY <1>2 DEF AfterLast, Assembled, Idle
  <2>4. PICK x : x = AfterLast(s, f)
    OBVIOUS
  <2>5. ReassemblyOK'
    BY <1>5, <2>3, <2>4, SetStateKeeps
  <2>. QED
    BY <1>5, <2>2, <2>5
<1>6. CASE ~Completes(s, f) /\ delivered' = delivered /\ SetState(n, f, Idle)
  <2>1. Assembled(Idle, IdOf(f))
    BY DEF Assembled, Idle
  <2>2. ReassemblyOK'
    BY <1>6, <2>1, SetStateKeeps
  <2>. QED
    BY <1>6, <2>2
<1>. QED
  BY <1>4, <1>5, <1>6 DEF Reassemble, Reject, data

\* The answer to a command says what its callbacks returned.
LEMMA AnswerGiven ==
    ASSUME SendersOK, SlotsOK, app' = app, NEW n \in Nodes, NEW f \in Fragments,
           f.type \in Commands, f.did = n, NEW data, Deliver(n, f, data), Complete(data, IdOf(f)),
           NEW a, a = AnswerFrame(n, f)
    PROVE  a \in Answers'
<1>1. /\ f.mid \in Nat /\ f.sid \in Nodes
  BY FragmentFacts
<1>2. PICK k \in Nat : k = Answer(n, f)
  BY AnswerIsNat
<1>3. PICK d : d = [node |-> n, data |-> data, status |-> k]
  OBVIOUS
<1>4. d \in delivered' /\ delivered \subseteq delivered'
  BY <1>2, <1>3 DEF Deliver
<1>5. /\ a.type = AckType(f.type) /\ a.mid = f.mid /\ a.sid = n /\ a.did = f.sid
      /\ a.code = -k /\ a \in AnswerFrames
  <2>1. (IF k = CsSuccess THEN 0 ELSE Nak(k)) = -k
    BY DEF CsSuccess, Nak
  <2>2. a = [type |-> AckType(f.type), mid |-> f.mid, sid |-> n, did |-> f.sid, code |-> -k]
    BY <1>2, <2>1 DEF AnswerFrame
  <2>. QED
    BY <1>1, <2>2 DEF AnswerFrames
<1>6. PICK id : id = IdOf(a)
  OBVIOUS
<1>7. CommandId(f.type, id) = IdOf(f)
  BY <1>5, <1>6 DEF CommandId, IdOf
<1>8. Complete(d.data, CommandId(f.type, id))'
  <2>1. d.data = data
    BY <1>3
  <2>2. Gathered(data, IdOf(f), Len(data))'
    BY GatheredStays DEF Complete
  <2>. QED
    BY <1>7, <2>1, <2>2 DEF Complete
<1>9. /\ id.type = AckType(f.type) /\ -k <= 0
      /\ d = [node |-> id.sid, data |-> d.data, status |-> -(-k)]
  BY <1>3, <1>5, <1>6 DEF IdOf
<1>10. PICK code : code = -k
  OBVIOUS
<1>11. Given(id, code)'
  BY <1>4, <1>8, <1>9, <1>10 DEF Given
<1>. QED
  BY <1>5, <1>6, <1>10, <1>11 DEF Answers

LEMMA BusGrows ==
    ASSUME BusOK, app' = app, delivered \subseteq delivered'
    PROVE  bus \in [Nodes -> Seq((Fragments \cup Answers)')]
<1>1. Fragments \cup Answers \subseteq (Fragments \cup Answers)'
  BY PiecesStay, AnswersLast
<1>. DEFINE G == (Fragments \cup Answers)'
<1>2. PICK F : F = Fragments \cup Answers
  OBVIOUS
<1>3. bus \in [Nodes -> Seq(F)] /\ F \subseteq G
  BY <1>1, <1>2 DEF BusOK
<1>. HIDE DEF G
<1>4. \A q \in Seq(F) : q \in Seq(G)
  BY <1>3
<1>5. bus \in [Nodes -> Seq(G)]
  BY <1>3, <1>4
<1>. QED
  BY <1>5 DEF G

LEMMA ReceiveStepKeeps ==
    ASSUME SendersOK, SlotsOK, BusOK, ReassemblyOK, [Next]_vars, NEW n \in Nodes, ReceiveStep(n)
    PROVE  /\ BusOK' /\ ReassemblyOK'
           /\ \/ delivered' = delivered
              \/ \E f \in Fragments : \E data : Deliver(n, f, data) /\ Complete(data, IdOf(f))
<1>. USE DEF receivers
<1>. DEFINE f == Received(n)
            G == (Fragments \cup Answers)'
<1>1. app' = app /\ delivered \subseteq delivered'
  BY OnlyGrows
<1>2. bus[n] # <<>>
  BY DEF ReceiveStep, NotForMe, ReceiveCommand, ReceiveExtCommand, ReceiveAnnouncement,
         ReceiveExtAnnouncement, ReceiveAckNak, Reads
<1>3. Taken(n) \in [Nodes -> Seq(G)]
  BY <1>1, <1>2, BusGrows, TakenKeeps
<1>4. f \in Fragments \cup Answers
  BY <1>2, TakenKeeps DEF BusOK
<1>5. ASSUME NEW a \in Answers' PROVE Transmit(Taken(n), a) \in [Nodes -> Seq(G)]
  <2>1. a \in G
    BY <1>5
  <2>. HIDE DEF G
  <2>. QED
    BY <1>3, <2>1, TransmitKeeps
<1>6. bus' \in [Nodes -> Seq(G)] => BusOK'
  BY DEF BusOK
<1>. HIDE DEF f, G
<1>7. CASE NotForMe(n) \/ ReceiveAckNak(n) \/ ReceiveCommand(n) \/ ReceiveAnnouncement(n)
  <2>1. ReassemblyOK'
    <3>1. ext' = ext
      BY <1>7 DEF NotForMe, ReceiveAckNak, ReceiveCommand, ReceiveAnnouncement
    <3>. QED
      BY <1>1, <3>1, GatheredStays DEF ReassemblyOK, Assembled
  <2>2. CASE NotForMe(n) \/ ReceiveAckNak(n)
    <3>1. delivered' = delivered /\ bus' = Taken(n)
      BY <2>2 DEF NotForMe, ReceiveAckNak, Reject
    <3>. QED
      BY <1>3, <1>6, <2>1, <3>1
  <2>3. CASE ReceiveCommand(n) \/ ReceiveAnnouncement(n)
    <3>1. f.type \in {"CMD", "ANN"} /\ Deliver(n, f, <<f.data>>)
      BY <2>3 DEF ReceiveCommand, ReceiveAnnouncement, Reads, f
    <3>2. f \in Fragments
      BY <1>4, <3>1, FrameKinds DEF Commands, Announcements
    <3>3. /\ f.data \in Pieces /\ IdOf(f) = PieceId(f.data) /\ f.data.packet = 1
          /\ Of(f.data).packets = 1
      BY <3>1, <3>2, FragmentFacts
    <3>4. Complete(<<f.data>>, IdOf(f))
      BY <3>3, GatheredOne DEF Complete
    <3>5. BusOK'
      <4>1. CASE ReceiveCommand(n)
        <5>1. f.type \in Commands /\ f.did = n
          BY <4>1 DEF ReceiveCommand, Reads, ForMe, Commands, f
        <5>2. PICK a : a = AnswerFrame(n, f)
          OBVIOUS
        <5>3. a \in Answers'
          BY <1>1, <3>1, <3>2, <3>4, <5>1, <5>2, AnswerGiven
        <5>4. bus' = Transmit(Taken(n), a)
          BY <4>1, <5>2 DEF ReceiveCommand, f
        <5>. QED
          BY <1>5, <1>6, <5>3, <5>4
      <4>2. CASE ReceiveAnnouncement(n)
        BY <1>3, <1>6, <4>2 DEF ReceiveAnnouncement
      <4>. QED
        BY <2>3, <4>1, <4>2
    <3>. QED
      BY <2>1, <3>1, <3>2, <3>4, <3>5
  <2>. QED
    BY <1>7, <2>2, <2>3
<1>8. CASE ReceiveExtCommand(n) \/ ReceiveExtAnnouncement(n)
  <2>1. f.type \in {"EXT_CMD", "EXT_ANN"} /\ Reassemble(n, f)
    BY <1>8 DEF ReceiveExtCommand, ReceiveExtAnnouncement, Reads, f
  <2>2. f \in Fragments
    BY <1>4, <2>1, FrameKinds DEF Commands, Announcements
  <2>3. /\ ReassemblyOK'
        /\ \/ delivered' = delivered /\ ~Completes(State(n, f), f)
           \/ \E data : Deliver(n, f, data) /\ Complete(data, IdOf(f))
    BY <1>1, <2>1, <2>2, Reassembled
  <2>4. BusOK'
    <3>1. CASE bus' = Taken(n)
      BY <1>3, <1>6, <3>1
    <3>2. CASE bus' # Taken(n)
      <4>1. /\ f.type \in Commands /\ f.did = n /\ Completes(State(n, f), f)
            /\ bus' = Transmit(Taken(n), AnswerFrame(n, f))
        BY <1>8, <3>2 DEF ReceiveExtCommand, ReceiveExtAnnouncement, Reads, ForMe, Commands, f
      <4>2. PICK a : a = AnswerFrame(n, f)
        OBVIOUS
      <4>3. a \in Answers'
        BY <1>1, <2>2, <2>3, <4>1, <4>2, AnswerGiven
      <4>. QED
        BY <1>5, <1>6, <4>1, <4>2, <4>3
    <3>. QED
      BY <3>1, <3>2
  <2>. QED
    BY <2>2, <2>3, <2>4
<1>. QED
  BY <1>7, <1>8 DEF ReceiveStep

LEMMA BusStep ==
    ASSUME SendersOK, SlotsOK, BusOK, ReassemblyOK, [Next]_vars
    PROVE  BusOK' /\ ReassemblyOK'
<1>. USE DEF vars, senders, receivers
<1>. DEFINE G == (Fragments \cup Answers)'
<1>1. app' = app /\ delivered \subseteq delivered'
  BY OnlyGrows
<1>2. bus \in [Nodes -> Seq(G)]
  BY <1>1, BusGrows
<1>3. bus' \in [Nodes -> Seq(G)] => BusOK'
  BY DEF BusOK
<1>4. ext' = ext => ReassemblyOK'
  BY <1>1, GatheredStays DEF ReassemblyOK, Assembled
<1>5. ASSUME NEW t \in Threads, Write(t) PROVE BusOK' /\ ReassemblyOK'
  <2>1. PICK p : p = [by |-> t, nr |-> Nr(t), packet |-> packet[t]]
    OBVIOUS
  <2>2. p \in Pieces
    <3>1. /\ packet[t] \in Nat \ {0} /\ packet[t] <= Message(t).packets
          /\ Nr(t) \in DOMAIN app.program[t]
      BY <1>5 DEF Write, SendersOK
    <3>2. Message(t).packets \in Nat /\ app.program[t] \in Seq(Messages)
      BY <3>1, MessageTypes, AppTypes DEF Message, SendersOK
    <3>3. Nr(t) \in Nat /\ Of(p) = Message(t)
      BY <2>1, <3>1, <3>2 DEF Of, Message
    <3>. QED
      BY <2>1, <3>1, <3>2, <3>3 DEF Pieces
  <2>3. PICK f : f = Frame(t)
    OBVIOUS
  <2>4. f = FragmentOf(p)
    BY <2>1, <2>3 DEF Frame, FragmentOf, Of, Message, Sid
  <2>5. f \in G
    <3>1. f \in Fragments
      BY <2>2, <2>4 DEF Fragments
    <3>. QED
      BY <1>1, <3>1, PiecesStay
  <2>6. bus' = Transmit(bus, f) /\ ext' = ext
    BY <1>5, <2>3 DEF Write
  <2>. HIDE DEF G
  <2>. QED
    BY <1>2, <1>3, <1>4, <2>5, <2>6, TransmitKeeps
<1>. HIDE DEF G
<1>6. ASSUME NEW n \in Nodes, Lose(n) PROVE BusOK' /\ ReassemblyOK'
  <2>1. bus[n] # <<>> /\ bus' = Taken(n) /\ ext' = ext
    BY <1>6 DEF Lose
  <2>. QED
    BY <1>2, <1>3, <1>4, <2>1, TakenKeeps
<1>7. ASSUME NEW t \in Threads, SendStep(t) \/ WriteFails(t) \/ Interrupted(t), ~Write(t)
      PROVE  UNCHANGED <<bus, ext>>
  BY <1>7 DEF SendStep, Send, WriteFails, Answered, Timeout, Interrupted, Leave
<1>8. ASSUME NEW n \in Nodes, AddMessageSlots(n) PROVE UNCHANGED <<bus, ext>>
  BY <1>8 DEF AddMessageSlots
<1>9. CASE UNCHANGED <<bus, ext>>
  BY <1>2, <1>3, <1>4, <1>9
<1>. QED
  BY <1>5, <1>6, <1>7, <1>8, <1>9, ReceiveStepKeeps DEF Next

(***************************************************************************)
(* What is delivered, and what is returned.                                 *)
(***************************************************************************)
LEMMA DeliveredStep ==
    ASSUME SendersOK, SlotsOK, BusOK, ReassemblyOK, DeliveredOK, [Next]_vars
    PROVE  DeliveredOK'
<1>. USE DEF vars, senders, receivers
<1>1. app' = app
  BY OnlyGrows
<1>2. CASE delivered' = delivered
  <2>1. ASSUME NEW d \in delivered PROVE \E p \in Pieces' : Complete(d.data, PieceId(p))'
    <3>1. PICK p \in Pieces : Complete(d.data, PieceId(p))
      BY DEF DeliveredOK
    <3>2. PICK id : id = PieceId(p)
      OBVIOUS
    <3>3. Gathered(d.data, id, Len(d.data))'
      BY <1>1, <3>1, <3>2, GatheredStays DEF Complete
    <3>. QED
      BY <1>1, <3>2, <3>3, PiecesStay DEF Complete
  <2>. QED
    BY <1>2, <2>1 DEF DeliveredOK
<1>3. ASSUME NEW n \in Nodes, NEW f \in Fragments, NEW data,
             Deliver(n, f, data), Complete(data, IdOf(f))
      PROVE  DeliveredOK'
  <2>1. ASSUME NEW d \in delivered' PROVE \E p \in Pieces' : Complete(d.data, PieceId(p))'
    <3>1. \E p \in Pieces : Complete(d.data, PieceId(p))
      <4>1. CASE d \in delivered
        BY <4>1 DEF DeliveredOK
      <4>2. CASE d \notin delivered
        <5>1. d.data = data
          BY <1>3, <4>2 DEF Deliver
        <5>2. f.data \in Pieces /\ IdOf(f) = PieceId(f.data)
          BY FragmentFacts
        <5>. QED
          BY <1>3, <5>1, <5>2
      <4>. QED
        BY <4>1, <4>2
    <3>2. PICK p \in Pieces : Complete(d.data, PieceId(p))
      BY <3>1
    <3>3. PICK id : id = PieceId(p)
      OBVIOUS
    <3>4. Gathered(d.data, id, Len(d.data))'
      BY <1>1, <3>2, <3>3, GatheredStays DEF Complete
    <3>. QED
      BY <1>1, <3>3, <3>4, PiecesStay DEF Complete
  <2>. QED
    BY <2>1 DEF DeliveredOK
<1>4. ASSUME NEW t \in Threads, SendStep(t) \/ WriteFails(t) \/ Interrupted(t)
      PROVE  delivered' = delivered
  BY <1>4 DEF SendStep, Send, Write, WriteFails, Answered, Timeout, Interrupted, Leave
<1>5. ASSUME NEW n \in Nodes, AddMessageSlots(n) \/ Lose(n) PROVE delivered' = delivered
  BY <1>5 DEF AddMessageSlots, Lose
<1>. QED
  BY <1>2, <1>3, <1>4, <1>5, ReceiveStepKeeps DEF Next

LEMMA ReturnedStep ==
    ASSUME SendersOK, ListsOK, ReturnedOK, [Next]_vars
    PROVE  ReturnedOK'
<1>. USE DEF vars, senders, receivers
<1>1. app' = app /\ delivered \subseteq delivered'
  BY OnlyGrows
<1>. DEFINE Right(u, i, code) == app.program[u][i].type \in Commands =>
                (code \in {CsFailed, CsTimeout, Garbage} \/ Given(AnswerId(u, i), code))
<1>2. ASSUME NEW u \in Threads, NEW i, NEW code, Right(u, i, code)
      PROVE  Right(u, i, code)'
  <2>1. PICK id : id = AnswerId(u, i)
    OBVIOUS
  <2>2. AnswerId(u, i)' = id
    BY <1>1, <2>1 DEF AnswerId, Sid
  <2>. QED
    BY <1>1, <1>2, <2>1, <2>2, GivenLasts
<1>3. ASSUME NEW u \in Threads, NEW i \in DOMAIN status[u], NEW code, code = status[u][i]
      PROVE  Right(u, i, code)
  BY <1>3 DEF ReturnedOK
<1>4. (\A u \in Threads : \A i \in DOMAIN status'[u] : \A code : code = status'[u][i] => Right(u, i, code)')
      => ReturnedOK'
  BY DEF ReturnedOK
<1>. HIDE DEF Right
<1>5. CASE status' = status
  BY <1>2, <1>3, <1>4, <1>5
<1>6. ASSUME NEW t \in Threads, pc[t] # "idle", NEW code \in Int,
             status' = [status EXCEPT ![t] = Append(@, code)],
             Right(t, Nr(t), code)
      PROVE  ReturnedOK'
  <2>1. /\ \A u \in Threads : u # t => status'[u] = status[u]
        /\ DOMAIN status'[t] = DOMAIN status[t] \cup {Nr(t)}
        /\ status'[t][Nr(t)] = code
        /\ \A i \in DOMAIN status[t] : status'[t][i] = status[t][i]
    BY <1>6, ReturnedOne
  <2>2. PICK nr : nr = Nr(t)
    OBVIOUS
  <2>3. Right(t, nr, code)
    BY <1>6, <2>2
  <2>4. ASSUME NEW u \in Threads, NEW i \in DOMAIN status'[u], NEW c, c = status'[u][i]
        PROVE  Right(u, i, c)
    BY <1>3, <2>1, <2>2, <2>3, <2>4
  <2>. QED
    BY <1>2, <1>4, <2>4
<1>7. ASSUME NEW t \in Threads, Leave(t) PROVE ReturnedOK'
  <2>1. pc[t] # "idle"
    BY <1>7 DEF Leave
  <2>2. PICK code \in Int : /\ status' = [status EXCEPT ![t] = Append(@, code)]
                            /\ \/ code \in {CsFailed, CsTimeout, Garbage}
                               \/ Given(AnswerId(t, Nr(t)), code)
    BY <1>7, LeavingCode
  <2>. QED
    BY <1>6, <2>1, <2>2 DEF Right
<1>8. ASSUME NEW t \in Threads, Write(t) \/ WriteFails(t), status' # status PROVE ReturnedOK'
  <2>0. pc[t] # "idle"
    BY <1>8 DEF Write, WriteFails
  <2>1. ~Acked(t)
    <3>1. packet[t] \in Nat /\ Message(t).packets \in Nat
      BY <2>0, MessageTypes DEF SendersOK, Message
    <3>2. CASE Write(t)
      <4>1. ~(packet[t] < Message(t).packets) => packet[t] >= Message(t).packets
        BY <3>1
      <4>. QED
        BY <1>8, <3>2, <4>1 DEF Write
    <3>3. CASE WriteFails(t)
      BY <1>8, <3>3 DEF WriteFails
    <3>. QED
      BY <1>8, <3>2, <3>3
  <2>2. PICK code \in Int : status' = [status EXCEPT ![t] = Append(@, code)]
    <3>1. Return(t, CsSuccess) \/ Return(t, CsFailed)
      BY <1>8 DEF Write, WriteFails
    <3>. QED
      BY <3>1 DEF Return, CsSuccess, CsFailed
  <2>3. Right(t, Nr(t), code)
    BY <2>1 DEF Right, Acked, Message
  <2>. QED
    BY <1>6, <2>0, <2>2, <2>3
<1>9. ASSUME NEW t \in Threads, Send(t) \/ Answered(t) \/ Timeout(t) \/ Interrupted(t)
      PROVE  status' = status
  BY <1>9 DEF Send, Answered, Timeout, Interrupted
<1>10. ASSUME NEW n \in Nodes, ReceiveStep(n) \/ AddMessageSlots(n) \/ Lose(n)
       PROVE  status' = status
  BY <1>10 DEF ReceiveStep, NotForMe, ReceiveCommand, ReceiveExtCommand, ReceiveAnnouncement,
               ReceiveExtAnnouncement, ReceiveAckNak, AddMessageSlots, Lose
<1>. QED
  BY <1>5, <1>7, <1>8, <1>9, <1>10 DEF Next, SendStep

-----------------------------------------------------------------------------
(***************************************************************************)
(* The lists of the commands in progress.                                   *)
(***************************************************************************)
\* The thread has an entry as before, or has none as before.
Keeps(u) == (Busy(u)' <=> Busy(u)) /\ (Busy(u) => Expected(u)' = Expected(u))

LEMMA SameCall ==
    ASSUME app' = app, NEW u \in Threads, status'[u] = status[u],
           pc'[u] = "idle" <=> pc[u] = "idle"
    PROVE  Keeps(u)
BY DEF Keeps, Busy, Acked, Message, Nr, Expected, Sid

LEMMA ListMembers ==
    ASSUME ListsOK, NEW n \in Nodes
    PROVE  /\ AckNaks[n] \in Seq(Entries)
           /\ \A i \in 1 .. Len(AckNaks[n]) :
                 /\ AckNaks[n][i] \in Entries /\ AckNaks[n][i].by \in Threads
                 /\ AckNaks[n][i].id \in AckIds /\ AckNaks[n][i].posts \in Nat
                 /\ Listed(n, AckNaks[n][i])
<1>1. AckNaks[n] \in Seq(Entries)
  BY DEF ListsOK
<1>2. \A i \in 1 .. Len(AckNaks[n]) : AckNaks[n][i] \in Entries
  BY <1>1
<1>. QED
  BY <1>1, <1>2 DEF ListsOK, Entries

LEMMA SameLists ==
    ASSUME ListsOK, app' = app, delivered \subseteq delivered', AckNaks' = AckNaks,
           \A u \in Threads : Keeps(u)
    PROVE  ListsOK'
<1>1. /\ AckNaks \in [Nodes -> Seq(Entries)]
      /\ \A n \in Nodes : \A i \in 1 .. Len(AckNaks[n]) :
            Listed(n, AckNaks[n][i]) /\ AckNaks[n][i].by \in Threads
  BY ListMembers DEF ListsOK
<1>2. AckNaks' \in [Nodes -> Seq(Entries')]
  <2>1. PICK E, F : E = Entries /\ F = Entries'
    OBVIOUS
  <2>2. AckNaks \in [Nodes -> Seq(E)] /\ E \subseteq F
    BY <1>1, <2>1, AnswersLast
  <2>3. \A q \in Seq(E) : q \in Seq(F)
    BY <2>2
  <2>4. AckNaks \in [Nodes -> Seq(F)]
    BY <2>2, <2>3
  <2>. QED
    BY <2>1, <2>4
<1>3. ASSUME NEW n \in Nodes, NEW i \in 1 .. Len(AckNaks[n]), NEW e, e = AckNaks[n][i]
      PROVE  Listed(n, e)'
  <2>1. Keeps(e.by) /\ Listed(n, e)
    BY <1>1, <1>3
  <2>. QED
    BY <2>1 DEF Listed, Keeps, Sid
<1>4. ASSUME NEW t \in Threads, Busy(t)'
      PROVE  \E i \in 1 .. Len(AckNaks[Sid(t)]) : AckNaks[Sid(t)][i].by = t
  BY <1>4 DEF ListsOK, Keeps
<1>5. \A t : Sid(t)' = Sid(t)
  BY DEF Sid
<1>. QED
  BY <1>2, <1>3, <1>4, <1>5 DEF ListsOK

\* One entry of a list is answered, or its answer is taken.
LEMMA ChangedEntry ==
    ASSUME SendersOK, ListsOK, app' = app, delivered \subseteq delivered',
           \A u \in Threads : Keeps(u),
           NEW n \in Nodes, NEW k \in 1 .. Len(AckNaks[n]), NEW x \in Entries,
           x.by = AckNaks[n][k].by, x.id = AckNaks[n][k].id,
           AckNaks' = [AckNaks EXCEPT ![n] = [AckNaks[n] EXCEPT ![k] = x]]
    PROVE  ListsOK'
<1>. DEFINE q == [AckNaks[n] EXCEPT ![k] = x]
<1>1. AckNaks[n] \in Seq(Entries)
  BY DEF ListsOK
<1>2. /\ q \in Seq(Entries) /\ Len(q) = Len(AckNaks[n])
      /\ \A i \in 1 .. Len(q) : q[i].by = AckNaks[n][i].by /\ q[i].id = AckNaks[n][i].id
  <2>1. q \in [1 .. Len(AckNaks[n]) -> Entries] /\ Len(AckNaks[n]) \in Nat
    BY <1>1
  <2>2. \A i \in 1 .. Len(AckNaks[n]) : q[i].by = AckNaks[n][i].by /\ q[i].id = AckNaks[n][i].id
    BY <1>1
  <2>. HIDE DEF q
  <2>3. q \in Seq(Entries) /\ Len(q) = Len(AckNaks[n])
    BY <2>1
  <2>. QED
    BY <2>2, <2>3
<1>3. AckNaks'[n] = q /\ \A m \in Nodes : m # n => AckNaks'[m] = AckNaks[m]
  BY DEF ListsOK
<1>. HIDE DEF q
<1>4. /\ AckNaks' \in [Nodes -> Seq(Entries)]
      /\ \A m \in Nodes : Len(AckNaks'[m]) = Len(AckNaks[m])
      /\ \A m \in Nodes : \A i \in 1 .. Len(AckNaks[m]) :
            AckNaks'[m][i].by = AckNaks[m][i].by /\ AckNaks'[m][i].id = AckNaks[m][i].id
  BY <1>2, <1>3 DEF ListsOK, q
<1>5. AckNaks' \in [Nodes -> Seq(Entries')]
  <2>1. PICK E, F : E = Entries /\ F = Entries'
    OBVIOUS
  <2>2. AckNaks' \in [Nodes -> Seq(E)] /\ E \subseteq F
    BY <1>4, <2>1, AnswersLast
  <2>3. \A s \in Seq(E) : s \in Seq(F)
    BY <2>2
  <2>4. AckNaks' \in [Nodes -> Seq(F)]
    BY <2>2, <2>3
  <2>. QED
    BY <2>1, <2>4
<1>6. ASSUME NEW m \in Nodes, NEW i \in 1 .. Len(AckNaks'[m]), NEW e, e = AckNaks'[m][i]
      PROVE  Listed(m, e)'
  <2>1. Listed(m, AckNaks[m][i]) /\ AckNaks[m][i].by \in Threads
    BY <1>4, <1>6, ListMembers
  <2>2. e.by = AckNaks[m][i].by /\ e.id = AckNaks[m][i].id
    BY <1>4, <1>6
  <2>3. Keeps(e.by) /\ Listed(m, e)
    BY <2>1, <2>2 DEF Listed
  <2>. QED
    BY <2>3 DEF Listed, Keeps, Sid
<1>7. ASSUME NEW t \in Threads, Busy(t)'
      PROVE  \E i \in 1 .. Len(AckNaks'[Sid(t)]) : AckNaks'[Sid(t)][i].by = t
  <2>1. PICK i \in 1 .. Len(AckNaks[Sid(t)]) : AckNaks[Sid(t)][i].by = t
    BY <1>7 DEF ListsOK, Keeps
  <2>2. Sid(t) \in Nodes
    BY AppTypes DEF SendersOK, Sid
  <2>. QED
    BY <1>4, <2>1, <2>2
<1>8. \A t : Sid(t)' = Sid(t)
  BY DEF Sid
<1>9. \A m \in Nodes : \A i, j \in 1 .. Len(AckNaks'[m]) :
          AckNaks'[m][i].by = AckNaks'[m][j].by => i = j
  BY <1>4 DEF ListsOK
<1>. QED
  BY <1>5, <1>6, <1>7, <1>8, <1>9 DEF ListsOK

\* A command enters the list of its node.
LEMMA NewEntry ==
    ASSUME SendersOK, ListsOK, SendersOK', [Next]_vars, NEW t \in Threads, Send(t), Acked(t)
    PROVE  ListsOK'
<1>1. app' = app /\ delivered' = delivered /\ UNCHANGED status
      /\ pc' = [pc EXCEPT ![t] = "send"] /\ pc[t] = "idle"
      /\ AckNaks' = [AckNaks EXCEPT ![Sid(t)] = <<Entry(t)>> \o AckNaks[Sid(t)]]
  BY DEF Send
<1>2. \A u \in Threads : u # t => Keeps(u)
  BY <1>1, SameCall DEF SendersOK
<1>3. /\ Busy(t)' /\ ~Busy(t) /\ Expected(t)' = Expected(t)
  BY <1>1 DEF SendersOK, Busy, Acked, Message, Nr, Expected, Sid
<1>4. Sid(t) \in Nodes
  BY AppTypes DEF SendersOK, Sid
<1>5. PICK n \in Nodes : n = Sid(t)
  BY <1>4
<1>6. PICK x : x = Entry(t)
  OBVIOUS
<1>7. /\ x \in Entries /\ x.by = t /\ x.id = Expected(t)
  <2>1. Message(t).type \in Commands /\ Message(t).mid \in Nat
        /\ Message(t).did \in Nodes \cup {Broadcast}
    <3>1. Nr(t) \in DOMAIN app.program[t]
      BY <1>1 DEF SendersOK, Nr
    <3>. QED
      BY <3>1, MessageTypes DEF SendersOK, Message, Acked
  <2>2. Expected(t) \in AckIds
    BY <1>4, <2>1 DEF Expected, AckIds
  <2>. QED
    BY <1>6, <2>2 DEF Entry, Entries, Garbage
<1>. DEFINE q == <<x>> \o AckNaks[n]
<1>8. /\ q \in Seq(Entries) /\ Len(q) = Len(AckNaks[n]) + 1 /\ Len(AckNaks[n]) \in Nat
      /\ q[1] = x /\ \A i \in 1 .. Len(AckNaks[n]) : q[i + 1] = AckNaks[n][i]
  <2>1. AckNaks[n] \in Seq(Entries) /\ <<x>> \in Seq(Entries) /\ Len(<<x>>) = 1 /\ <<x>>[1] = x
    BY <1>7, ListMembers
  <2>2. /\ q \in Seq(Entries) /\ Len(q) = Len(<<x>>) + Len(AckNaks[n])
        /\ \A i \in 1 .. Len(<<x>>) + Len(AckNaks[n]) :
              q[i] = IF i <= Len(<<x>>) THEN <<x>>[i] ELSE AckNaks[n][i - Len(<<x>>)]
    BY <2>1, ConcatProperties
  <2>. HIDE DEF q
  <2>3. Len(AckNaks[n]) \in Nat
    BY <2>1
  <2>4. q[1] = x
    BY <2>1, <2>2, <2>3
  <2>5. ASSUME NEW i \in 1 .. Len(AckNaks[n]) PROVE q[i + 1] = AckNaks[n][i]
    <3>1. i + 1 \in 1 .. 1 + Len(AckNaks[n]) /\ ~(i + 1 <= 1) /\ (i + 1) - 1 = i
      BY <2>3
    <3>. QED
      BY <2>1, <2>2, <3>1
  <2>6. Len(q) = Len(AckNaks[n]) + 1
    BY <2>1, <2>2, <2>3
  <2>. QED
    BY <2>2, <2>3, <2>4, <2>5, <2>6
<1>9. /\ AckNaks'[n] = q /\ \A m \in Nodes : m # n => AckNaks'[m] = AckNaks[m]
      /\ AckNaks' \in [Nodes -> Seq(Entries)]
  BY <1>1, <1>5, <1>6, <1>8 DEF ListsOK
<1>. HIDE DEF q
<1>10. Entries' = Entries
  BY <1>1, GatheredStays DEF Entries, Given, Complete
<1>11. ASSUME NEW m \in Nodes, NEW i \in 1 .. Len(AckNaks'[m])
       PROVE  \/ m = n /\ i = 1 /\ AckNaks'[m][i] = x
              \/ \E j \in 1 .. Len(AckNaks[m]) :
                    AckNaks'[m][i] = AckNaks[m][j] /\ j = IF m = n THEN i - 1 ELSE i
  <2>1. CASE m # n
    BY <1>9, <2>1
  <2>2. CASE m = n /\ i = 1
    BY <1>8, <1>9, <2>2
  <2>3. CASE m = n /\ i # 1
    <3>1. i - 1 \in 1 .. Len(AckNaks[m]) /\ (i - 1) + 1 = i
      BY <1>8, <1>9, <2>3
    <3>. QED
      BY <1>8, <1>9, <2>3, <3>1
  <2>. QED
    BY <2>1, <2>2, <2>3
<1>12. ASSUME NEW m \in Nodes, NEW j \in 1 .. Len(AckNaks[m])
       PROVE  AckNaks[m][j].by # t /\ AckNaks[m][j].by \in Threads /\ Listed(m, AckNaks[m][j])
  BY <1>3, <1>12, ListMembers DEF Listed
<1>13. ASSUME NEW m \in Nodes, NEW i \in 1 .. Len(AckNaks'[m]), NEW e, e = AckNaks'[m][i]
       PROVE  Listed(m, e)'
  <2>1. CASE m = n /\ e = x
    BY <1>1, <1>3, <1>5, <1>7, <2>1 DEF Listed, Sid
  <2>2. CASE ~(m = n /\ e = x)
    <3>1. PICK j \in 1 .. Len(AckNaks[m]) : e = AckNaks[m][j]
      BY <1>11, <1>13, <2>2
    <3>2. Listed(m, e) /\ Keeps(e.by)
      BY <1>2, <1>12, <3>1
    <3>. QED
      BY <1>1, <3>2 DEF Listed, Keeps, Sid
  <2>. QED
    BY <2>1, <2>2
<1>14. ASSUME NEW m \in Nodes, NEW i \in 1 .. Len(AckNaks'[m]), NEW j \in 1 .. Len(AckNaks'[m]),
              AckNaks'[m][i].by = AckNaks'[m][j].by
       PROVE  i = j
  <2>1. CASE m = n /\ (i = 1 \/ j = 1)
    <3>1. i # 1 => AckNaks'[m][i].by # t
      BY <1>11, <1>12, <2>1
    <3>2. j # 1 => AckNaks'[m][j].by # t
      BY <1>11, <1>12, <2>1
    <3>. QED
      BY <1>7, <1>8, <1>9, <1>14, <2>1, <3>1, <3>2
  <2>2. CASE ~(m = n /\ (i = 1 \/ j = 1))
    <3>1. PICK a \in 1 .. Len(AckNaks[m]) :
              AckNaks'[m][i] = AckNaks[m][a] /\ a = IF m = n THEN i - 1 ELSE i
      BY <1>11, <2>2
    <3>2. PICK b \in 1 .. Len(AckNaks[m]) :
              AckNaks'[m][j] = AckNaks[m][b] /\ b = IF m = n THEN j - 1 ELSE j
      BY <1>11, <2>2
    <3>3. a = b
      BY <1>14, <3>1, <3>2 DEF ListsOK
    <3>4. i \in Int /\ j \in Int
      BY <1>14
    <3>. QED
      BY <3>1, <3>2, <3>3, <3>4
  <2>. QED
    BY <2>1, <2>2
<1>15. ASSUME NEW u \in Threads, Busy(u)'
       PROVE  \E i \in 1 .. Len(AckNaks'[Sid(u)]) : AckNaks'[Sid(u)][i].by = u
  <2>1. CASE u = t
    <3>1. 1 \in 1 .. Len(AckNaks'[n]) /\ AckNaks'[n][1].by = t
      BY <1>7, <1>8, <1>9
    <3>. QED
      BY <1>5, <2>1, <3>1
  <2>2. CASE u # t
    <3>1. PICK i \in 1 .. Len(AckNaks[Sid(u)]) : AckNaks[Sid(u)][i].by = u
      BY <1>2, <1>15, <2>2 DEF ListsOK, Keeps
    <3>2. Sid(u) \in Nodes
      BY AppTypes DEF SendersOK, Sid
    <3>3. CASE Sid(u) = n
      <4>1. i + 1 \in 1 .. Len(AckNaks'[n]) /\ AckNaks'[n][i + 1] = AckNaks[n][i]
        BY <1>8, <1>9, <3>1, <3>3
      <4>. QED
        BY <3>1, <3>3, <4>1
    <3>4. CASE Sid(u) # n
      BY <1>9, <3>1, <3>2, <3>4
    <3>. QED
      BY <3>3, <3>4
  <2>. QED
    BY <2>1, <2>2
<1>16. \A u : Sid(u)' = Sid(u)
  BY <1>1 DEF Sid
<1>17. AckNaks' \in [Nodes -> Seq(Entries')]
  BY <1>9, <1>10
<1>. QED
  BY <1>13, <1>14, <1>15, <1>16, <1>17 DEF ListsOK

\* A call that leaves takes its entry out of the list, and no other.
LEMMA DroppedEntry ==
    ASSUME SendersOK, ListsOK, [Next]_vars, NEW t \in Threads, Leave(t)
    PROVE  ListsOK'
<1>0. Acked(t) /\ pc[t] # "idle"
  BY DEF Leave, SendersOK, Waiting
<1>1. app' = app /\ delivered' = delivered
      /\ pc' = [pc EXCEPT ![t] = "idle"]
      /\ AckNaks' = [AckNaks EXCEPT ![Sid(t)] = RemoveAt(AckNaks[Sid(t)], MyEntry(t))]
  BY DEF Leave, Return, Unlist
<1>2. \A u \in Threads : u # t => Keeps(u)
  <2>1. PICK code \in Int : status' = [status EXCEPT ![t] = Append(@, code)]
    BY LeavingCode
  <2>2. \A u \in Threads : u # t => status'[u] = status[u]
    BY <2>1 DEF SendersOK
  <2>. QED
    BY <1>1, <2>2, SameCall DEF SendersOK
<1>3. ~Busy(t)'
  BY <1>1 DEF SendersOK, Busy
<1>4. PICK n \in Nodes : n = Sid(t)
  BY <1>0, HasEntry
<1>5. PICK k \in 1 .. Len(AckNaks[n]) : k = MyEntry(t)
  BY <1>0, <1>4, HasEntry
<1>6. AckNaks[n][k].by = t /\ AckNaks[n] \in Seq(Entries) /\ Len(AckNaks[n]) \in Nat
  BY <1>0, <1>4, <1>5, HasEntry
<1>. DEFINE q == RemoveAt(AckNaks[n], k)
            From(m, i) == IF m = n /\ i >= k THEN i + 1 ELSE i
<1>7. /\ q \in Seq(Entries) /\ Len(q) = Len(AckNaks[n]) - 1
      /\ \A i \in 1 .. Len(AckNaks[n]) - 1 : q[i] = IF i < k THEN AckNaks[n][i] ELSE AckNaks[n][i + 1]
  BY <1>5, <1>6, Removed
<1>8. /\ AckNaks'[n] = q /\ \A m \in Nodes : m # n => AckNaks'[m] = AckNaks[m]
      /\ AckNaks' \in [Nodes -> Seq(Entries)]
  BY <1>1, <1>4, <1>5, <1>7 DEF ListsOK
<1>. HIDE DEF q
<1>9. Entries' = Entries
  BY <1>1, GatheredStays DEF Entries, Given, Complete
<1>10. ASSUME NEW m \in Nodes, NEW i \in 1 .. Len(AckNaks'[m])
       PROVE  /\ From(m, i) \in 1 .. Len(AckNaks[m]) /\ (m = n => From(m, i) # k)
              /\ AckNaks'[m][i] = AckNaks[m][From(m, i)]
  <2>1. CASE m # n
    BY <1>8, <2>1
  <2>2. CASE m = n /\ i < k
    <3>1. i \in 1 .. Len(AckNaks[n]) - 1 /\ From(m, i) = i /\ i # k
      BY <1>5, <1>6, <1>7, <1>8, <2>2
    <3>. QED
      BY <1>5, <1>6, <1>7, <1>8, <2>2, <3>1
  <2>3. CASE m = n /\ ~(i < k)
    <3>1. i \in 1 .. Len(AckNaks[n]) - 1 /\ From(m, i) = i + 1 /\ i + 1 # k /\ i + 1 \in 1 .. Len(AckNaks[n])
      BY <1>5, <1>6, <1>7, <1>8, <2>3
    <3>. QED
      BY <1>7, <1>8, <2>3, <3>1
  <2>. QED
    BY <2>1, <2>2, <2>3
<1>11. ASSUME NEW m \in Nodes, NEW j \in 1 .. Len(AckNaks[m]), ~(m = n /\ j = k)
       PROVE  /\ AckNaks[m][j].by # t /\ AckNaks[m][j].by \in Threads /\ Listed(m, AckNaks[m][j])
  <2>1. AckNaks[m][j].by \in Threads /\ Listed(m, AckNaks[m][j])
    BY ListMembers
  <2>2. CASE AckNaks[m][j].by = t
    <3>1. m = n
      BY <1>4, <2>1, <2>2 DEF Listed
    <3>2. j = k
      BY <1>6, <2>2, <3>1 DEF ListsOK
    <3>. QED
      BY <1>11, <3>1, <3>2
  <2>. QED
    BY <2>1, <2>2
<1>12. ASSUME NEW m \in Nodes, NEW i \in 1 .. Len(AckNaks'[m]), NEW e, e = AckNaks'[m][i]
       PROVE  Listed(m, e)'
  <2>1. PICK j \in 1 .. Len(AckNaks[m]) : e = AckNaks[m][j] /\ ~(m = n /\ j = k)
    BY <1>10, <1>12
  <2>2. Listed(m, e) /\ Keeps(e.by)
    BY <1>2, <1>11, <2>1
  <2>. QED
    BY <1>1, <2>2 DEF Listed, Keeps, Sid
<1>13. ASSUME NEW m \in Nodes, NEW i \in 1 .. Len(AckNaks'[m]), NEW j \in 1 .. Len(AckNaks'[m]),
              AckNaks'[m][i].by = AckNaks'[m][j].by
       PROVE  i = j
  <2>1. AckNaks[m][From(m, i)].by = AckNaks[m][From(m, j)].by
        /\ From(m, i) \in 1 .. Len(AckNaks[m]) /\ From(m, j) \in 1 .. Len(AckNaks[m])
    BY <1>10, <1>13
  <2>2. From(m, i) = From(m, j)
    BY <2>1 DEF ListsOK
  <2>3. i \in Int /\ j \in Int /\ k \in Int
    BY <1>5, <1>13
  <2>. QED
    BY <2>2, <2>3
<1>14. ASSUME NEW u \in Threads, Busy(u)'
       PROVE  \E i \in 1 .. Len(AckNaks'[Sid(u)]) : AckNaks'[Sid(u)][i].by = u
  <2>0. u # t
    BY <1>3, <1>14
  <2>1. PICK j \in 1 .. Len(AckNaks[Sid(u)]) : AckNaks[Sid(u)][j].by = u
    BY <1>2, <1>14, <2>0 DEF ListsOK, Keeps
  <2>2. Sid(u) \in Nodes
    BY AppTypes DEF SendersOK, Sid
  <2>3. CASE Sid(u) # n
    BY <1>8, <2>1, <2>2, <2>3
  <2>4. CASE Sid(u) = n
    <3>1. j # k
      BY <1>6, <2>0, <2>1, <2>4
    <3>2. CASE j < k
      <4>1. j \in 1 .. Len(AckNaks[n]) - 1
        BY <1>5, <1>6, <2>1, <2>4, <3>2
      <4>. QED
        BY <1>7, <1>8, <2>1, <2>4, <3>2, <4>1
    <3>3. CASE ~(j < k)
      <4>1. j - 1 \in 1 .. Len(AckNaks[n]) - 1 /\ ~(j - 1 < k) /\ (j - 1) + 1 = j
        BY <1>5, <1>6, <2>1, <2>4, <3>1, <3>3
      <4>. QED
        BY <1>7, <1>8, <2>1, <2>4, <4>1
    <3>. QED
      BY <3>2, <3>3
  <2>. QED
    BY <2>3, <2>4
<1>15. \A u : Sid(u)' = Sid(u)
  BY <1>1 DEF Sid
<1>16. AckNaks' \in [Nodes -> Seq(Entries')]
  BY <1>8, <1>9
<1>. QED
  BY <1>12, <1>13, <1>14, <1>15, <1>16 DEF ListsOK

LEMMA ListsStep ==
    ASSUME SendersOK, BusOK, ListsOK, SendersOK', [Next]_vars
    PROVE  ListsOK'
<1>. USE DEF vars, senders, receivers
<1>0. app' = app /\ delivered \subseteq delivered'
  BY OnlyGrows
<1>1. ASSUME NEW t \in Threads, Send(t), ~Acked(t) PROVE ListsOK'
  <2>1. \A u \in Threads : Keeps(u)
    <3>1. UNCHANGED status /\ pc[t] = "idle" /\ pc' = [pc EXCEPT ![t] = "send"]
      BY <1>1 DEF Send
    <3>2. Keeps(t)
      BY <1>0, <1>1, <3>1 DEF Keeps, Busy, Acked, Message, Nr
    <3>. QED
      BY <1>0, <3>1, <3>2, SameCall DEF SendersOK
  <2>. QED
    BY <1>0, <1>1, <2>1, SameLists DEF Send
<1>2. ASSUME NEW t \in Threads, Write(t) \/ WriteFails(t) PROVE ListsOK'
  <2>1. AckNaks' = AckNaks
    BY <1>2 DEF Write, WriteFails
  <2>2. \A u \in Threads : u # t => Keeps(u)
    <3>1. \A u \in Threads : u # t => status'[u] = status[u] /\ pc'[u] = pc[u]
      BY <1>2 DEF Write, WriteFails, Return, SendersOK
    <3>. QED
      BY <1>0, <3>1, SameCall
  <2>3. Keeps(t)
    <3>1. pc[t] = "send"
      BY <1>2 DEF Write, WriteFails
    <3>2. CASE status'[t] = status[t] /\ pc'[t] # "idle"
      BY <1>0, <3>1, <3>2, SameCall
    <3>3. CASE ~Acked(t) /\ pc'[t] = "idle"
      BY <3>3 DEF Keeps, Busy
    <3>4. packet[t] \in Nat /\ Message(t).packets \in Nat
      BY <3>1, MessageTypes DEF SendersOK, Message
    <3>. QED
      BY <1>2, <3>1, <3>2, <3>3, <3>4 DEF Write, WriteFails, Return, SendersOK
  <2>. QED
    BY <1>0, <2>1, <2>2, <2>3, SameLists
<1>3. ASSUME NEW t \in Threads, Timeout(t) \/ Interrupted(t) PROVE ListsOK'
  <2>1. AckNaks' = AckNaks /\ status' = status /\ pc[t] = "wait"
        /\ \E p \in {"send", "answered", "timedout"} : pc' = [pc EXCEPT ![t] = p]
    BY <1>3 DEF Timeout, Interrupted, Resend
  <2>2. \A u \in Threads : Keeps(u)
    <3>1. \A u \in Threads : pc'[u] = "idle" <=> pc[u] = "idle"
      BY <2>1 DEF SendersOK
    <3>. QED
      BY <1>0, <2>1, <3>1, SameCall
  <2>. QED
    BY <1>0, <2>1, <2>2, SameLists
<1>4. ASSUME NEW t \in Threads, Answered(t) PROVE ListsOK'
  <2>1. status' = status /\ pc[t] = "wait" /\ pc' = [pc EXCEPT ![t] = "answered"]
        /\ AckNaks' = [AckNaks EXCEPT ![Sid(t)][MyEntry(t)].posts = @ - 1]
        /\ AckNaks[Sid(t)][MyEntry(t)].posts > 0
    BY <1>4 DEF Answered, Posted
  <2>2. Acked(t) /\ pc[t] # "idle"
    BY <2>1 DEF SendersOK, Waiting
  <2>3. PICK n \in Nodes : n = Sid(t)
    BY <2>2, HasEntry
  <2>4. PICK k \in 1 .. Len(AckNaks[n]) : k = MyEntry(t)
    BY <2>2, <2>3, HasEntry
  <2>. DEFINE old == AckNaks[n][k]
              x == [old EXCEPT !.posts = old.posts - 1]
  <2>5. old \in Entries /\ old.posts \in Nat
    BY ListMembers
  <2>6. AckNaks' = [AckNaks EXCEPT ![n] = [AckNaks[n] EXCEPT ![k] = x]]
    BY <2>1, <2>3, <2>4
  <2>7. old.posts - 1 \in Nat
    BY <2>1, <2>3, <2>4, <2>5
  <2>8. x \in Entries /\ x.by = old.by /\ x.id = old.id
    BY <2>5, <2>7 DEF Entries
  <2>9. \A u \in Threads : Keeps(u)
    <3>1. \A u \in Threads : pc'[u] = "idle" <=> pc[u] = "idle"
      BY <2>1 DEF SendersOK
    <3>. QED
      BY <1>0, <2>1, <3>1, SameCall
  <2>. HIDE DEF x
  <2>. QED
    BY <1>0, <2>6, <2>8, <2>9, ChangedEntry
<1>5. ASSUME NEW n \in Nodes, ReceiveAckNak(n) PROVE ListsOK'
  <2>. DEFINE f == Received(n)
              waiting == {i \in DOMAIN AckNaks[n] : AckNaks[n][i].id = IdOf(f)}
  <2>1. status' = status /\ pc' = pc /\ bus[n] # <<>>
        /\ f.type \in {AckType(c) : c \in Commands}
    BY <1>5 DEF ReceiveAckNak, Reads
  <2>2. \A u \in Threads : Keeps(u)
    BY <1>0, <2>1, SameCall
  <2>3. CASE waiting = {}
    BY <1>0, <1>5, <2>2, <2>3, SameLists DEF ReceiveAckNak
  <2>4. CASE waiting # {}
    <3>1. AckNaks[n] \in Seq(Entries)
      BY ListMembers
    <3>2. waiting \subseteq Nat
      BY <3>1
    <3>3. PICK k \in waiting : k = Min(waiting)
      BY <2>4, <3>2, LeastElement
    <3>4. k \in 1 .. Len(AckNaks[n])
      BY <3>1, <3>3
    <3>. DEFINE old == AckNaks[n][k]
                x == [[old EXCEPT !.posts = old.posts + 1] EXCEPT !.code = f.code]
    <3>5. AckNaks' = [AckNaks EXCEPT ![n][k].posts = @ + 1, ![n][k].code = f.code]
      BY <1>5, <2>4, <3>3 DEF ReceiveAckNak
    <3>6. AckNaks' = [AckNaks EXCEPT ![n] = [AckNaks[n] EXCEPT ![k] = x]]
      <4>1. AckNaks \in [Nodes -> Seq(Entries)]
        BY DEF ListsOK
      <4>2. PICK list, code : list = AckNaks[n] /\ code = f.code
        OBVIOUS
      <4>3. PICK y : y = [old EXCEPT !.posts = old.posts + 1]
        OBVIOUS
      <4>4. PICK L1 : L1 = [AckNaks EXCEPT ![n] = [list EXCEPT ![k] = y]]
        OBVIOUS
      <4>5. L1[n][k] = y /\ L1[n] = [list EXCEPT ![k] = y] /\ [L1[n] EXCEPT ![k] = x] = [list EXCEPT ![k] = x]
        BY <3>1, <3>4, <4>1, <4>2, <4>4
      <4>6. AckNaks' = [L1 EXCEPT ![n][k].code = code]
        BY <3>5, <4>2, <4>3, <4>4
      <4>7. AckNaks' = [L1 EXCEPT ![n] = [L1[n] EXCEPT ![k] = x]]
        BY <4>2, <4>3, <4>5, <4>6
      <4>. QED
        BY <4>1, <4>2, <4>4, <4>5, <4>7
    <3>7. f \in Answers
      <4>1. f \in Fragments \cup Answers
        BY <2>1, TakenKeeps DEF BusOK
      <4>. QED
        BY <2>1, <4>1, FrameKinds
    <3>8. f.code \in Int /\ Given(IdOf(f), f.code) /\ old.id = IdOf(f)
      BY <3>3, <3>7, AnswerFacts
    <3>9. old \in Entries /\ old.posts \in Nat
      BY <3>4, ListMembers
    <3>. HIDE DEF f
    <3>10. x \in Entries /\ x.by = old.by /\ x.id = old.id
      <4>. HIDE DEF old
      <4>1. old \in [by : Threads, id : AckIds, posts : Nat, code : Int]
        BY <3>9 DEF Entries
      <4>2. x = [by |-> old.by, id |-> old.id, posts |-> old.posts + 1, code |-> f.code]
        <5>. DEFINE y == [old EXCEPT !.posts = old.posts + 1]
        <5>1. y = [by |-> old.by, id |-> old.id, posts |-> old.posts + 1, code |-> old.code]
          BY <4>1
        <5>2. x = [y EXCEPT !.code = f.code]
          OBVIOUS
        <5>. HIDE DEF x, y
        <5>. QED
          BY <5>1, <5>2
      <4>3. Given(x.id, x.code) /\ x \in [by : Threads, id : AckIds, posts : Nat, code : Int]
        BY <3>8, <4>1, <4>2
      <4>. QED
        BY <4>2, <4>3 DEF Entries
    <3>. HIDE DEF x
    <3>. QED
      BY <1>0, <2>2, <3>4, <3>6, <3>10, ChangedEntry
  <2>. QED
    BY <2>3, <2>4
<1>6. ASSUME NEW n \in Nodes, ReceiveStep(n) \/ AddMessageSlots(n) \/ Lose(n), ~ReceiveAckNak(n)
      PROVE  UNCHANGED <<AckNaks, pc, status>>
  BY <1>6 DEF ReceiveStep, NotForMe, ReceiveCommand, ReceiveExtCommand, ReceiveAnnouncement,
              ReceiveExtAnnouncement, AddMessageSlots, Lose
<1>7. CASE UNCHANGED <<AckNaks, pc, status>>
  <2>1. \A u \in Threads : Keeps(u)
    BY <1>0, <1>7, SameCall
  <2>. QED
    BY <1>0, <1>7, <2>1, SameLists
<1>. QED
  BY <1>1, <1>2, <1>3, <1>4, <1>5, <1>6, <1>7, NewEntry, DroppedEntry DEF Next, SendStep

-----------------------------------------------------------------------------
(***************************************************************************)
(* The theorems.                                                            *)
(***************************************************************************)
LEMMA InitInv == Init => Inv
<1>. SUFFICES ASSUME Init PROVE Inv
  OBVIOUS
<1>1. app \in Apps /\ app.program \in [Threads -> Seq(Messages)]
  BY AppTypes DEF Init
<1>2. SendersOK
  <2>1. \A t \in Threads : status[t] = <<>> /\ pc[t] = "idle" /\ DOMAIN status[t] = {}
    BY DEF Init
  <2>. QED
    BY <1>1, <2>1 DEF Init, SendersOK, Waiting
<1>3. SlotsOK /\ BusOK /\ ReassemblyOK
  BY DEF Init, SlotsOK, BusOK, ReassemblyOK
<1>4. ListsOK
  BY DEF Init, ListsOK, Busy
<1>5. ReturnedOK /\ DeliveredOK
  BY DEF Init, ReturnedOK, DeliveredOK
<1>. QED
  BY <1>2, <1>3, <1>4, <1>5 DEF Inv

LEMMA InvStep == Inv /\ [Next]_vars => Inv'
<1>. SUFFICES ASSUME Inv, [Next]_vars PROVE Inv'
  OBVIOUS
<1>1. SendersOK'
  BY SendersStep DEF Inv
<1>. QED
  BY <1>1, SlotsStep, BusStep, ListsStep, ReturnedStep, DeliveredStep DEF Inv

(* The invariant holds of every application, on any bus.                    *)
THEOREM ProtocolInvariant == Spec => []Inv
<1>. QED
  BY InitInv, InvStep, PTL DEF Spec

(* CmdAckNakList (SendCommandMessage, SendExtCommandMessage): a node's list *)
(* holds the entries of its commands in progress, each once, and no other:  *)
(* no answer posts the semaphore of a call that has returned.               *)
THEOREM EntriesAreLive == Spec => []EntriesLive
<1>1. Inv => EntriesLive
  <2>. SUFFICES ASSUME Inv, NEW n \in Nodes
                PROVE  /\ \A i, j \in DOMAIN AckNaks[n] : AckNaks[n][i].by = AckNaks[n][j].by => i = j
                       /\ {e.by : e \in Range(AckNaks[n])}
                            = {t \in Threads : Sid(t) = n /\ pc[t] # "idle" /\ Acked(t)}
    BY DEF EntriesLive
  <2>1. ListsOK /\ AckNaks[n] \in Seq(Entries) /\ DOMAIN AckNaks[n] = 1 .. Len(AckNaks[n])
    BY ListMembers DEF Inv
  <2>2. \A e \in Range(AckNaks[n]) : e.by \in Threads /\ Listed(n, e)
    BY <2>1, ListMembers DEF Range
  <2>3. ASSUME NEW t \in Threads, Sid(t) = n, Busy(t)
        PROVE  \E e \in Range(AckNaks[n]) : e.by = t
    BY <2>1, <2>3 DEF ListsOK, Range
  <2>. QED
    BY <2>1, <2>2, <2>3 DEF ListsOK, Listed, Busy
<1>. QED
  BY <1>1, ProtocolInvariant, PTL

\* Fragments of one message that are complete are the message.
LEMMA WholeIfOwn ==
    ASSUME NEW data \in Seq(Pieces), NEW t, NEW i, Len(data) > 0,
           \A k \in 1 .. Len(data) : /\ data[k].by = t /\ data[k].nr = i /\ data[k].packet = k
                                     /\ Of(data[k]).packets = Len(data)
    PROVE  data = Whole(t, i)
<1>1. Len(data) \in Nat /\ \A k \in 1 .. Len(data) : data[k] \in Pieces
  OBVIOUS
<1>2. \A k \in 1 .. Len(data) : data[k] = [by |-> t, nr |-> i, packet |-> k]
  <2>. SUFFICES ASSUME NEW k \in 1 .. Len(data) PROVE data[k] = [by |-> t, nr |-> i, packet |-> k]
    OBVIOUS
  <2>1. data[k] \in [by : Threads, nr : Nat, packet : Nat]
    BY <1>1 DEF Pieces
  <2>. QED
    BY <2>1
<1>3. Len(data) = app.program[t][i].packets
  <2>1. 1 \in 1 .. Len(data)
    BY <1>1
  <2>. QED
    BY <2>1 DEF Of
<1>4. data = [k \in 1 .. Len(data) |-> [by |-> t, nr |-> i, packet |-> k]]
  <2>1. data = [k \in 1 .. Len(data) |-> data[k]]
    OBVIOUS
  <2>. QED
    BY <1>2, <2>1
<1>. QED
  BY <1>3, <1>4 DEF Whole

\* Of the messages that are sent under p's id there is one only.
LEMMA OnlyOne ==
    ASSUME SendersOK, NEW p \in Pieces, Sole(p.by, p.nr), NEW q \in Pieces, PieceId(q) = PieceId(p)
    PROVE  q.by = p.by /\ q.nr = p.nr
<1>1. /\ p.by \in Threads /\ p.nr \in DOMAIN app.program[p.by]
      /\ q.by \in Threads /\ q.nr \in DOMAIN app.program[q.by]
  BY DEF Pieces
<1>2. MessageId(q.by, q.nr) = PieceId(q) /\ MessageId(p.by, p.nr) = PieceId(p)
  BY DEF MessageId, PieceId, Of, Sid
<1>. QED
  BY <1>1, <1>2 DEF Sole

LEMMA CompleteIsWhole ==
    ASSUME Inv, NEW p \in Pieces, Sole(p.by, p.nr), NEW data, Complete(data, PieceId(p))
    PROVE  data = Whole(p.by, p.nr)
<1>1. /\ data \in Seq(Pieces) /\ Len(data) \in Nat /\ Len(data) > 0
      /\ \A k \in 1 .. Len(data) : /\ data[k] \in Pieces /\ data[k].packet = k
                                   /\ PieceId(data[k]) = PieceId(p)
                                   /\ Of(data[k]).packets = Len(data)
  <2>1. data \in Seq(Pieces) /\ data # <<>>
    BY DEF Complete, Gathered
  <2>2. Len(data) \in Nat /\ Len(data) > 0 /\ \A k \in 1 .. Len(data) : data[k] \in Pieces
    BY <2>1
  <2>. QED
    BY <2>1, <2>2 DEF Complete, Gathered
<1>2. \A k \in 1 .. Len(data) : data[k].by = p.by /\ data[k].nr = p.nr
  BY <1>1, OnlyOne DEF Inv
<1>. QED
  BY <1>1, <1>2, WholeIfOwn

(* ReceiveExtCommand, ReceiveExtAnnouncement: where no other message is     *)
(* sent under its id, what an application is given is one message, whole    *)
(* and in order, however many of its fragments were lost and sent again.    *)
DeliveredWhole ==
    \A d \in delivered : \E p \in Pieces :
        /\ Complete(d.data, PieceId(p))
        /\ Sole(p.by, p.nr) => d.data = Whole(p.by, p.nr)

THEOREM DeliveriesAreWhole == Spec => []DeliveredWhole
<1>1. Inv => DeliveredWhole
  BY CompleteIsWhole DEF Inv, DeliveredOK, DeliveredWhole
<1>. QED
  BY <1>1, ProtocolInvariant, PTL

\* What a command returns where no other message has its id.
LEMMA SoleAnswer ==
    ASSUME Inv, NEW t \in Threads, NEW i \in DOMAIN status[t], Sole(t, i),
           app.program[t][i].type \in Commands,
           status[t][i] \notin {CsFailed, CsTimeout, Garbage}
    PROVE  /\ status[t][i] <= 0
           /\ [node |-> app.program[t][i].did, data |-> Whole(t, i), status |-> -status[t][i]]
                 \in delivered
<1>. DEFINE m == app.program[t][i]
            id == AnswerId(t, i)
<1>1. Given(id, status[t][i])
  BY DEF Inv, ReturnedOK
<1>2. PICK d \in delivered, c \in Commands :
          /\ id.type = AckType(c)
          /\ d = [node |-> id.sid, data |-> d.data, status |-> -status[t][i]]
          /\ Complete(d.data, CommandId(c, id))
  BY <1>1 DEF Given
<1>3. i \in DOMAIN app.program[t] /\ SendersOK
  BY DEF Inv, SendersOK
<1>4. m.packets \in Nat \ {0} /\ i \in Nat
  <2>1. app.program[t] \in Seq(Messages)
    BY <1>3, AppTypes DEF SendersOK
  <2>. QED
    BY <1>3, <2>1, MessageTypes DEF SendersOK
<1>5. PICK p : p = [by |-> t, nr |-> i, packet |-> 1]
  OBVIOUS
<1>6. p \in Pieces
  BY <1>3, <1>4, <1>5 DEF Pieces, Of
<1>7. CommandId(c, id) = PieceId(p)
  <2>1. c = m.type
    BY <1>2 DEF AnswerId, AckType, Commands
  <2>. QED
    BY <1>5, <2>1 DEF CommandId, AnswerId, PieceId, Of, Sid
<1>8. d.data = Whole(t, i)
  BY <1>2, <1>5, <1>6, <1>7, CompleteIsWhole
<1>9. status[t][i] <= 0 /\ id.sid = m.did
  BY <1>1 DEF Given, AnswerId
<1>. QED
  BY <1>2, <1>8, <1>9
=============================================================================
