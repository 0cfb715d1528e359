----------------------------- MODULE CiiSessions ----------------------------
(***************************************************************************)
(* The common instrument interface (src/CommonInstrumentInterface): for     *)
(* each connection a socket thread that routes its messages to the          *)
(* application and a status thread that sends it status messages, and       *)
(* around them the work queue that fans a status out, the application       *)
(* thread that completes pending commands, and a debug call that drops a    *)
(* client.                                                                  *)
(*                                                                          *)
(* A message is the client and its place in the client's stream.  Memory    *)
(* that is used after it was freed ends the behaviour: crash says by whom.  *)
(***************************************************************************)
EXTENDS Integers, SequencesExt, FiniteSetsExt

CONSTANTS
    Apps,      \* the applications and their clients: see below
    Clients,   \* connections, each made at most once
    MAX_STATUS_QUEUE_SIZE,
    Null

ASSUME ClientsAssumption == IsFiniteSet(Clients) /\ Null \notin Clients
Crashes == {"SendNak", "HandleMessageCompletion", "DestroyStatusWorker", "CiiStatusThread",
            "CiiDbgDropClient"}
ASSUME NullAssumption == Null \notin [nr : Nat, todo : Seq(Clients)] /\ Null \notin Crashes
ASSUME QueueAssumption == MAX_STATUS_QUEUE_SIZE \in Nat

(***************************************************************************)
(* app.script[c] is what client c sends: [type, does], where type is a      *)
(* message type, or "Garbage" for a broken header or footer, and does says  *)
(* what the message asks for: the access level of a login; of a command,    *)
(* what its callback does with it, or why it is refused before one.         *)
(* app.hangups are the clients that may close, app.drops those the debug    *)
(* call may drop, app.statuses how often CiiSendStatus is called.  app.early *)
(* says that a thread which is to complete a command may do so while the    *)
(* callback that handed it the command has not returned yet.                *)
(***************************************************************************)
Levels == {"AlViewOnly", "AlMaster", "AlLocalUI", "AlEngineering"}
Refusals == {"MsUnknownCommand", "MsDeprecated", "MsMalformedMessage", "MsFailed"}

VARIABLES
    app,
    peer,      \* per connection: "none", "up", or "down" when either end closed it
    received,  \* how many of its messages the socket thread has read
    wire,      \* what the client was sent
    thread,    \* where the socket thread is
    ref,       \* SocketManager_t ReferenceCount; -1 before it exists
    access,    \* GrantedAccess
    MasterClient, LocalUICount,
    BackendList, ClientList,
    messages,  \* the messages allocated and not freed: [client, nr, posted, complete, acks, doing]
    worker,    \* where the status thread is
    statuses,  \* Status.Messages, the newest first
    popped,    \* the status the status thread has taken out
    semaphore, \* Status.ThreadMessageSemaphore
    terminate, \* Status.TerminateThread
    raised,    \* calls of CiiSendStatus so far
    StatusWorkQueue,
    routing,   \* the status the work queue thread is handing out, and to whom still
    dropping,  \* the client CiiDbgDropClient has found
    disconnects, \* calls of LocalUIDisconnectCallback
    crash      \* who used freed memory

socketVars == <<peer, received, wire, thread, ref, messages>>
loginVars == <<access, MasterClient, LocalUICount, BackendList, disconnects>>
statusVars == <<worker, statuses, popped, semaphore, terminate>>
fanoutVars == <<ClientList, raised, StatusWorkQueue, routing>>
vars == <<app, socketVars, loginVars, statusVars, fanoutVars, dropping, crash>>

\* IsMasterSet and MasterClient always change together.
IsMasterSet == MasterClient # Null

Init ==
    /\ app \in Apps
    /\ peer = [c \in Clients |-> "none"]
    /\ received = [c \in Clients |-> 0]
    /\ wire = [c \in Clients |-> <<>>]
    /\ thread = [c \in Clients |-> "none"]
    /\ ref = [c \in Clients |-> -1]
    /\ access = [c \in Clients |-> "AlInvalid"]
    /\ MasterClient = Null /\ LocalUICount = 0
    /\ BackendList = <<>> /\ ClientList = <<>>
    /\ messages = {}
    /\ worker = [c \in Clients |-> "none"]
    /\ statuses = [c \in Clients |-> <<>>]
    /\ popped = [c \in Clients |-> 0]
    /\ semaphore = [c \in Clients |-> 0]
    /\ terminate = [c \in Clients |-> FALSE]
    /\ raised = 0 /\ StatusWorkQueue = <<>>
    /\ routing = Null /\ dropping = Null /\ disconnects = 0 /\ crash = Null

(***************************************************************************)
(* The socket manager.  ref 0 is a SocketManager_t that was freed.          *)
(***************************************************************************)
Freed(c) == ref[c] = 0

\* SendTriosComm: header, data and footer under SendLock.  A send that fails
\* closes the connection; one to a client that has gone may still succeed.
Transmit(c, frame) ==
    wire' = IF peer[c] = "up" THEN [wire EXCEPT ![c] = Append(@, frame)] ELSE wire

\* CloseClientConnection and CloseSocketManager.
Close(c) == peer' = [peer EXCEPT ![c] = "down"]

Increment(c) == ref' = [ref EXCEPT ![c] = @ + 1]
Decrement(c) == ref' = [ref EXCEPT ![c] = @ - 1]

\* CiiFreeMessage, whose CleanupMessageCallback drops the message's reference.
Free(m) == messages' = messages \ {m} /\ Decrement(m.client)

At(c, place) == crash = Null /\ thread[c] = place
Goto(c, place) == thread' = [thread EXCEPT ![c] = place]

\* The accept thread: CreateSocketManager.
Accept(c) ==
    /\ At(c, "none") /\ c \in DOMAIN app.script
    /\ peer' = [peer EXCEPT ![c] = "up"]
    /\ ref' = [ref EXCEPT ![c] = 1]
    /\ Goto(c, "register")
    /\ UNCHANGED <<app, received, wire, messages, loginVars, statusVars, fanoutVars, dropping, crash>>

\* CiiRegisterBackend: the status thread is created, then the client enters
\* the list statuses go to, then the list of backends.
CreateStatusThread(c) ==
    /\ At(c, "register")
    /\ worker' = [worker EXCEPT ![c] = "start"]
    /\ Goto(c, "list")
    /\ UNCHANGED <<app, peer, received, wire, ref, messages, loginVars, statuses,
                   popped, semaphore, terminate, fanoutVars, dropping, crash>>

ListClient(c) ==
    /\ At(c, "list") /\ routing = Null
    /\ ClientList' = <<c>> \o ClientList
    /\ Goto(c, "enlist")
    /\ UNCHANGED <<app, peer, received, wire, ref, messages, loginVars, statusVars,
                   raised, StatusWorkQueue, routing, dropping, crash>>

ListBackend(c) ==
    /\ At(c, "enlist")
    /\ BackendList' = Append(BackendList, c)
    /\ Goto(c, "receive")
    /\ UNCHANGED <<app, peer, received, wire, ref, messages, access, MasterClient, LocalUICount,
                   disconnects, statusVars, fanoutVars, dropping, crash>>

(***************************************************************************)
(* TriosSocketManagerThread and CiiBackendRouteReceivedMessage.             *)
(***************************************************************************)
Script(c) == app.script[c]
Current(c) == Script(c)[received[c]]
Incoming(c) == Script(c)[received[c] + 1]
HasIncoming(c) == peer[c] = "up" /\ received[c] < Len(Script(c))
Message(c) == CHOOSE m \in messages : m.client = c /\ m.nr = received[c]

RefForgotten(c) == UNCHANGED ref  \* Fault: the message takes no reference.
MessageRef(c) == Increment(c)

\* A whole message has been read; it holds a reference to its connection.
Receive(c) ==
    /\ At(c, "receive") /\ HasIncoming(c) /\ Incoming(c).type # "Garbage"
    /\ received' = [received EXCEPT ![c] = @ + 1]
    /\ messages' = messages \cup
           {[client |-> c, nr |-> received'[c], posted |-> FALSE, complete |-> FALSE,
             acks |-> 0, doing |-> "none"]}
    /\ MessageRef(c)
    /\ Goto(c, "route")
    /\ UNCHANGED <<app, peer, wire, loginVars, statusVars, fanoutVars, dropping, crash>>

\* recv fails or returns 0, or the header or footer is wrong.
ReceiveFails(c) ==
    /\ At(c, "receive")
    /\ peer[c] = "down" \/ (HasIncoming(c) /\ Incoming(c).type = "Garbage")
    /\ Close(c)
    /\ Goto(c, "unregister")
    /\ UNCHANGED <<app, received, wire, ref, messages, loginVars, statusVars, fanoutVars, dropping, crash>>

\* Why a message is not given to a callback: MsSuccess when it is.
MayAct(level) == level \in {"AlMaster", "AlLocalUI", "AlEngineering"}
Refusal(c) ==
    LET m == Current(c) IN
    CASE m.type = "Login" /\ access[c] # "AlInvalid" -> "MsAccessDenied"
      [] m.type = "Login" /\ m.does \notin Levels -> "MsMalformedMessage"
      [] m.type \in {"Get", "Action"} /\ access[c] = "AlInvalid" -> "MsNotLoggedIn"
      [] m.type = "Action" /\ access[c] # "AlInvalid" /\ ~MayAct(access[c]) -> "MsAccessDenied"
      [] OTHER -> IF m.does \in Refusals THEN m.does ELSE "MsSuccess"

Routes(c, types) == At(c, "route") /\ Current(c).type \in types

\* SendNak, also when the callback returned an error.
RouteNak(c) ==
    /\ Routes(c, {"Get", "Action"}) /\ Refusal(c) # "MsSuccess"
    /\ Transmit(c, [kind |-> "Nak", nr |-> received[c]])
    /\ Free(Message(c))
    /\ Goto(c, "receive")
    /\ UNCHANGED <<app, peer, received, loginVars, statusVars, fanoutVars, dropping, crash>>

\* SendNak does not know a login: its ASSERT ends the process.
RefuseLogin(c) ==
    /\ Routes(c, {"Login"}) /\ Refusal(c) # "MsSuccess"
    /\ crash' = "SendNak"
    /\ UNCHANGED <<app, socketVars, loginVars, statusVars, fanoutVars, dropping>>

\* MtLogin under BackendListLock: only one client is the master.
RouteLogin(c) ==
    LET asked == Current(c).does IN
    /\ Routes(c, {"Login"}) /\ Refusal(c) = "MsSuccess"
    /\ access' = [access EXCEPT ![c] =
           IF asked = "AlMaster" /\ IsMasterSet THEN "AlViewOnly" ELSE asked]
    /\ MasterClient' = IF asked = "AlMaster" /\ ~IsMasterSet THEN c ELSE MasterClient
    /\ LocalUICount' = LocalUICount + (IF asked = "AlLocalUI" THEN 1 ELSE 0)
    /\ Goto(c, "accept")
    /\ UNCHANGED <<app, peer, received, wire, ref, messages, BackendList, disconnects,
                   statusVars, fanoutVars, dropping, crash>>

LoginAccept(c) ==
    /\ At(c, "accept")
    /\ Transmit(c, [kind |-> "Accept", nr |-> received[c]])
    /\ Free(Message(c))
    /\ Goto(c, "receive")
    /\ UNCHANGED <<app, peer, received, loginVars, statusVars, fanoutVars, dropping, crash>>

\* The default case returns without freeing the message.
RouteUnknownType(c) ==
    /\ Routes(c, {"Other"})
    /\ Goto(c, "receive")
    /\ UNCHANGED <<app, peer, received, wire, ref, messages, loginVars, statusVars,
                   fanoutVars, dropping, crash>>

\* The callback is called.  It returns "MsSuccess", or "MsPending" after it
\* handed the message to another thread, or completes it itself
\* ("MsCompleted") and returns anything.
Kept == {"MsPending", "MsCompleted"}
Does(m) == Script(m.client)[m.nr].does

CallCallback(c) ==
    /\ Routes(c, {"Get", "Action"}) /\ Refusal(c) = "MsSuccess"
    /\ Goto(c, "callback")
    /\ UNCHANGED <<app, peer, received, wire, ref, messages, loginVars, statusVars,
                   fanoutVars, dropping, crash>>

Change(m, n) == messages' = (messages \ {m}) \cup {n}

\* The callback returned: Flags |= MsPostCallback.
CallbackReturns(c) ==
    /\ At(c, "callback")
    /\ Current(c).does = "MsCompleted" => Message(c).complete
    /\ Change(Message(c), [Message(c) EXCEPT !.posted = TRUE])
    /\ Goto(c, "completion")
    /\ UNCHANGED <<app, peer, received, wire, ref, loginVars, statusVars, fanoutVars, dropping, crash>>

\* HandleMessageCompletion: free a message that was completed meanwhile, or
\* SendAck, which posts AckEvent.
Handles(c) == {m \in messages : m.client = c /\ m.nr = received[c]}
FreeCompleted(c) ==
    /\ At(c, "completion")
    /\ \E m \in Handles(c) : m.complete /\ Free(m)
    /\ Goto(c, "receive")
    /\ UNCHANGED <<app, peer, received, wire, loginVars, statusVars, fanoutVars, dropping, crash>>

SendAck(c) ==
    /\ At(c, "completion")
    /\ \E m \in Handles(c) : ~m.complete /\ Change(m, [m EXCEPT !.acks = @ + 1])
    /\ Transmit(c, [kind |-> "Ack", nr |-> received[c]])
    /\ Goto(c, IF Current(c).does \in Kept THEN "receive" ELSE "respond")
    /\ UNCHANGED <<app, peer, received, ref, loginVars, statusVars, fanoutVars, dropping, crash>>

CompletionFreed(c) ==
    /\ At(c, "completion") /\ Handles(c) = {}
    /\ crash' = "HandleMessageCompletion"
    /\ UNCHANGED <<app, socketVars, loginVars, statusVars, fanoutVars, dropping>>

\* CiiCompletePendingCommand after the callback: wait for AckEvent, respond, free.
AckNotAwaited(m) == TRUE  \* Fault: the response does not wait for the ACK.
AckAwaited(m) == m.acks > 0
Respond(m) ==
    /\ AckAwaited(m)
    /\ Transmit(m.client, [kind |-> "Response", nr |-> m.nr])
    /\ Free(m)

RespondNow(c) ==
    /\ At(c, "respond")
    /\ Respond(Message(c))
    /\ Goto(c, "receive")
    /\ UNCHANGED <<app, peer, received, loginVars, statusVars, fanoutVars, dropping, crash>>

CompletePendingCommand(m) ==
    /\ crash = Null
    /\ m.posted /\ m.doing = "none" /\ Does(m) = "MsPending"
    /\ Respond(m)
    /\ UNCHANGED <<app, peer, received, thread, loginVars, statusVars, fanoutVars, dropping, crash>>

\* CiiCompletePendingCommand of a message without MsPostCallback: SendAck and
\* respond at once; free if the flag is set by now, and else mark it, for
\* HandleMessageCompletion to free.  (A |= of one thread may undo that of the
\* other: that is as if the undone one came when nobody looks at it any more.)
Completing(m, place) == crash = Null /\ Does(m) \in Kept /\ m.doing = place
CompleteInCallback(m) ==
    /\ Completing(m, "none") /\ ~m.posted /\ thread[m.client] = "callback"
    /\ m \in Handles(m.client)
    /\ Does(m) = "MsPending" => app.early
    /\ Transmit(m.client, [kind |-> "Ack", nr |-> m.nr])
    /\ Change(m, [m EXCEPT !.doing = "respond"])
    /\ UNCHANGED <<app, peer, received, thread, ref, loginVars, statusVars, fanoutVars, dropping, crash>>

RespondInCallback(m) ==
    /\ Completing(m, "respond")
    /\ Transmit(m.client, [kind |-> "Response", nr |-> m.nr])
    /\ Change(m, [m EXCEPT !.doing = "finish"])
    /\ UNCHANGED <<app, peer, received, thread, ref, loginVars, statusVars, fanoutVars, dropping, crash>>

FinishPosted(m) ==
    /\ Completing(m, "finish") /\ m.posted
    /\ Free(m)
    /\ UNCHANGED <<app, peer, received, wire, thread, loginVars, statusVars, fanoutVars, dropping, crash>>

FinishUnposted(m) ==
    /\ Completing(m, "finish") /\ ~m.posted
    /\ Change(m, [m EXCEPT !.doing = "mark"])
    /\ UNCHANGED <<app, peer, received, wire, thread, ref, loginVars, statusVars, fanoutVars, dropping, crash>>

MarkComplete(m) ==
    /\ Completing(m, "mark")
    /\ Change(m, [m EXCEPT !.complete = TRUE, !.doing = "done"])
    /\ UNCHANGED <<app, peer, received, wire, thread, ref, loginVars, statusVars, fanoutVars, dropping, crash>>

\* CiiUnregisterBackend under BackendListLock.
MasterKept(c) == MasterClient  \* Fault: the next master is refused.
MasterAfter(c) == IF access[c] = "AlMaster" THEN Null ELSE MasterClient

Unregister(c) ==
    LET uis == LocalUICount - (IF access[c] = "AlLocalUI" THEN 1 ELSE 0) IN
    /\ At(c, "unregister")
    /\ MasterClient' = MasterAfter(c)
    /\ LocalUICount' = uis
    /\ disconnects' = disconnects + (IF access[c] = "AlLocalUI" /\ uis = 0 THEN 1 ELSE 0)
    /\ BackendList' = RemoveFirst(BackendList, c)
    /\ Goto(c, "destroy")
    /\ UNCHANGED <<app, peer, received, wire, ref, messages, access, statusVars,
                   fanoutVars, dropping, crash>>

\* DestroyStatusWorker: under both locks, then the post after them.
DestroyStatusWorker(c) ==
    /\ At(c, "destroy") /\ routing = Null
    /\ ClientList' = RemoveFirst(ClientList, c)
    /\ statuses' = [statuses EXCEPT ![c] = <<>>]
    /\ terminate' = [terminate EXCEPT ![c] = TRUE]
    /\ Goto(c, "post")
    /\ UNCHANGED <<app, peer, received, wire, ref, messages, loginVars, worker, popped,
                   semaphore, raised, StatusWorkQueue, routing, dropping, crash>>

NoPost(c) == UNCHANGED semaphore  \* Fault: the thread is never woken.
WakeUp(c) == semaphore' = [semaphore EXCEPT ![c] = @ + 1]

\* The status thread may have freed the client by now.
PostTerminate(c) ==
    /\ At(c, "post")
    /\ IF worker[c] = "ended"
       THEN crash' = "DestroyStatusWorker" /\ UNCHANGED <<semaphore, thread>>
       ELSE WakeUp(c) /\ Goto(c, "release") /\ UNCHANGED crash
    /\ UNCHANGED <<app, peer, received, wire, ref, messages, loginVars, worker, statuses,
                   popped, terminate, fanoutVars, dropping>>

Release(c) ==
    /\ At(c, "release")
    /\ Decrement(c)
    /\ Goto(c, "ended")
    /\ UNCHANGED <<app, peer, received, wire, messages, loginVars, statusVars, fanoutVars, dropping, crash>>

(***************************************************************************)
(* The status thread of a client.                                           *)
(***************************************************************************)
Working(c, place) == crash = Null /\ worker[c] = place

\* The thread takes its own reference, whenever it gets to run.
StatusStart(c) ==
    /\ Working(c, "start")
    /\ IF Freed(c)
       THEN crash' = "CiiStatusThread" /\ UNCHANGED <<ref, worker>>
       ELSE Increment(c) /\ worker' = [worker EXCEPT ![c] = "wait"] /\ UNCHANGED crash
    /\ UNCHANGED <<app, peer, received, wire, thread, messages, loginVars, statuses,
                   popped, semaphore, terminate, fanoutVars, dropping>>

\* Under Status.Lock: end, take the oldest status, or go back to wait.
Proceed(c) ==
    \/ /\ terminate[c]
       /\ Decrement(c)
       /\ statuses' = [statuses EXCEPT ![c] = <<>>]
       /\ worker' = [worker EXCEPT ![c] = "ended"]
       /\ UNCHANGED popped
    \/ /\ ~terminate[c] /\ statuses[c] # <<>>
       /\ popped' = [popped EXCEPT ![c] = Last(statuses[c])]
       /\ statuses' = [statuses EXCEPT ![c] = Front(@)]
       /\ worker' = [worker EXCEPT ![c] = "send"]
       /\ UNCHANGED ref
    \/ /\ ~terminate[c] /\ statuses[c] = <<>>
       /\ worker' = [worker EXCEPT ![c] = "wait"]
       /\ UNCHANGED <<ref, statuses, popped>>

StatusWake(c) ==
    /\ Working(c, "wait") /\ semaphore[c] > 0
    /\ semaphore' = [semaphore EXCEPT ![c] = @ - 1]
    /\ Proceed(c)
    /\ UNCHANGED <<app, peer, received, wire, thread, messages, loginVars, terminate,
                   fanoutVars, dropping, crash>>

StatusSend(c) ==
    /\ Working(c, "send")
    /\ Transmit(c, [kind |-> "Status", nr |-> popped[c]])
    /\ worker' = [worker EXCEPT ![c] = "next"]
    /\ UNCHANGED <<app, peer, received, thread, ref, messages, loginVars, statuses, popped,
                   semaphore, terminate, fanoutVars, dropping, crash>>

StatusNext(c) ==
    /\ Working(c, "next")
    /\ Proceed(c)
    /\ UNCHANGED <<app, peer, received, wire, thread, messages, loginVars, semaphore,
                   terminate, fanoutVars, dropping, crash>>

(***************************************************************************)
(* CiiSendStatus, and the work queue thread that hands a status to every    *)
(* client while it holds ClientListLock (routing # Null).                   *)
(***************************************************************************)
SendStatus ==
    /\ crash = Null /\ raised < app.statuses
    /\ raised' = raised + 1
    /\ StatusWorkQueue' = Append(StatusWorkQueue, raised')
    /\ UNCHANGED <<app, socketVars, loginVars, statusVars, ClientList, routing, dropping, crash>>

RouteStatus ==
    /\ crash = Null /\ routing = Null /\ StatusWorkQueue # <<>>
    /\ routing' = [nr |-> Head(StatusWorkQueue), todo |-> ClientList]
    /\ StatusWorkQueue' = Tail(StatusWorkQueue)
    /\ UNCHANGED <<app, socketVars, loginVars, statusVars, ClientList, raised, dropping, crash>>

QueueBehind(queue, nr) == Append(queue, nr)  \* Fault: push_back for push_front.
QueueStatus(queue, nr) == <<nr>> \o queue

RouteToClient ==
    /\ crash = Null /\ routing # Null /\ routing.todo # <<>>
    /\ LET c == Head(routing.todo) IN
       CASE Len(statuses[c]) >= MAX_STATUS_QUEUE_SIZE ->
                Close(c) /\ UNCHANGED <<statuses, semaphore>>
         [] Len(statuses[c]) < MAX_STATUS_QUEUE_SIZE /\ ~terminate[c] ->
                /\ statuses' = [statuses EXCEPT ![c] = QueueStatus(@, routing.nr)]
                /\ semaphore' = [semaphore EXCEPT ![c] = @ + 1]
                /\ UNCHANGED peer
         [] OTHER -> UNCHANGED <<peer, statuses, semaphore>>
    /\ routing' = [routing EXCEPT !.todo = Tail(@)]
    /\ UNCHANGED <<app, received, wire, thread, ref, messages, loginVars, worker, popped,
                   terminate, ClientList, raised, StatusWorkQueue, dropping, crash>>

RouteStatusDone ==
    /\ crash = Null /\ routing # Null /\ routing.todo = <<>>
    /\ routing' = Null
    /\ UNCHANGED <<app, socketVars, loginVars, statusVars, ClientList, raised,
                   StatusWorkQueue, dropping, crash>>

(***************************************************************************)
(* CiiDbgDropClient, in two steps: it closes after BackendListLock.  And    *)
(* the clients.                                                             *)
(***************************************************************************)
DropFind(c) ==
    /\ crash = Null /\ dropping = Null
    /\ c \in app.drops \cap Range(BackendList)
    /\ dropping' = c
    /\ UNCHANGED <<app, socketVars, loginVars, statusVars, fanoutVars, crash>>

DropClose ==
    /\ crash = Null /\ dropping # Null
    /\ IF Freed(dropping) \/ worker[dropping] = "ended"
       THEN crash' = "CiiDbgDropClient" /\ UNCHANGED peer
       ELSE Close(dropping) /\ UNCHANGED crash
    /\ dropping' = Null
    /\ UNCHANGED <<app, received, wire, thread, ref, messages, loginVars, statusVars, fanoutVars>>

HangUp(c) ==
    /\ crash = Null /\ c \in app.hangups /\ peer[c] = "up"
    /\ Close(c)
    /\ UNCHANGED <<app, received, wire, thread, ref, messages, loginVars, statusVars,
                   fanoutVars, dropping, crash>>

SocketThread(c) ==
    \/ CreateStatusThread(c) \/ ListClient(c) \/ ListBackend(c)
    \/ Receive(c) \/ ReceiveFails(c)
    \/ RouteNak(c) \/ RefuseLogin(c) \/ RouteLogin(c) \/ LoginAccept(c) \/ RouteUnknownType(c)
    \/ CallCallback(c) \/ CallbackReturns(c) \/ FreeCompleted(c) \/ SendAck(c)
    \/ CompletionFreed(c) \/ RespondNow(c)
    \/ Unregister(c) \/ DestroyStatusWorker(c) \/ PostTerminate(c) \/ Release(c)
StatusThread(c) == StatusStart(c) \/ StatusWake(c) \/ StatusSend(c) \/ StatusNext(c)
WorkQueueThread == RouteStatus \/ RouteToClient \/ RouteStatusDone
Application ==
    \E m \in messages :
        \/ CompletePendingCommand(m) \/ CompleteInCallback(m) \/ RespondInCallback(m)
        \/ FinishPosted(m) \/ FinishUnposted(m) \/ MarkComplete(m)

Next == \/ \E c \in Clients : \/ Accept(c) \/ SocketThread(c) \/ StatusThread(c)
                             \/ DropFind(c) \/ HangUp(c)
        \/ Application \/ SendStatus \/ WorkQueueThread \/ DropClose

\* Every thread runs; an application that returned MsPending completes its
\* command ("it _must_ call this later").
Fairness == /\ \A c \in Clients : WF_vars(SocketThread(c)) /\ WF_vars(StatusThread(c))
            /\ WF_vars(WorkQueueThread) /\ WF_vars(Application)

Spec == Init /\ [][Next]_vars /\ Fairness

(***************************************************************************)
(* Properties.                                                              *)
(***************************************************************************)
LoggedIn(level) ==
    {c \in Clients : /\ access[c] = level
                     /\ thread[c] \notin {"destroy", "post", "release", "ended"}}

\* MtLogin, CiiUnregisterBackend: at most one connected client is the master,
\* the one CiiGetActiveMaster reports, and LocalUICount counts the local UIs.
SessionsCounted ==
    /\ LoggedIn("AlMaster") = IF IsMasterSet THEN {MasterClient} ELSE {}
    /\ LocalUICount = Cardinality(LoggedIn("AlLocalUI"))

\* SendAck, SendNak, CiiCompletePendingCommand: whoever sends them, a client
\* is sent one NAK or one Accept for a message, or the ACK of a command and
\* then its response, and a message is not freed before its client has been
\* answered.  (An application that completes a command before the callback
\* has returned may see two ACKs.)
Answer(c, nr, i) == wire[c][i].kind # "Status" /\ wire[c][i].nr = nr
Answered(c, nr, kind) == \E i \in DOMAIN wire[c] : Answer(c, nr, i) /\ wire[c][i].kind = kind
AckThenResponse(c, nr) ==
    \A j \in DOMAIN wire[c] : Answer(c, nr, j) =>
        /\ \A i \in 1 .. j - 1 : Answer(c, nr, i) => wire[c][i].kind = "Ack" /\ wire[c][j].kind = "Response"
        /\ wire[c][j].kind = "Response" => \E i \in 1 .. j - 1 : Answer(c, nr, i)
FreedAnswered(c, nr) ==
    \/ peer[c] # "up" \/ \E m \in messages : m.client = c /\ m.nr = nr
    \/ \E kind \in {"Nak", "Accept", "Response"} : Answered(c, nr, kind)
AnswersInOrder ==
    ~app.early => \A c \in Clients : \A nr \in 1 .. received[c] :
        AckThenResponse(c, nr) /\ FreedAnswered(c, nr)

\* IncrementSocketManagerReference and its counterpart: the count is the
\* socket thread, the status thread and the messages not freed yet, so the
\* connection is freed exactly when the last of them is done with it.
RefsExact ==
    \A c \in Clients : thread[c] # "none" =>
        ref[c] = (IF thread[c] = "ended" THEN 0 ELSE 1)
               + (IF worker[c] \in {"wait", "send", "next"} THEN 1 ELSE 0)
               + Cardinality({m \in messages : m.client = c})

\* CiiSendStatus to the socket: a client is sent the statuses in the order
\* they were raised, and misses none between the first and the last it gets.
IsStatus(c, i) == wire[c][i].kind = "Status"
InOrder(c) ==
    \A i, j \in DOMAIN wire[c] :
        /\ i < j /\ IsStatus(c, i) /\ IsStatus(c, j)
        /\ \A k \in i + 1 .. j - 1 : ~IsStatus(c, k)
        => wire[c][j].nr = wire[c][i].nr + 1
StatusesInOrder == \A c \in Clients : InOrder(c)

\* RouteStatus, DestroyStatusWorker: a status thread never waits in vain.  What
\* is in its queue has posted it, and so has the end, but for the moment
\* between the locks and the post.
StatusNoticed ==
    \A c \in Clients : worker[c] \in {"start", "wait"} /\ semaphore[c] = 0 =>
        statuses[c] = <<>> /\ (terminate[c] => thread[c] = "post")

\* What it takes for freed memory to be used, or for SendNak's ASSERT to fail: a
\* client that logs in twice or at an unknown level, an application that is
\* early, a debug call for a client that leaves, a status sent, or a status
\* thread that is not scheduled before its connection has come and gone.
Leaving == {"post", "release", "ended"}
LogsIn(c, i) == Script(c)[i].type = "Login"
LoginRefused(c) ==
    \E i \in 1 .. received[c] :
        LogsIn(c, i) /\ (Script(c)[i].does \notin Levels \/ \E j \in 1 .. i - 1 : LogsIn(c, j))
CrashesExplained ==
    /\ crash = "SendNak" => \E c \in Clients : LoginRefused(c)
    /\ crash = "HandleMessageCompletion" => app.early
    /\ crash = "CiiDbgDropClient" => \E c \in app.drops : thread[c] \in Leaving
    /\ crash = "DestroyStatusWorker" => raised > 0
    /\ crash = "CiiStatusThread" => \E c \in Clients : thread[c] = "ended" /\ worker[c] = "start"

\* The EXIT path, DestroyStatusWorker and the status thread: so, but for these
\* crashes, a connection that closed is torn down and its memory freed,
\* whatever was in progress.  (A
\* message of an unknown type is never freed and keeps its connection; so does
\* one that is marked complete after HandleMessageCompletion has looked.)
TornDown ==
    /\ [](StatusNoticed /\ CrashesExplained)
    /\ \A c \in Clients :
        peer[c] = "down" ~>
            \/ crash # Null
            \/ Freed(c) /\ worker[c] = "ended"
            \/ \E m \in messages : Script(m.client)[m.nr].type = "Other" \/ (app.early /\ m.complete)

\* CiiStatus.cpp: "Prevent the backend from going away, take out an extra
\* reference to it since we are using it here."
BackendHeld == crash # "CiiStatusThread"

\* ApplicationCallbackLock: "serialize application callbacks, so that the App
\* doesn't have to worry that two or more callbacks are being called
\* simultaneously."
CallbacksSerial == Cardinality({c \in Clients : thread[c] = "callback"}) <= 1
=============================================================================
