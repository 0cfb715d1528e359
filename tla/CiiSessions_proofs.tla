------------------------- MODULE CiiSessions_proofs -------------------------
(***************************************************************************)
(* Theorems about CiiSessions, for any applications and clients.            *)
(***************************************************************************)
EXTENDS CiiSessions, FiniteSetTheorems, SequenceTheorems, WellFoundedInduction, TLAPS

-----------------------------------------------------------------------------
(* Who is logged in.  A client is gone once its socket thread unregistered  *)
(* it, although its GrantedAccess is never cleared.                         *)
Gone == {"destroy", "post", "release", "ended"}
Places == {"none", "register", "list", "enlist", "receive", "unregister", "route", "accept",
           "callback", "completion", "respond"} \cup Gone

SessionTypes ==
    /\ thread \in [Clients -> Places]
    /\ access \in [Clients -> Levels \cup {"AlInvalid"}]
    /\ MasterClient \in Clients \cup {Null}

SessionInv == SessionTypes /\ SessionsCounted

(* A login is accepted from a client that has none, for a known level.      *)
LEMMA LoginFacts ==
    ASSUME NEW c \in Clients, Routes(c, {"Login"}), Refusal(c) = "MsSuccess"
    PROVE  access[c] = "AlInvalid" /\ Current(c).does \in Levels
<1>1. Current(c).type = "Login"
  BY DEF Routes
<1>2. access[c] = "AlInvalid"
  BY <1>1 DEF Refusal
<1>3. Current(c).does \in Levels
  BY <1>1, <1>2 DEF Refusal
<1>. QED
  BY <1>2, <1>3

(* A step that lets nobody in or out leaves the sets of clients as they are. *)
LEMMA SessionsSteady ==
    ASSUME SessionInv, UNCHANGED <<access, MasterClient, LocalUICount>>,
           NEW c \in Clients, NEW p \in Places, Goto(c, p), p \in Gone <=> thread[c] \in Gone
    PROVE  SessionInv'
<1>1. SessionTypes'
  BY DEF SessionInv, SessionTypes, Goto
<1>2. \A d \in Clients : thread'[d] \in Gone <=> thread[d] \in Gone
  BY DEF SessionInv, SessionTypes, Goto
<1>3. \A level : LoggedIn(level)' = LoggedIn(level)
  BY <1>2 DEF LoggedIn, Gone
<1>. QED
  BY <1>1, <1>3 DEF SessionInv, SessionsCounted, IsMasterSet

(* So does one of another thread.                                           *)
LEMMA SessionsElsewhere ==
    ASSUME SessionInv, UNCHANGED <<thread, access, MasterClient, LocalUICount>>
    PROVE  SessionInv'
  BY DEF SessionInv, SessionTypes, SessionsCounted, LoggedIn, IsMasterSet

(* The clients at one level are finitely many.                              *)
LEMMA LoggedInFinite ==
    ASSUME NEW level
    PROVE  IsFiniteSet(LoggedIn(level)) /\ Cardinality(LoggedIn(level)) \in Nat
<1>1. LoggedIn(level) \subseteq Clients
  BY DEF LoggedIn
<1>. QED
  BY <1>1, ClientsAssumption, FS_Subset, FS_CardinalityType

(* A login adds its client at the level it is granted.                      *)
LEMMA LoginCounted ==
    ASSUME SessionInv, NEW c \in Clients, RouteLogin(c)
    PROVE  SessionInv'
<1>. DEFINE asked == Current(c).does
<1>1. /\ access[c] = "AlInvalid" /\ asked \in Levels
      /\ thread[c] = "route" /\ thread' = [thread EXCEPT ![c] = "accept"]
      /\ access' = [access EXCEPT ![c] =
             IF asked = "AlMaster" /\ IsMasterSet THEN "AlViewOnly" ELSE asked]
      /\ MasterClient' = IF asked = "AlMaster" /\ ~IsMasterSet THEN c ELSE MasterClient
      /\ LocalUICount' = LocalUICount + (IF asked = "AlLocalUI" THEN 1 ELSE 0)
  BY LoginFacts DEF RouteLogin, Routes, At, Goto
<1>2. SessionTypes'
  <2>1. thread' \in [Clients -> Places]
    BY <1>1 DEF SessionInv, SessionTypes, Places
  <2>2. access' \in [Clients -> Levels \cup {"AlInvalid"}]
    BY <1>1 DEF SessionInv, SessionTypes, Levels
  <2>. QED
    BY <1>1, <2>1, <2>2 DEF SessionInv, SessionTypes
<1>3. \A level : c \notin LoggedIn(level) \/ level = "AlInvalid"
  BY <1>1 DEF LoggedIn
<1>4. ASSUME NEW level, level # "AlInvalid"
      PROVE  LoggedIn(level)' = IF access'[c] = level THEN LoggedIn(level) \cup {c} ELSE LoggedIn(level)
  <2>1. thread'[c] \notin Gone /\ thread[c] \notin Gone
    BY <1>1 DEF SessionInv, SessionTypes, Gone
  <2>2. \A d \in Clients \ {c} : thread'[d] = thread[d] /\ access'[d] = access[d]
    BY <1>1 DEF SessionInv, SessionTypes
  <2>. QED
    BY <1>1, <1>4, <2>1, <2>2 DEF LoggedIn, Gone
<1>5. access'[c] = IF asked = "AlMaster" /\ IsMasterSet THEN "AlViewOnly" ELSE asked
  BY <1>1 DEF SessionInv, SessionTypes
<1>6. LoggedIn("AlMaster")' = IF IsMasterSet' THEN {MasterClient'} ELSE {}
  <2>1. c # Null
    BY ClientsAssumption
  <2>2. LoggedIn("AlMaster")' =
           IF access'[c] = "AlMaster" THEN LoggedIn("AlMaster") \cup {c} ELSE LoggedIn("AlMaster")
    BY <1>4
  <2>. QED
    BY <1>1, <1>5, <2>1, <2>2 DEF SessionInv, SessionsCounted, IsMasterSet
<1>7. LocalUICount' = Cardinality(LoggedIn("AlLocalUI")')
  <2>1. LoggedIn("AlLocalUI")' =
           IF access'[c] = "AlLocalUI" THEN LoggedIn("AlLocalUI") \cup {c} ELSE LoggedIn("AlLocalUI")
    BY <1>4
  <2>2. access'[c] = "AlLocalUI" <=> asked = "AlLocalUI"
    BY <1>5
  <2>3. c \notin LoggedIn("AlLocalUI")
    BY <1>3
  <2>4. Cardinality(LoggedIn("AlLocalUI") \cup {c}) = Cardinality(LoggedIn("AlLocalUI")) + 1
    BY <2>3, LoggedInFinite, FS_AddElement
  <2>. QED
    BY <1>1, <2>1, <2>2, <2>4, LoggedInFinite DEF SessionInv, SessionsCounted
<1>. QED
  BY <1>2, <1>6, <1>7 DEF SessionInv, SessionsCounted

(* CiiUnregisterBackend takes its client out.                               *)
LEMMA UnregisterCounted ==
    ASSUME SessionInv, NEW c \in Clients, Unregister(c)
    PROVE  SessionInv'
<1>1. /\ thread[c] = "unregister" /\ thread' = [thread EXCEPT ![c] = "destroy"]
      /\ MasterClient' = IF access[c] = "AlMaster" THEN Null ELSE MasterClient
      /\ LocalUICount' = LocalUICount - (IF access[c] = "AlLocalUI" THEN 1 ELSE 0)
      /\ access' = access
  BY DEF Unregister, MasterAfter, At, Goto
<1>2. SessionTypes'
  BY <1>1 DEF SessionInv, SessionTypes, Places, Gone
<1>3. ASSUME NEW level
      PROVE  /\ LoggedIn(level)' = LoggedIn(level) \ {c}
             /\ c \in LoggedIn(level) <=> access[c] = level
  <2>1. thread'[c] \in Gone /\ thread[c] \notin Gone
    BY <1>1 DEF SessionInv, SessionTypes, Gone
  <2>2. \A d \in Clients \ {c} : thread'[d] = thread[d]
    BY <1>1 DEF SessionInv, SessionTypes
  <2>. QED
    BY <1>1, <2>1, <2>2 DEF LoggedIn, Gone
<1>4. LoggedIn("AlMaster")' = IF IsMasterSet' THEN {MasterClient'} ELSE {}
  BY <1>1, <1>3 DEF SessionInv, SessionsCounted, IsMasterSet
<1>5. LocalUICount' = Cardinality(LoggedIn("AlLocalUI")')
  <2>1. Cardinality(LoggedIn("AlLocalUI") \ {c}) =
            IF c \in LoggedIn("AlLocalUI") THEN Cardinality(LoggedIn("AlLocalUI")) - 1
            ELSE Cardinality(LoggedIn("AlLocalUI"))
    BY LoggedInFinite, FS_RemoveElement
  <2>2. /\ LoggedIn("AlLocalUI")' = LoggedIn("AlLocalUI") \ {c}
        /\ c \in LoggedIn("AlLocalUI") <=> access[c] = "AlLocalUI"
    BY <1>3
  <2>3. LocalUICount = Cardinality(LoggedIn("AlLocalUI")) /\ LocalUICount \in Nat
    BY LoggedInFinite DEF SessionInv, SessionsCounted
  <2>. QED
    BY <1>1, <2>1, <2>2, <2>3
<1>. QED
  BY <1>2, <1>4, <1>5 DEF SessionInv, SessionsCounted

LEMMA SessionInit == Init => SessionInv
<1>. SUFFICES ASSUME Init PROVE SessionInv
  OBVIOUS
<1>1. SessionTypes
  BY DEF Init, SessionTypes, Places, Levels
<1>2. \A level : level # "AlInvalid" => LoggedIn(level) = {}
  BY DEF Init, LoggedIn
<1>. QED
  BY <1>1, <1>2, FS_EmptySet DEF Init, SessionInv, SessionsCounted, IsMasterSet

LEMMA SessionNext == SessionInv /\ [Next]_vars => SessionInv'
<1>. SUFFICES ASSUME SessionInv, [Next]_vars PROVE SessionInv'
  OBVIOUS
<1>. USE DEF At, loginVars
<1>1. ASSUME NEW c \in Clients, Accept(c) \/ CreateStatusThread(c) \/ ListClient(c) \/ ListBackend(c)
      PROVE  SessionInv'
  BY <1>1, SessionsSteady DEF Accept, CreateStatusThread, ListClient, ListBackend, Places, Gone
<1>2. ASSUME NEW c \in Clients, Receive(c) \/ ReceiveFails(c)
      PROVE  SessionInv'
  BY <1>2, SessionsSteady DEF Receive, ReceiveFails, Places, Gone
<1>3. ASSUME NEW c \in Clients, RouteNak(c) \/ LoginAccept(c) \/ RouteUnknownType(c)
      PROVE  SessionInv'
  BY <1>3, SessionsSteady DEF RouteNak, LoginAccept, RouteUnknownType, Routes, Places, Gone
<1>4. ASSUME NEW c \in Clients, CallCallback(c) \/ CallbackReturns(c) \/ FreeCompleted(c)
      PROVE  SessionInv'
  BY <1>4, SessionsSteady DEF CallCallback, CallbackReturns, FreeCompleted, Routes, Places, Gone
<1>4a. ASSUME NEW c \in Clients, SendAck(c) \/ RespondNow(c)
      PROVE  SessionInv'
  BY <1>4a, SessionsSteady DEF SendAck, RespondNow, Places, Gone
<1>4b. ASSUME NEW c \in Clients, RefuseLogin(c) \/ CompletionFreed(c)
      PROVE  SessionInv'
  BY <1>4b, SessionsElsewhere DEF RefuseLogin, CompletionFreed, socketVars
<1>5. ASSUME NEW c \in Clients, DestroyStatusWorker(c) \/ Release(c)
      PROVE  SessionInv'
  BY <1>5, SessionsSteady DEF DestroyStatusWorker, Release, Places, Gone
<1>6. ASSUME NEW c \in Clients, PostTerminate(c)
      PROVE  SessionInv'
  <2>1. CASE worker[c] = "ended"
    BY <1>6, <2>1, SessionsElsewhere DEF PostTerminate
  <2>2. CASE worker[c] # "ended"
    BY <1>6, <2>2, SessionsSteady DEF PostTerminate, Places, Gone
  <2>. QED
    BY <2>1, <2>2
<1>7. ASSUME NEW c \in Clients, SocketThread(c)
      PROVE  SessionInv'
  BY <1>1, <1>2, <1>3, <1>4, <1>4a, <1>4b, <1>5, <1>6, <1>7, LoginCounted, UnregisterCounted DEF SocketThread
<1>8. ASSUME NEW c \in Clients, StatusThread(c) \/ DropFind(c) \/ HangUp(c)
      PROVE  SessionInv'
  BY <1>8, SessionsElsewhere
     DEF StatusThread, StatusStart, StatusWake, StatusSend, StatusNext, DropFind, HangUp, socketVars
<1>9. ASSUME Application \/ SendStatus \/ WorkQueueThread \/ DropClose
      PROVE  SessionInv'
  BY <1>9, SessionsElsewhere
     DEF Application, CompletePendingCommand, CompleteInCallback, RespondInCallback, FinishPosted,
         FinishUnposted, MarkComplete, SendStatus, WorkQueueThread, RouteStatus, RouteToClient,
         RouteStatusDone, DropClose, socketVars
<1>10. CASE UNCHANGED vars
  BY <1>10, SessionsElsewhere DEF vars, socketVars
<1>. QED
  BY <1>1, <1>7, <1>8, <1>9, <1>10 DEF Next

(* At most one connected client is the master, it is the one the library    *)
(* reports, and the local UIs are counted, whatever logs in, hangs up, and  *)
(* is unregistered at the same time (CiiBackendRouteReceivedMessage,        *)
(* CiiUnregisterBackend).                                                   *)
THEOREM OneMaster == Spec => []SessionsCounted
<1>1. SessionInv => SessionsCounted
  BY DEF SessionInv
<1>. QED
  BY SessionInit, SessionNext, <1>1, PTL DEF Spec

-----------------------------------------------------------------------------
(* The references to a connection: what the count is made of.               *)
InHand == {"route", "accept", "callback", "respond"}
Lending == {"wait", "send", "next"}
CiiMessage == [client : Clients, nr : Nat, posted : BOOLEAN, complete : BOOLEAN, acks : Nat,
               doing : {"none", "respond", "finish", "mark", "done"}]

RefTypes ==
    /\ thread \in [Clients -> Places]
    /\ worker \in [Clients -> {"none", "start", "ended"} \cup Lending]
    /\ received \in [Clients -> Nat]
    /\ ref \in [Clients -> Int]

(* Messages are told apart by client and place, and none is ahead of what   *)
(* was read.                                                                *)
MessagesApart ==
    /\ messages \subseteq CiiMessage /\ IsFiniteSet(messages)
    /\ \A m, n \in messages : m.client = n.client /\ m.nr = n.nr => m = n
    /\ \A m \in messages : m.nr <= received[m.client]

(* While the socket thread has a message in hand no other thread frees it:  *)
(* it has no MsPostCallback yet, or nobody was given it to complete.  In    *)
(* HandleMessageCompletion, place "completion", that may have happened.     *)
Safe(m, place) == IF place = "respond" THEN Does(m) \notin Kept ELSE ~m.posted
Handling(c) ==
    /\ thread[c] = "none" => \A m \in messages : m.client # c
    /\ thread[c] \in {"none", "register"} => worker[c] = "none"
    /\ thread[c] \in InHand =>
          \E m \in messages : m.client = c /\ m.nr = received[c] /\ Safe(m, thread[c])

RefInv == RefTypes /\ MessagesApart /\ (\A c \in Clients : Handling(c)) /\ RefsExact

(* RefsExact, with its three terms named.                                   *)
Mine(c) == {m \in messages : m.client = c}
Held(c) == IF thread[c] = "ended" THEN 0 ELSE 1
Lent(c) == IF worker[c] \in Lending THEN 1 ELSE 0
Counted(c) == thread[c] # "none" => ref[c] = Held(c) + Lent(c) + Cardinality(Mine(c))

LEMMA Counts == RefsExact <=> \A c \in Clients : Counted(c)
  BY DEF RefsExact, Counted, Held, Lent, Mine, Lending

LEMMA MineFinite ==
    ASSUME MessagesApart, NEW c
    PROVE  IsFiniteSet(Mine(c)) /\ Cardinality(Mine(c)) \in Nat
<1>1. Mine(c) \subseteq messages
  BY DEF Mine
<1>. QED
  BY <1>1, FS_Subset, FS_CardinalityType DEF MessagesApart

(* The message the socket thread has in hand.                               *)
LEMMA InHandFacts ==
    ASSUME RefInv, NEW c \in Clients, thread[c] \in InHand
    PROVE  /\ Message(c) \in messages /\ Message(c).client = c
           /\ Message(c).nr = received[c] /\ Safe(Message(c), thread[c])
<1>1. PICK m \in messages : m.client = c /\ m.nr = received[c] /\ Safe(m, thread[c])
  BY DEF RefInv, Handling
<1>2. Message(c) \in messages /\ Message(c).client = c /\ Message(c).nr = received[c]
  BY <1>1 DEF Message
<1>3. Message(c) = m
  BY <1>1, <1>2 DEF RefInv, MessagesApart
<1>. QED
  BY <1>1, <1>2, <1>3

(* Freeing a message lowers both sides of the count alike.                  *)
LEMMA FreeCounted ==
    ASSUME RefInv, NEW m \in messages, Free(m), UNCHANGED received
    PROVE  /\ MessagesApart'
           /\ ref' \in [Clients -> Int]
           /\ \A d \in Clients :
                 ref'[d] - Cardinality(Mine(d)') = ref[d] - Cardinality(Mine(d))
<1>1. /\ messages' = messages \ {m}
      /\ ref' = [ref EXCEPT ![m.client] = @ - 1]
  BY DEF Free, Decrement
<1>2. MessagesApart'
  BY <1>1, FS_RemoveElement DEF RefInv, MessagesApart
<1>3. m.client \in Clients
  BY DEF RefInv, MessagesApart, CiiMessage
<1>4. ASSUME NEW d \in Clients
      PROVE  ref'[d] - Cardinality(Mine(d)') = ref[d] - Cardinality(Mine(d))
  <2>. USE MineFinite DEF RefInv
  <2>1. CASE d = m.client
    <3>1. Mine(d)' = Mine(d) \ {m} /\ m \in Mine(d)
      BY <1>1, <2>1 DEF Mine
    <3>2. Cardinality(Mine(d)') = Cardinality(Mine(d)) - 1
      BY <3>1, FS_RemoveElement
    <3>3. ref'[d] = ref[d] - 1 /\ ref[d] \in Int
      BY <1>1, <1>3, <2>1 DEF RefTypes
    <3>. QED
      BY <3>2, <3>3
  <2>2. CASE d # m.client
    <3>1. Mine(d)' = Mine(d)
      BY <1>1, <2>2 DEF Mine
    <3>2. ref'[d] = ref[d]
      BY <1>1, <1>3, <2>2 DEF RefTypes
    <3>. QED
      BY <3>1, <3>2
  <2>. QED
    BY <2>1, <2>2
<1>5. ref' \in [Clients -> Int]
  BY <1>1, <1>3 DEF RefInv, RefTypes
<1>. QED
  BY <1>2, <1>4, <1>5

(* Writing to a message leaves its connection's count alone.                *)
LEMMA WriteCounted ==
    ASSUME RefInv, NEW m \in messages, NEW n \in CiiMessage,
           n.client = m.client, n.nr = m.nr,
           messages' = (messages \ {m}) \cup {n}, UNCHANGED received
    PROVE  MessagesApart' /\ \A d \in Clients : Cardinality(Mine(d)') = Cardinality(Mine(d))
<1>1. MessagesApart'
  <2>1. IsFiniteSet(messages')
    BY FS_RemoveElement, FS_AddElement DEF RefInv, MessagesApart
  <2>2. \A a, b \in messages' : a.client = b.client /\ a.nr = b.nr => a = b
    BY DEF RefInv, MessagesApart
  <2>3. \A a \in messages' : a.nr <= received'[a.client]
    BY DEF RefInv, MessagesApart
  <2>. QED
    BY <2>1, <2>2, <2>3 DEF RefInv, MessagesApart
<1>2. ASSUME NEW d \in Clients
      PROVE  Cardinality(Mine(d)') = Cardinality(Mine(d))
  <2>. USE MineFinite DEF RefInv
  <2>1. CASE d = m.client
    <3>1. Mine(d)' = (Mine(d) \ {m}) \cup {n} /\ m \in Mine(d)
      BY <2>1 DEF Mine
    <3>2. n \notin Mine(d) \ {m}
      BY DEF MessagesApart, Mine
    <3>3. IsFiniteSet(Mine(d) \ {m}) /\ Cardinality(Mine(d) \ {m}) = Cardinality(Mine(d)) - 1
      BY <3>1, FS_RemoveElement
    <3>4. Cardinality(Mine(d)') = Cardinality(Mine(d) \ {m}) + 1
      BY <3>1, <3>2, <3>3, FS_AddElement
    <3>. QED
      BY <3>3, <3>4
  <2>2. CASE d # m.client
    <3>1. Mine(d)' = Mine(d)
      BY <2>2 DEF Mine
    <3>. QED
      BY <3>1
  <2>. QED
    BY <2>1, <2>2
<1>. QED
  BY <1>1, <1>2

(* What a step has to leave: the types and, of each client, its handling    *)
(* and its count.                                                           *)
LEMMA RefInvParts ==
    ASSUME RefTypes', MessagesApart',
           \A c \in Clients : Handling(c)', \A c \in Clients : Counted(c)'
    PROVE  RefInv'
  BY DEF RefInv, RefsExact, Counted, Held, Lent, Mine, Lending

LEMMA Typed ==
    ASSUME RefInv, NEW c \in Clients
    PROVE  /\ ref[c] \in Int /\ received[c] \in Nat
           /\ Cardinality(Mine(c)) \in Nat /\ Counted(c) /\ Handling(c)
           /\ Held(c) \in {0, 1} /\ Lent(c) \in {0, 1}
  BY MineFinite, Counts DEF RefInv, RefTypes, Held, Lent

(* A socket thread's step that leaves messages and references alone.        *)
LEMMA RefsSteady ==
    ASSUME RefInv, UNCHANGED <<app, messages, received, ref, worker>>,
           NEW c \in Clients, NEW p \in Places, Goto(c, p),
           thread[c] \notin {"none", "ended"}, p \notin {"none", "register", "ended"},
           p \in InHand => thread[c] = "route" /\ p # "respond"
    PROVE  RefInv'
<1>1. RefTypes' /\ MessagesApart'
  BY DEF RefInv, RefTypes, MessagesApart, Goto
<1>2. ASSUME NEW d \in Clients PROVE Handling(d)'
  <2>1. thread'[d] = IF d = c THEN p ELSE thread[d]
    BY DEF RefInv, RefTypes, Goto
  <2>2. CASE d = c /\ p \in InHand
    <3>1. PICK m \in messages : m.client = d /\ m.nr = received[d] /\ Safe(m, "route")
      BY <2>2, Typed DEF Handling, InHand
    <3>2. Safe(m, p)'
      BY <2>2, <3>1 DEF Safe
    <3>. QED
      BY <2>1, <2>2, <3>1, <3>2 DEF Handling, InHand
  <2>3. CASE d # c \/ p \notin InHand
    BY <2>1, <2>3, Typed DEF Handling, Safe, Does, Script
  <2>. QED
    BY <2>2, <2>3
<1>3. ASSUME NEW d \in Clients PROVE Counted(d)'
  <2>1. thread'[d] = IF d = c THEN p ELSE thread[d]
    BY DEF RefInv, RefTypes, Goto
  <2>. QED
    BY <2>1, Typed DEF Counted, Held, Lent, Mine
<1>. QED
  BY <1>1, <1>2, <1>3, RefInvParts

(* A step of another thread that leaves them alone.                         *)
LEMMA RefsElsewhere ==
    ASSUME RefInv, UNCHANGED <<app, messages, received, ref, worker, thread>>
    PROVE  RefInv'
  BY DEF RefInv, RefTypes, MessagesApart, Handling, Safe, Does, Script, RefsExact

(* The status thread takes and drops its own reference only.                *)
LEMMA RefsOfWorker ==
    ASSUME RefInv, UNCHANGED <<app, messages, received, thread>>,
           NEW c \in Clients, worker[c] # "none",
           NEW w \in {"start", "ended"} \cup Lending, worker' = [worker EXCEPT ![c] = w],
           ref' = [ref EXCEPT ![c] = @ + Lent(c)' - Lent(c)]
    PROVE  RefInv'
<1>1. /\ \A d \in Clients \ {c} : worker'[d] = worker[d] /\ ref'[d] = ref[d]
      /\ worker'[c] = w /\ ref'[c] = ref[c] + Lent(c)' - Lent(c)
  BY DEF RefInv, RefTypes
<1>2. RefTypes' /\ MessagesApart'
  <2>1. ref[c] + Lent(c)' - Lent(c) \in Int
    BY Typed DEF Lent
  <2>2. ref' \in [Clients -> Int]
    BY <2>1 DEF RefInv, RefTypes
  <2>3. worker' \in [Clients -> {"none", "start", "ended"} \cup Lending]
    BY DEF RefInv, RefTypes
  <2>. QED
    BY <2>2, <2>3 DEF RefInv, RefTypes, MessagesApart
<1>3. ASSUME NEW d \in Clients PROVE Handling(d)'
  BY <1>1, Typed DEF Handling, Safe, Does, Script
<1>4. ASSUME NEW d \in Clients PROVE Counted(d)'
  <2>1. Cardinality(Mine(d)') = Cardinality(Mine(d)) /\ Held(d)' = Held(d)
    BY DEF Mine, Held
  <2>2. CASE d # c
    BY <1>1, <2>1, <2>2, Typed DEF Counted, Lent
  <2>3. CASE d = c
    <3>1. Lent(c)' \in {0, 1}
      BY DEF Lent
    <3>. QED
      BY <1>1, <2>1, <2>3, <3>1, Typed DEF Counted
  <2>. QED
    BY <2>2, <2>3
<1>. QED
  BY <1>2, <1>3, <1>4, RefInvParts

(* The socket thread frees the message it has in hand, or has found.        *)
LEMMA RefsOfFreeByThread ==
    ASSUME RefInv, NEW c \in Clients, thread[c] \in InHand \cup {"completion"},
           NEW m \in messages, m.client = c, m.nr = received[c], Free(m),
           Goto(c, "receive"), UNCHANGED <<app, received, worker>>
    PROVE  RefInv'
<1>1. m \in messages /\ m.client = c /\ m.nr = received[c]
  OBVIOUS
<1>2. \A d \in Clients : thread'[d] = IF d = c THEN "receive" ELSE thread[d]
  BY DEF RefInv, RefTypes, Goto
<1>3. messages' = messages \ {m}
  BY DEF Free
<1>4. /\ MessagesApart' /\ ref' \in [Clients -> Int]
      /\ \A d \in Clients : ref'[d] - Cardinality(Mine(d)') = ref[d] - Cardinality(Mine(d))
  BY <1>1, FreeCounted
<1>5. RefTypes'
  BY <1>4 DEF RefInv, RefTypes, Goto, Places
<1>6. ASSUME NEW d \in Clients PROVE Handling(d)'
  <2>1. CASE d = c
    BY <1>2, <2>1 DEF Handling, InHand
  <2>2. CASE d # c
    <3>1. \A n \in messages : n.client = d => n \in messages'
      BY <1>1, <1>3, <2>2
    <3>. QED
      BY <1>2, <1>3, <2>2, <3>1, Typed DEF Handling, Safe, Does, Script
  <2>. QED
    BY <2>1, <2>2
<1>7. ASSUME NEW d \in Clients PROVE Counted(d)'
  <2>1. Held(d)' = Held(d) /\ Lent(d)' = Lent(d) /\ (thread'[d] # "none" => thread[d] # "none")
    BY <1>2 DEF Held, Lent, InHand
  <2>2. Cardinality(Mine(d)') \in Nat
    BY <1>4, MineFinite, FS_CardinalityType, FS_Subset DEF MessagesApart, Mine
  <2>3. ref'[d] \in Int /\ ref'[d] - Cardinality(Mine(d)') = ref[d] - Cardinality(Mine(d))
    BY <1>4
  <2>. QED
    BY <2>1, <2>2, <2>3, Typed DEF Counted
<1>. QED
  BY <1>4, <1>5, <1>6, <1>7, RefInvParts

(* Accept: the socket thread is the first holder.                           *)
LEMMA RefsOfAccept ==
    ASSUME RefInv, NEW c \in Clients, Accept(c)
    PROVE  RefInv'
<1>1. /\ thread[c] = "none" /\ thread' = [thread EXCEPT ![c] = "register"]
      /\ ref' = [ref EXCEPT ![c] = 1]
      /\ UNCHANGED <<app, messages, received, worker>>
  BY DEF Accept, At, Goto, statusVars
<1>2. RefTypes' /\ MessagesApart'
  BY <1>1 DEF RefInv, RefTypes, MessagesApart, Places
<1>3. \A d \in Clients \ {c} : thread'[d] = thread[d] /\ ref'[d] = ref[d]
  BY <1>1 DEF RefInv, RefTypes
<1>4. thread'[c] = "register" /\ ref'[c] = 1 /\ worker[c] = "none" /\ Mine(c) = {}
  BY <1>1, Typed DEF RefInv, RefTypes, Handling, Mine
<1>5. ASSUME NEW d \in Clients PROVE Handling(d)'
  BY <1>1, <1>3, <1>4, Typed DEF Handling, Safe, Does, Script, InHand
<1>6. ASSUME NEW d \in Clients PROVE Counted(d)'
  <2>1. Mine(d)' = Mine(d)
    BY <1>1 DEF Mine
  <2>2. CASE d = c
    BY <1>1, <1>4, <2>1, <2>2, FS_EmptySet DEF Counted, Held, Lent, Lending
  <2>3. CASE d # c
    BY <1>1, <1>3, <2>1, <2>3, Typed DEF Counted, Held, Lent
  <2>. QED
    BY <2>2, <2>3
<1>. QED
  BY <1>2, <1>5, <1>6, RefInvParts

(* CreateStatusThread: the new thread holds nothing yet.                    *)
LEMMA RefsOfCreate ==
    ASSUME RefInv, NEW c \in Clients, CreateStatusThread(c)
    PROVE  RefInv'
<1>1. /\ thread[c] = "register" /\ thread' = [thread EXCEPT ![c] = "list"]
      /\ worker' = [worker EXCEPT ![c] = "start"]
      /\ UNCHANGED <<app, messages, received, ref>>
  BY DEF CreateStatusThread, At, Goto
<1>2. RefTypes' /\ MessagesApart'
  BY <1>1 DEF RefInv, RefTypes, MessagesApart, Places
<1>3. \A d \in Clients \ {c} : thread'[d] = thread[d] /\ worker'[d] = worker[d]
  BY <1>1 DEF RefInv, RefTypes
<1>4. thread'[c] = "list" /\ worker'[c] = "start" /\ worker[c] = "none"
  BY <1>1, Typed DEF RefInv, RefTypes, Handling
<1>5. ASSUME NEW d \in Clients PROVE Handling(d)'
  BY <1>1, <1>3, <1>4, Typed DEF Handling, Safe, Does, Script, InHand
<1>6. ASSUME NEW d \in Clients PROVE Counted(d)'
  <2>1. Mine(d)' = Mine(d) /\ Held(d)' = Held(d) /\ Lent(d)' = Lent(d)
    BY <1>1, <1>3, <1>4 DEF Mine, Held, Lent, Lending
  <2>. QED
    BY <1>1, <1>3, <2>1, Typed DEF Counted
<1>. QED
  BY <1>2, <1>5, <1>6, RefInvParts

(* Receive: a message enters with its reference.                            *)
LEMMA RefsOfReceive ==
    ASSUME RefInv, NEW c \in Clients, Receive(c)
    PROVE  RefInv'
<1>. DEFINE n == [client |-> c, nr |-> received[c] + 1, posted |-> FALSE, complete |-> FALSE,
                 acks |-> 0, doing |-> "none"]
<1>1. /\ thread[c] = "receive" /\ thread' = [thread EXCEPT ![c] = "route"]
      /\ received' = [received EXCEPT ![c] = @ + 1]
      /\ messages' = messages \cup {[client |-> c, nr |-> received'[c], posted |-> FALSE,
                                      complete |-> FALSE, acks |-> 0, doing |-> "none"]}
      /\ ref' = [ref EXCEPT ![c] = @ + 1]
      /\ UNCHANGED <<app, worker>>
  BY DEF Receive, At, Goto, MessageRef, Increment, statusVars
<1>2. /\ \A d \in Clients \ {c} :
            thread'[d] = thread[d] /\ received'[d] = received[d] /\ ref'[d] = ref[d]
      /\ thread'[c] = "route" /\ received'[c] = received[c] + 1 /\ ref'[c] = ref[c] + 1
      /\ received[c] \in Nat /\ ref[c] \in Int
  BY <1>1 DEF RefInv, RefTypes
<1>3. messages' = messages \cup {n} /\ n \in CiiMessage
  BY <1>1, <1>2 DEF CiiMessage
<1>4. \A m \in messages : m.client = c => m.nr # n.nr /\ m # n
  BY <1>2 DEF RefInv, MessagesApart, CiiMessage
<1>5. RefTypes'
  BY <1>1, <1>2 DEF RefInv, RefTypes, Places
<1>6. MessagesApart'
  <2>1. IsFiniteSet(messages')
    BY <1>3, FS_AddElement DEF RefInv, MessagesApart
  <2>2. \A a, b \in messages' : a.client = b.client /\ a.nr = b.nr => a = b
    <3>1. n.client = c
      OBVIOUS
    <3>2. \A m \in messages : m.client # n.client \/ m.nr # n.nr
      BY <1>4, <3>1
    <3>. HIDE DEF n
    <3>. QED
      BY <1>3, <3>2 DEF RefInv, MessagesApart
  <2>3. \A a \in messages' : a.nr <= received'[a.client]
    BY <1>2, <1>3 DEF RefInv, MessagesApart, CiiMessage
  <2>. QED
    BY <1>3, <2>1, <2>2, <2>3 DEF RefInv, MessagesApart
<1>7. ASSUME NEW d \in Clients PROVE Handling(d)'
  <2>1. CASE d = c
    BY <1>2, <1>3, <2>1 DEF Handling, Safe, InHand
  <2>2. CASE d # c
    <3>1. \A m \in messages' : m.client = d => m \in messages
      BY <1>3, <2>2
    <3>. QED
      BY <1>1, <1>2, <1>3, <2>2, <3>1, Typed DEF Handling, Safe, Does, Script
  <2>. QED
    BY <2>1, <2>2
<1>8. ASSUME NEW d \in Clients PROVE Counted(d)'
  <2>1. CASE d = c
    <3>1. Mine(c)' = Mine(c) \cup {n} /\ n \notin Mine(c)
      BY <1>3, <1>4 DEF Mine
    <3>2. Cardinality(Mine(c)') = Cardinality(Mine(c)) + 1
      BY <3>1, MineFinite, FS_AddElement DEF RefInv
    <3>. QED
      BY <1>1, <1>2, <2>1, <3>2, Typed DEF Counted, Held, Lent
  <2>2. CASE d # c
    <3>1. Mine(d)' = Mine(d)
      BY <1>3, <2>2 DEF Mine
    <3>. QED
      BY <1>1, <1>2, <2>2, <3>1, Typed DEF Counted, Held, Lent
  <2>. QED
    BY <2>1, <2>2
<1>. QED
  BY <1>5, <1>6, <1>7, <1>8, RefInvParts

(* The socket thread writes to the message it has in hand or has found:     *)
(* MsPostCallback, and the post of AckEvent.                                *)
LEMMA RefsOfWriteByThread ==
    ASSUME RefInv, NEW c \in Clients, thread[c] \in {"callback", "completion"},
           NEW m \in messages, m.client = c, m.nr = received[c],
           NEW n \in CiiMessage, n.client = c, n.nr = received[c], Change(m, n),
           NEW p \in {"completion", "receive", "respond"}, Goto(c, p), Safe(n, p) \/ p # "respond",
           UNCHANGED <<app, received, ref, worker>>
    PROVE  RefInv'
<1>1. m \in messages /\ m.client = c /\ m.nr = received[c] /\ messages' = (messages \ {m}) \cup {n}
  BY DEF Change
<1>2. \A d \in Clients : thread'[d] = IF d = c THEN p ELSE thread[d]
  BY DEF RefInv, RefTypes, Goto
<1>3. MessagesApart' /\ \A d \in Clients : Cardinality(Mine(d)') = Cardinality(Mine(d))
  BY <1>1, WriteCounted
<1>4. RefTypes'
  BY <1>2 DEF RefInv, RefTypes, Goto, Places
<1>5. ASSUME NEW d \in Clients PROVE Handling(d)'
  <2>1. CASE d = c
    <3>1. n \in messages' /\ (p = "respond" => Safe(n, p)')
      BY <1>1 DEF Safe, Does, Script
    <3>. QED
      BY <1>2, <2>1, <3>1 DEF Handling, InHand
  <2>2. CASE d # c
    <3>1. \A a : a.client = d => (a \in messages' <=> a \in messages)
      BY <1>1, <2>2
    <3>. QED
      BY <1>2, <2>2, <3>1, Typed DEF Handling, Safe, Does, Script
  <2>. QED
    BY <2>1, <2>2
<1>6. ASSUME NEW d \in Clients PROVE Counted(d)'
  <2>1. Held(d)' = Held(d) /\ Lent(d)' = Lent(d) /\ (thread'[d] # "none" => thread[d] # "none")
    BY <1>2 DEF Held, Lent, InHand
  <2>. QED
    BY <1>3, <2>1, Typed DEF Counted
<1>. QED
  BY <1>3, <1>4, <1>5, <1>6, RefInvParts

(* Release: the socket thread is done.                                      *)
LEMMA RefsOfRelease ==
    ASSUME RefInv, NEW c \in Clients, Release(c)
    PROVE  RefInv'
<1>1. /\ thread[c] = "release" /\ thread' = [thread EXCEPT ![c] = "ended"]
      /\ ref' = [ref EXCEPT ![c] = @ - 1]
      /\ UNCHANGED <<app, messages, received, worker>>
  BY DEF Release, At, Goto, Decrement, statusVars
<1>2. RefTypes' /\ MessagesApart'
  BY <1>1 DEF RefInv, RefTypes, MessagesApart, Places, Gone
<1>3. /\ \A d \in Clients \ {c} : thread'[d] = thread[d] /\ ref'[d] = ref[d]
      /\ thread'[c] = "ended" /\ ref'[c] = ref[c] - 1
  BY <1>1 DEF RefInv, RefTypes
<1>4. ASSUME NEW d \in Clients PROVE Handling(d)'
  BY <1>1, <1>3, Typed DEF Handling, Safe, Does, Script, InHand
<1>5. ASSUME NEW d \in Clients PROVE Counted(d)'
  <2>1. Mine(d)' = Mine(d) /\ Lent(d)' = Lent(d)
    BY <1>1 DEF Mine, Lent
  <2>2. Held(d)' = IF d = c THEN Held(d) - 1 ELSE Held(d)
    BY <1>1, <1>3 DEF Held
  <2>. QED
    BY <1>1, <1>3, <2>1, <2>2, Typed DEF Counted
<1>. QED
  BY <1>2, <1>4, <1>5, RefInvParts

(* CiiCompletePendingCommand frees a message by whoever was given it, once  *)
(* MsPostCallback is set: not one the socket thread still has in hand.      *)
LEMMA RefsOfFreeKept ==
    ASSUME RefInv, NEW m \in messages, m.posted, Does(m) \in Kept, Free(m),
           UNCHANGED <<app, received, thread, worker>>
    PROVE  RefInv'
<1>1. messages' = messages \ {m}
  BY DEF Free
<1>2. /\ MessagesApart' /\ ref' \in [Clients -> Int]
      /\ \A d \in Clients : ref'[d] - Cardinality(Mine(d)') = ref[d] - Cardinality(Mine(d))
  BY <1>1, FreeCounted
<1>3. RefTypes'
  BY <1>1, <1>2 DEF RefInv, RefTypes
<1>4. ASSUME NEW d \in Clients PROVE Handling(d)'
  <2>1. ASSUME thread[d] \in InHand
        PROVE  \E n \in messages' : n.client = d /\ n.nr = received[d] /\ Safe(n, thread[d])'
    <3>1. PICK n \in messages : n.client = d /\ n.nr = received[d] /\ Safe(n, thread[d])
      BY <2>1, Typed DEF Handling
    <3>2. n # m
      BY <3>1 DEF Safe
    <3>3. n \in messages' /\ Safe(n, thread[d])'
      BY <1>1, <3>1, <3>2 DEF Safe, Does, Script
    <3>. QED
      BY <3>1, <3>3
  <2>. QED
    BY <1>1, <2>1, Typed DEF Handling
<1>5. ASSUME NEW d \in Clients PROVE Counted(d)'
  <2>1. Held(d)' = Held(d) /\ Lent(d)' = Lent(d)
    BY <1>1 DEF Held, Lent
  <2>2. Cardinality(Mine(d)') \in Nat
    BY <1>2, FS_CardinalityType, FS_Subset DEF MessagesApart, Mine
  <2>3. ref'[d] \in Int /\ ref'[d] - Cardinality(Mine(d)') = ref[d] - Cardinality(Mine(d))
    BY <1>2
  <2>. QED
    BY <1>1, <2>1, <2>2, <2>3, Typed DEF Counted
<1>. QED
  BY <1>2, <1>3, <1>4, <1>5, RefInvParts

(* It writes to such a message, and leaves MsPostCallback alone.            *)
LEMMA RefsOfWriteKept ==
    ASSUME RefInv, NEW m \in messages, NEW n \in CiiMessage, Change(m, n),
           n.client = m.client, n.nr = m.nr, n.posted = m.posted,
           UNCHANGED <<app, received, thread, ref, worker>>
    PROVE  RefInv'
<1>1. messages' = (messages \ {m}) \cup {n}
  BY DEF Change
<1>2. MessagesApart' /\ \A d \in Clients : Cardinality(Mine(d)') = Cardinality(Mine(d))
  BY <1>1, WriteCounted
<1>3. RefTypes'
  BY DEF RefInv, RefTypes
<1>4. ASSUME NEW d \in Clients PROVE Handling(d)'
  <2>1. ASSUME thread[d] \in InHand
        PROVE  \E a \in messages' : a.client = d /\ a.nr = received[d] /\ Safe(a, thread[d])'
    <3>1. PICK a \in messages : a.client = d /\ a.nr = received[d] /\ Safe(a, thread[d])
      BY <2>1, Typed DEF Handling
    <3>2. CASE a = m
      BY <1>1, <3>1, <3>2 DEF Safe, Does, Script
    <3>3. CASE a # m
      BY <1>1, <3>1, <3>3 DEF Safe, Does, Script
    <3>. QED
      BY <3>2, <3>3
  <2>. QED
    BY <1>1, <2>1, Typed DEF Handling
<1>5. ASSUME NEW d \in Clients PROVE Counted(d)'
  <2>1. Held(d)' = Held(d) /\ Lent(d)' = Lent(d)
    BY DEF Held, Lent
  <2>. QED
    BY <1>2, <2>1, Typed DEF Counted
<1>. QED
  BY <1>2, <1>3, <1>4, <1>5, RefInvParts

LEMMA RefInit == Init => RefInv
<1>. SUFFICES ASSUME Init PROVE RefInv
  OBVIOUS
<1>1. RefTypes /\ MessagesApart
  BY FS_EmptySet DEF Init, RefTypes, Places, MessagesApart
<1>2. \A c \in Clients : Handling(c)
  BY DEF Init, Handling, InHand
<1>3. RefsExact
  BY DEF Init, RefsExact
<1>. QED
  BY <1>1, <1>2, <1>3 DEF RefInv

(* The steps of a connection's socket thread.                               *)
LEMMA RefsOfSocketThread ==
    ASSUME RefInv, NEW c \in Clients, SocketThread(c)
    PROVE  RefInv'
<1>. USE DEF At, statusVars
<1>1. CASE ListClient(c) \/ ListBackend(c) \/ ReceiveFails(c)
  BY <1>1, RefsSteady DEF ListClient, ListBackend, ReceiveFails, Places, Gone, InHand
<1>2. CASE RouteLogin(c) \/ RouteUnknownType(c)
  BY <1>2, RefsSteady DEF RouteLogin, RouteUnknownType, Routes, Places, Gone, InHand
<1>3. CASE Unregister(c) \/ DestroyStatusWorker(c)
  BY <1>3, RefsSteady DEF Unregister, DestroyStatusWorker, Places, Gone, InHand
<1>4. CASE PostTerminate(c)
  <2>1. CASE worker[c] = "ended"
    BY <1>4, <2>1, RefsElsewhere DEF PostTerminate
  <2>2. CASE worker[c] # "ended"
    BY <1>4, <2>2, RefsSteady DEF PostTerminate, Places, Gone, InHand
  <2>. QED
    BY <2>1, <2>2
<1>5. CASE RouteNak(c) \/ LoginAccept(c)
  <2>1. thread[c] \in InHand /\ Free(Message(c)) /\ Goto(c, "receive")
        /\ UNCHANGED <<app, received, worker>>
    BY <1>5 DEF RouteNak, LoginAccept, Routes, InHand
  <2>. QED
    BY <2>1, InHandFacts, RefsOfFreeByThread
<1>6. CASE RespondNow(c)
  <2>1. thread[c] \in InHand /\ Free(Message(c)) /\ Goto(c, "receive")
        /\ UNCHANGED <<app, received, worker>>
    BY <1>6 DEF RespondNow, Respond, InHand
  <2>. QED
    BY <2>1, InHandFacts, RefsOfFreeByThread
<1>7. CASE CallCallback(c)
  BY <1>7, RefsSteady DEF CallCallback, Routes, Places, Gone, InHand
<1>8. CASE CallbackReturns(c)
  <2>. DEFINE n == [Message(c) EXCEPT !.posted = TRUE]
  <2>1. thread[c] = "callback" /\ Goto(c, "completion") /\ Change(Message(c), n)
        /\ UNCHANGED <<app, received, ref, worker>>
    BY <1>8 DEF CallbackReturns
  <2>2. /\ Message(c) \in messages /\ Message(c).client = c /\ Message(c).nr = received[c]
        /\ Message(c) \in CiiMessage
    BY <2>1, InHandFacts DEF RefInv, MessagesApart, InHand
  <2>3. n \in CiiMessage /\ n.client = c /\ n.nr = received[c]
    BY <2>2 DEF CiiMessage
  <2>. HIDE DEF n
  <2>. QED
    BY <2>1, <2>2, <2>3, RefsOfWriteByThread
<1>9. CASE FreeCompleted(c)
  BY <1>9, RefsOfFreeByThread DEF FreeCompleted, Handles
<1>10. CASE SendAck(c)
  <2>1. PICK m \in Handles(c) : Change(m, [m EXCEPT !.acks = @ + 1])
    BY <1>10 DEF SendAck
  <2>. DEFINE n == [m EXCEPT !.acks = @ + 1]
              p == IF Current(c).does \in Kept THEN "receive" ELSE "respond"
  <2>2. thread[c] = "completion" /\ Goto(c, p) /\ UNCHANGED <<app, received, ref, worker>>
    BY <1>10 DEF SendAck
  <2>3. m \in messages /\ m.client = c /\ m.nr = received[c] /\ m \in CiiMessage
    BY <2>1 DEF Handles, RefInv, MessagesApart
  <2>4. n \in CiiMessage /\ n.client = c /\ n.nr = received[c]
    BY <2>3 DEF CiiMessage
  <2>5. p \in {"completion", "receive", "respond"} /\ (Safe(n, p) \/ p # "respond")
    BY <2>4 DEF Safe, Does, Current
  <2>. HIDE DEF n, p
  <2>. QED
    BY <2>1, <2>2, <2>3, <2>4, <2>5, RefsOfWriteByThread DEF n
<1>11. CASE RefuseLogin(c) \/ CompletionFreed(c)
  BY <1>11, RefsElsewhere DEF RefuseLogin, CompletionFreed, socketVars
<1>. QED
  BY <1>1, <1>2, <1>3, <1>4, <1>5, <1>6, <1>7, <1>8, <1>9, <1>10, <1>11, RefsOfAccept, RefsOfCreate,
     RefsOfReceive, RefsOfRelease DEF SocketThread

(* The steps of whoever completes a command that is left to it.             *)
LEMMA RefsOfApplication == ASSUME RefInv, Application PROVE RefInv'
<1>. USE DEF statusVars
<1>1. ASSUME NEW m \in messages, CompletePendingCommand(m) \/ FinishPosted(m)
      PROVE  RefInv'
  BY <1>1, RefsOfFreeKept DEF CompletePendingCommand, Respond, FinishPosted, Completing, Kept
<1>2. ASSUME NEW m \in messages,
             CompleteInCallback(m) \/ RespondInCallback(m) \/ FinishUnposted(m) \/ MarkComplete(m)
      PROVE  RefInv'
  <2>1. m \in CiiMessage
    BY DEF RefInv, MessagesApart
  <2>2. PICK n : /\ Change(m, n)
                 /\ \/ \E p \in {"respond", "finish", "mark"} : n = [m EXCEPT !.doing = p]
                    \/ n = [m EXCEPT !.complete = TRUE, !.doing = "done"]
    BY <1>2 DEF CompleteInCallback, RespondInCallback, FinishUnposted, MarkComplete
  <2>4. n \in CiiMessage /\ n.client = m.client /\ n.nr = m.nr /\ n.posted = m.posted
    BY <2>1, <2>2 DEF CiiMessage
  <2>3. UNCHANGED <<app, received, thread, ref, worker>>
    BY <1>2 DEF CompleteInCallback, RespondInCallback, FinishUnposted, MarkComplete
  <2>. QED
    BY <2>2, <2>3, <2>4, RefsOfWriteKept
<1>. QED
  BY <1>1, <1>2 DEF Application

(* The steps of its status thread.                                          *)
LEMMA RefsOfStatusThread ==
    ASSUME RefInv, NEW c \in Clients, StatusThread(c)
    PROVE  RefInv'
<1>. USE DEF Working
<1>0. ref[c] \in Int
  BY Typed
<1>1. CASE StatusStart(c)
  <2>1. CASE Freed(c)
    BY <1>1, <2>1, RefsElsewhere DEF StatusStart
  <2>2. CASE ~Freed(c)
    <3>1. worker' = [worker EXCEPT ![c] = "wait"] /\ worker[c] = "start" /\ ref' = [ref EXCEPT ![c] = @ + 1]
          /\ UNCHANGED <<app, messages, received, thread>>
      BY <1>1, <2>2 DEF StatusStart, Increment
    <3>2. Lent(c)' = 1 /\ Lent(c) = 0
      BY <3>1 DEF RefInv, RefTypes, Lent, Lending
    <3>3. ref' = [ref EXCEPT ![c] = @ + Lent(c)' - Lent(c)]
      BY <1>0, <3>1, <3>2
    <3>. QED
      BY <3>1, <3>3, RefsOfWorker DEF Lending
  <2>. QED
    BY <2>1, <2>2
<1>2. CASE StatusWake(c) \/ StatusNext(c)
  <2>1. worker[c] \in Lending /\ Proceed(c) /\ UNCHANGED <<app, messages, received, thread>>
    BY <1>2 DEF StatusWake, StatusNext, Lending
  <2>2. PICK w \in {"ended"} \cup Lending :
           /\ worker' = [worker EXCEPT ![c] = w]
           /\ ref' = IF w = "ended" THEN [ref EXCEPT ![c] = @ - 1] ELSE ref
    <3>1. CASE terminate[c]
      BY <2>1, <3>1 DEF Proceed, Decrement
    <3>2. CASE ~terminate[c]
      BY <2>1, <3>2 DEF Proceed, Lending
    <3>. QED
      BY <3>1, <3>2
  <2>3. Lent(c)' = (IF w = "ended" THEN 0 ELSE 1) /\ Lent(c) = 1
    BY <2>1, <2>2 DEF RefInv, RefTypes, Lent, Lending
  <2>4. ref' = [ref EXCEPT ![c] = @ + Lent(c)' - Lent(c)]
    <3>1. CASE w = "ended"
      <4>1. ref[c] + Lent(c)' - Lent(c) = ref[c] - 1
        BY <1>0, <2>3, <3>1
      <4>. QED
        BY <2>2, <3>1, <4>1
    <3>2. CASE w # "ended"
      <4>1. ref[c] + Lent(c)' - Lent(c) = ref[c]
        BY <1>0, <2>3, <3>2
      <4>. QED
        BY <2>2, <3>2, <4>1 DEF RefInv, RefTypes
    <3>. QED
      BY <3>1, <3>2
  <2>. QED
    BY <2>1, <2>2, <2>4, RefsOfWorker DEF Lending
<1>3. CASE StatusSend(c)
  <2>1. worker[c] = "send" /\ worker' = [worker EXCEPT ![c] = "next"]
        /\ UNCHANGED <<app, messages, received, thread, ref>>
    BY <1>3 DEF StatusSend
  <2>2. Lent(c)' = 1 /\ Lent(c) = 1
    BY <2>1 DEF RefInv, RefTypes, Lent, Lending
  <2>3. ref' = [ref EXCEPT ![c] = @ + Lent(c)' - Lent(c)]
    BY <1>0, <2>1, <2>2 DEF RefInv, RefTypes
  <2>. QED
    BY <2>1, <2>3, RefsOfWorker DEF Lending
<1>. QED
  BY <1>1, <1>2, <1>3 DEF StatusThread

LEMMA RefNext == RefInv /\ [Next]_vars => RefInv'
<1>. SUFFICES ASSUME RefInv, [Next]_vars PROVE RefInv'
  OBVIOUS
<1>1. ASSUME NEW c \in Clients, Accept(c) \/ SocketThread(c) \/ StatusThread(c)
      PROVE  RefInv'
  BY <1>1, RefsOfAccept, RefsOfSocketThread, RefsOfStatusThread
<1>2. ASSUME NEW c \in Clients, DropFind(c) \/ HangUp(c)
      PROVE  RefInv'
  BY <1>2, RefsElsewhere DEF DropFind, HangUp, socketVars, statusVars
<1>3. CASE SendStatus \/ WorkQueueThread \/ DropClose \/ UNCHANGED vars
  BY <1>3, RefsElsewhere
     DEF SendStatus, WorkQueueThread, RouteStatus, RouteToClient, RouteStatusDone, DropClose,
         socketVars, statusVars, vars
<1>. QED
  BY <1>1, <1>2, <1>3, RefsOfApplication DEF Next

(* A connection's count is its socket thread, its status thread and its     *)
(* messages, whatever fails, hangs up or is completed late: its memory is   *)
(* freed when the last of them is done, and not before                      *)
(* (IncrementSocketManagerReference, DecrementSocketManagerReference).      *)
THEOREM ReferencesExact == Spec => []RefsExact
<1>1. RefInv => RefsExact
  BY DEF RefInv
<1>. QED
  BY RefInit, RefNext, <1>1, PTL DEF Spec

-----------------------------------------------------------------------------
LEMMA LeastElement ==
    ASSUME NEW T, T \subseteq Nat, T # {}
    PROVE  Min(T) \in T /\ \A y \in T : Min(T) <= y
<1>1. PICK x \in T : \A y \in T : ~ (<<y, x>> \in OpToRel(<, Nat))
  BY NatLessThanWellFounded, WFMin
<1>2. \A y \in T : ~ (y < x)
  BY <1>1 DEF OpToRel
<1>3. \A y \in T : x <= y
  BY <1>2
<1>. QED
  BY <1>3 DEF Min

(* A list without one of its members: list::remove, of which each list here *)
(* has one to remove.                                                       *)
LEMMA Removed ==
    ASSUME NEW S, NEW s \in Seq(S), NEW k \in 1 .. Len(s)
    PROVE  /\ RemoveAt(s, k) \in Seq(S) /\ Len(RemoveAt(s, k)) = Len(s) - 1
           /\ \A i \in 1 .. Len(s) - 1 : RemoveAt(s, k)[i] = IF i < k THEN s[i] ELSE s[i + 1]
<1>. DEFINE a == SubSeq(s, 1, k - 1)
            b == SubSeq(s, k + 1, Len(s))
            r == RemoveAt(s, k)
<1>1. a \in Seq(S) /\ Len(a) = k - 1 /\ \A i \in 1 .. k - 1 : a[i] = s[i]
  BY SubSeqProperties
<1>2. b \in Seq(S) /\ Len(b) = Len(s) - k /\ \A i \in 1 .. Len(s) - k : b[i] = s[k + i]
  BY SubSeqProperties
<1>3. r = a \o b
  BY DEF RemoveAt
<1>. HIDE DEF a, b, r
<1>4. /\ r \in Seq(S) /\ Len(r) = Len(a) + Len(b)
      /\ \A i \in 1 .. Len(a) + Len(b) : r[i] = IF i <= Len(a) THEN a[i] ELSE b[i - Len(a)]
  BY <1>1, <1>2, <1>3, ConcatProperties
<1>5. Len(s) \in Nat /\ k \in 1 .. Len(s)
  OBVIOUS
<1>6. ASSUME NEW i \in 1 .. Len(s) - 1 PROVE r[i] = IF i < k THEN s[i] ELSE s[i + 1]
  <2>1. CASE i < k
    <3>1. i \in 1 .. k - 1 /\ i \in 1 .. Len(a) + Len(b) /\ i <= Len(a)
      BY <1>1, <1>2, <1>5, <2>1
    <3>2. r[i] = a[i] /\ a[i] = s[i]
      BY <1>1, <1>4, <3>1
    <3>. QED
      BY <2>1, <3>2
  <2>2. CASE i >= k
    <3>1. i - (k - 1) \in 1 .. Len(s) - k /\ k + (i - (k - 1)) = i + 1 /\ i \in 1 .. Len(a) + Len(b)
      BY <1>1, <1>2, <1>5, <2>2
    <3>2. r[i] = b[i - (k - 1)]
      BY <1>1, <1>4, <1>5, <2>2, <3>1
    <3>. QED
      BY <1>2, <1>5, <2>2, <3>1, <3>2
  <2>. QED
    BY <1>5, <2>1, <2>2
<1>. QED
  BY <1>1, <1>2, <1>4, <1>5, <1>6 DEF r

LEMMA RemovedFirst ==
    ASSUME NEW S, NEW s \in Seq(S), NEW c
    PROVE  \/ RemoveFirst(s, c) = s /\ \A i \in 1 .. Len(s) : s[i] # c
           \/ \E k \in 1 .. Len(s) : s[k] = c /\ RemoveFirst(s, c) = RemoveAt(s, k)
<1>1. CASE ~ \E i \in 1 .. Len(s) : s[i] = c
  BY <1>1 DEF RemoveFirst
<1>2. CASE \E i \in 1 .. Len(s) : s[i] = c
  <2>. DEFINE I == {i \in 1 .. Len(s) : s[i] = c}
  <2>1. I # {} /\ I \subseteq Nat
    BY <1>2
  <2>2. Min(I) \in I
    BY <2>1, LeastElement
  <2>3. RemoveFirst(s, c) = RemoveAt(s, Min(I))
    BY <1>2, <2>1 DEF RemoveFirst, SelectInSeq
  <2>. HIDE DEF I
  <2>. QED
    BY <2>2, <2>3 DEF I
<1>. QED
  BY <1>1, <1>2

LEMMA RemovedFrom ==
    ASSUME NEW S, NEW s \in Seq(S), NEW c
    PROVE  /\ RemoveFirst(s, c) \in Seq(S)
           /\ \A i \in DOMAIN RemoveFirst(s, c) : \E j \in DOMAIN s : s[j] = RemoveFirst(s, c)[i]
<1>1. CASE RemoveFirst(s, c) = s
  BY <1>1
<1>2. ASSUME NEW k \in 1 .. Len(s), RemoveFirst(s, c) = RemoveAt(s, k)
      PROVE  /\ RemoveFirst(s, c) \in Seq(S)
             /\ \A i \in DOMAIN RemoveFirst(s, c) : \E j \in DOMAIN s : s[j] = RemoveFirst(s, c)[i]
  <2>. DEFINE r == RemoveFirst(s, c)
  <2>1. /\ r \in Seq(S) /\ Len(r) = Len(s) - 1
        /\ \A i \in 1 .. Len(s) - 1 : r[i] = IF i < k THEN s[i] ELSE s[i + 1]
    BY <1>2, Removed
  <2>. HIDE DEF r
  <2>2. ASSUME NEW i \in DOMAIN r PROVE \E j \in DOMAIN s : s[j] = r[i]
    <3>1. i \in 1 .. Len(s) - 1 /\ i \in DOMAIN s /\ i + 1 \in DOMAIN s
      BY <2>1
    <3>. QED
      BY <2>1, <3>1
  <2>. QED
    BY <2>1, <2>2 DEF r
<1>. QED
  BY <1>1, <1>2, RemovedFirst

(* A list that has each of its members once.                                *)
Once(s) == \A i, j \in DOMAIN s : s[i] = s[j] => i = j

LEMMA RemovedOnce ==
    ASSUME NEW S, NEW s \in Seq(S), NEW c, Once(s)
    PROVE  /\ RemoveFirst(s, c) \in Seq(S) /\ Once(RemoveFirst(s, c))
           /\ \A i \in DOMAIN RemoveFirst(s, c) :
                 \E j \in DOMAIN s : s[j] = RemoveFirst(s, c)[i] /\ s[j] # c
           /\ \A j \in DOMAIN s : s[j] # c => \E i \in DOMAIN RemoveFirst(s, c) : RemoveFirst(s, c)[i] = s[j]
<1>. DEFINE r == RemoveFirst(s, c)
<1>1. CASE r = s /\ \A i \in 1 .. Len(s) : s[i] # c
  BY <1>1
<1>2. ASSUME NEW k \in 1 .. Len(s), s[k] = c, r = RemoveAt(s, k)
      PROVE  /\ r \in Seq(S) /\ Once(r)
             /\ \A i \in DOMAIN r : \E j \in DOMAIN s : s[j] = r[i] /\ s[j] # c
             /\ \A j \in DOMAIN s : s[j] # c => \E i \in DOMAIN r : r[i] = s[j]
  <2>1. k \in 1 .. Len(s) /\ s[k] = c
    BY <1>2
  <2>5. /\ r \in Seq(S) /\ Len(r) = Len(s) - 1
        /\ \A i \in 1 .. Len(s) - 1 : r[i] = IF i < k THEN s[i] ELSE s[i + 1]
    BY <1>2, Removed
  <2>. HIDE DEF r
  <2>6. Once(r)
    BY <2>1, <2>5 DEF Once
  <2>7. \A i \in DOMAIN r : \E j \in DOMAIN s : s[j] = r[i] /\ s[j] # c
    <3>1. TAKE i \in DOMAIN r
    <3>2. i \in 1 .. Len(s) - 1 /\ i \in DOMAIN s /\ i + 1 \in DOMAIN s
      BY <2>5
    <3>. QED
      BY <2>1, <2>5, <3>2 DEF Once
  <2>8. \A j \in DOMAIN s : s[j] # c => \E i \in DOMAIN r : r[i] = s[j]
    <3>1. SUFFICES ASSUME NEW j \in DOMAIN s, s[j] # c PROVE \E i \in DOMAIN r : r[i] = s[j]
      OBVIOUS
    <3>2. CASE j < k
      BY <2>1, <2>5, <3>1, <3>2
    <3>3. CASE j > k
      <4>1. j - 1 \in DOMAIN r /\ r[j - 1] = s[j]
        BY <2>1, <2>5, <3>1, <3>3
      <4>. QED
        BY <4>1
    <3>. QED
      BY <2>1, <3>1, <3>2, <3>3
  <2>. QED
    BY <2>5, <2>6, <2>7, <2>8
<1>. QED
  BY <1>1, <1>2, RemovedFirst
-----------------------------------------------------------------------------
(* Statuses, from CiiSendStatus to the wire.                                *)
Frame == [kind : {"Status", "Nak", "Accept", "Ack", "Response"}, nr : Nat]
Unlisted == {"none", "register", "list"}

FlowTypes ==
    /\ wire \in [Clients -> Seq(Frame)]
    /\ peer \in [Clients -> {"none", "up", "down"}]
    /\ statuses \in [Clients -> Seq(Nat)] /\ popped \in [Clients -> Nat]
    /\ terminate \in [Clients -> BOOLEAN]
    /\ raised \in Nat /\ StatusWorkQueue \in Seq(Nat)
    /\ ClientList \in Seq(Clients) /\ BackendList \in Seq(Clients)
    /\ routing # Null => routing \in [nr : Nat, todo : Seq(Clients)]
    /\ dropping \in Clients \cup {Null}

(* The statuses in the work queue are the last ones raised; the one before  *)
(* them is the one that is handed out.                                      *)
Dispatched == raised - Len(StatusWorkQueue)
Dispatching ==
    /\ Dispatched \in Nat
    /\ \A i \in 1 .. Len(StatusWorkQueue) : StatusWorkQueue[i] = Dispatched + i
    /\ routing # Null => routing.nr = Dispatched /\ Dispatched > 0

(* Who is in the lists has been connected, and is there once.               *)
Enrolled ==
    /\ Once(ClientList) /\ \A i \in DOMAIN ClientList : thread[ClientList[i]] \notin Unlisted
    /\ \A i \in DOMAIN BackendList : thread[BackendList[i]] \notin Unlisted
    /\ dropping # Null => thread[dropping] \notin Unlisted
    /\ routing # Null =>
        Once(routing.todo) /\ \A i \in DOMAIN routing.todo : thread[routing.todo[i]] \notin Unlisted

(* A connection that is not closed: its queue has every status from the one *)
(* after the last that was taken out, or from the first it was there for,   *)
(* to the one that was handed out last, and what it was sent ends with the  *)
(* one that was taken out.                                                  *)
Connected(c) == ~terminate[c] /\ thread[c] \notin Gone \cup {"unregister"}
Newest(c) == IF statuses[c] = <<>> THEN popped[c] ELSE statuses[c][1]
Queued(c) ==
    /\ \A i \in 1 .. Len(statuses[c]) : statuses[c][i] = Newest(c) + 1 - i /\ statuses[c][i] > 0
    /\ statuses[c] # <<>> /\ popped[c] # 0 => statuses[c][Len(statuses[c])] = popped[c] + 1
NoneSent(c) == \A i \in 1 .. Len(wire[c]) : ~IsStatus(c, i)
LastSent(c, nr) ==
    \A i \in 1 .. Len(wire[c]) :
        IsStatus(c, i) /\ (\A k \in i + 1 .. Len(wire[c]) : ~IsStatus(c, k)) => wire[c][i].nr = nr
Delivered(c) ==
    IF worker[c] = "send" THEN popped[c] # 0 /\ LastSent(c, popped[c] - 1)
    ELSE LastSent(c, popped[c]) /\ (popped[c] = 0 => NoneSent(c))
Due(c) == routing # Null /\ \E i \in DOMAIN routing.todo : routing.todo[i] = c
UpToDate(c) ==
    IF thread[c] \in Unlisted THEN Newest(c) = 0
    ELSE /\ \E i \in DOMAIN ClientList : ClientList[i] = c
         /\ Newest(c) # 0 => Newest(c) = Dispatched - IF Due(c) THEN 1 ELSE 0
Flows(c) ==
    /\ thread[c] = "none" <=> peer[c] = "none"
    /\ peer[c] # "down" => Connected(c) /\ Queued(c) /\ Delivered(c) /\ UpToDate(c)

FlowInv ==
    FlowTypes /\ Dispatching /\ Enrolled /\ (\A c \in Clients : Flows(c)) /\ StatusesInOrder

(* What a client is sent besides statuses.                                  *)
Appended(c, f) ==
    /\ Len(wire'[c]) = Len(wire[c]) + 1 /\ wire'[c][Len(wire[c]) + 1] = f
    /\ \A i \in 1 .. Len(wire[c]) : wire'[c][i] = wire[c][i]
Quiet(c) == wire'[c] = wire[c] \/ \E f \in Frame : f.kind # "Status" /\ Appended(c, f)

LEMMA Transmitted ==
    ASSUME wire \in [Clients -> Seq(Frame)], NEW c \in Clients, NEW f \in Frame, Transmit(c, f)
    PROVE  /\ wire' \in [Clients -> Seq(Frame)]
           /\ \A d \in Clients \ {c} : wire'[d] = wire[d]
           /\ IF peer[c] = "up" THEN Appended(c, f) ELSE wire'[c] = wire[c]
<1>1. CASE peer[c] = "up"
  <2>1. wire' = [wire EXCEPT ![c] = Append(wire[c], f)]
    BY <1>1 DEF Transmit
  <2>2. wire'[c] = Append(wire[c], f) /\ \A d \in Clients \ {c} : wire'[d] = wire[d]
    BY <2>1
  <2>3. wire[c] \in Seq(Frame) /\ Append(wire[c], f) \in Seq(Frame)
    OBVIOUS
  <2>4. wire' \in [Clients -> Seq(Frame)]
    BY <2>1, <2>3
  <2>5. Appended(c, f)
    BY <2>2, <2>3, AppendProperties DEF Appended
  <2>. QED
    BY <1>1, <2>2, <2>4, <2>5
<1>2. CASE peer[c] # "up"
  BY <1>2 DEF Transmit
<1>. QED
  BY <1>1, <1>2

LEMMA QuietFrames ==
    ASSUME wire \in [Clients -> Seq(Frame)], wire' \in [Clients -> Seq(Frame)],
           NEW c \in Clients, Quiet(c)
    PROVE  /\ NoneSent(c) => NoneSent(c)'
           /\ \A nr : LastSent(c, nr) => LastSent(c, nr)'
           /\ InOrder(c) => InOrder(c)'
<1>1. CASE wire'[c] = wire[c]
  BY <1>1 DEF NoneSent, LastSent, InOrder, IsStatus
<1>2. CASE \E f \in Frame : f.kind # "Status" /\ Appended(c, f)
  <2>1. PICK f \in Frame : f.kind # "Status" /\ Appended(c, f)
    BY <1>2
  <2>2. /\ Len(wire[c]) \in Nat /\ Len(wire'[c]) = Len(wire[c]) + 1
        /\ DOMAIN wire[c] = 1 .. Len(wire[c]) /\ DOMAIN wire'[c] = 1 .. Len(wire[c]) + 1
        /\ \A i \in 1 .. Len(wire[c]) : wire'[c][i] = wire[c][i]
        /\ wire'[c][Len(wire[c]) + 1].kind # "Status"
    BY <2>1 DEF Appended
  <2>3. NoneSent(c) => NoneSent(c)'
    BY <2>2 DEF NoneSent, IsStatus
  <2>4. ASSUME NEW nr, LastSent(c, nr) PROVE LastSent(c, nr)'
    BY <2>2, <2>4 DEF LastSent, IsStatus
  <2>5. InOrder(c) => InOrder(c)'
    <3>1. SUFFICES ASSUME InOrder(c), NEW i \in DOMAIN wire'[c], NEW j \in DOMAIN wire'[c],
                          i < j, IsStatus(c, i)', IsStatus(c, j)',
                          \A k \in i + 1 .. j - 1 : ~IsStatus(c, k)'
                   PROVE  wire'[c][j].nr = wire'[c][i].nr + 1
      BY DEF InOrder
    <3>2. i \in DOMAIN wire[c] /\ j \in DOMAIN wire[c]
      BY <2>2, <3>1 DEF IsStatus
    <3>3. \A k \in i + 1 .. j - 1 : k \in 1 .. Len(wire[c])
      BY <2>2, <3>2
    <3>4. IsStatus(c, i) /\ IsStatus(c, j) /\ \A k \in i + 1 .. j - 1 : ~IsStatus(c, k)
      BY <2>2, <3>1, <3>2, <3>3 DEF IsStatus
    <3>. QED
      BY <2>2, <3>1, <3>2, <3>4 DEF InOrder
  <2>. QED
    BY <2>3, <2>4, <2>5
<1>. QED
  BY <1>1, <1>2 DEF Quiet

(* A step in which no status moves: nothing that concerns a client that is  *)
(* not closed by it changes.                                                *)
LEMMA FlowSteady ==
    ASSUME FlowInv, UNCHANGED <<statuses, popped, terminate, fanoutVars>>,
           wire' \in [Clients -> Seq(Frame)], \A c \in Clients : Quiet(c),
           peer' \in [Clients -> {"none", "up", "down"}],
           \A c \in Clients :
               /\ peer'[c] = peer[c] \/ peer'[c] = "down" \/ (peer[c] = "none" /\ thread[c] = "none")
               /\ peer'[c] = "down" \/ thread'[c] \notin Gone \cup {"unregister"}
               /\ thread'[c] \in Unlisted <=> thread[c] \in Unlisted
               /\ thread'[c] = "none" <=> peer'[c] = "none"
               /\ worker'[c] = "send" <=> worker[c] = "send",
           BackendList' \in Seq(Clients), dropping' \in Clients \cup {Null},
           \A i \in DOMAIN BackendList' : thread[BackendList'[i]] \notin Unlisted,
           dropping' # Null => thread[dropping'] \notin Unlisted
    PROVE  FlowInv'
<1>. USE DEF fanoutVars
<1>1. FlowTypes'
  BY DEF FlowInv, FlowTypes
<1>2. Dispatching'
  BY DEF FlowInv, Dispatching, Dispatched
<1>3. Enrolled'
  <2>1. /\ \A i \in DOMAIN ClientList : ClientList[i] \in Clients
        /\ \A i \in DOMAIN BackendList' : BackendList'[i] \in Clients
    BY DEF FlowInv, FlowTypes
  <2>2. routing # Null => \A i \in DOMAIN routing.todo : routing.todo[i] \in Clients
    BY DEF FlowInv, FlowTypes
  <2>3. Enrolled
    BY DEF FlowInv
  <2>. QED
    BY <2>1, <2>2, <2>3 DEF Enrolled
<1>4. ASSUME NEW c \in Clients PROVE Flows(c)' /\ InOrder(c)'
  <2>1. /\ NoneSent(c) => NoneSent(c)'
        /\ \A nr : LastSent(c, nr) => LastSent(c, nr)'
        /\ InOrder(c) => InOrder(c)'
    BY QuietFrames DEF FlowInv, FlowTypes
  <2>2. Flows(c) /\ InOrder(c)
    BY DEF FlowInv, StatusesInOrder
  <2>3. ASSUME peer'[c] # "down"
        PROVE  Connected(c)' /\ Queued(c)' /\ Delivered(c)' /\ UpToDate(c)'
    <3>1. Connected(c) /\ Queued(c) /\ Delivered(c) /\ UpToDate(c)
      BY <2>2, <2>3 DEF Flows
    <3>2. Connected(c)'
      BY <2>3, <3>1 DEF Connected
    <3>3. Queued(c)' /\ Newest(c)' = Newest(c)
      BY <3>1 DEF Queued, Newest
    <3>4. Delivered(c)'
      BY <2>1, <3>1 DEF Delivered
    <3>5. UpToDate(c)'
      BY <3>1, <3>3 DEF UpToDate, Due, Dispatched
    <3>. QED
      BY <3>2, <3>3, <3>4, <3>5
  <2>. QED
    BY <2>1, <2>2, <2>3 DEF Flows
<1>. QED
  BY <1>1, <1>2, <1>3, <1>4 DEF FlowInv, StatusesInOrder

LEMMA QuietAnswer ==
    ASSUME FlowInv, NEW c \in Clients, NEW f \in Frame, f.kind # "Status", Transmit(c, f)
    PROVE  wire' \in [Clients -> Seq(Frame)] /\ \A d \in Clients : Quiet(d)
  BY Transmitted DEF FlowInv, FlowTypes, Quiet

LEMMA QuietStep ==
    ASSUME FlowInv, UNCHANGED wire
    PROVE  wire' \in [Clients -> Seq(Frame)] /\ \A d \in Clients : Quiet(d)
  BY DEF FlowInv, FlowTypes, Quiet

(* The socket thread goes on with a message.                                *)
Active == {"enlist", "receive", "route", "accept", "callback", "completion", "respond"}
LEMMA FlowOfMessage ==
    ASSUME FlowInv, RefInv, NEW c \in Clients, NEW p \in Active, thread[c] \in Active, Goto(c, p),
           wire' \in [Clients -> Seq(Frame)], \A d \in Clients : Quiet(d),
           UNCHANGED <<peer, statusVars, fanoutVars, BackendList, dropping>>
    PROVE  FlowInv'
<1>1. /\ thread'[c] = p /\ \A d \in Clients \ {c} : thread'[d] = thread[d]
      /\ \A q \in Active : q \notin Unlisted /\ q \notin Gone \cup {"unregister"}
  BY DEF Goto, RefInv, RefTypes, Active, Unlisted, Gone
<1>2. ASSUME NEW d \in Clients
      PROVE  /\ peer'[d] = "down" \/ thread'[d] \notin Gone \cup {"unregister"}
             /\ thread'[d] \in Unlisted <=> thread[d] \in Unlisted
             /\ thread'[d] = "none" <=> peer'[d] = "none"
             /\ peer'[d] \in {"none", "up", "down"}
  <2>1. /\ peer[d] # "down" => Connected(d)
        /\ thread[d] = "none" <=> peer[d] = "none"
        /\ peer[d] \in {"none", "up", "down"}
    BY DEF FlowInv, FlowTypes, Flows
  <2>. QED
    BY <1>1, <2>1 DEF Connected, Unlisted
<1>3. /\ BackendList' \in Seq(Clients) /\ dropping' \in Clients \cup {Null}
      /\ \A i \in DOMAIN BackendList' : thread[BackendList'[i]] \notin Unlisted
      /\ dropping' # Null => thread[dropping'] \notin Unlisted
      /\ peer' \in [Clients -> {"none", "up", "down"}]
  BY DEF FlowInv, FlowTypes, Enrolled
<1>4. UNCHANGED <<statuses, popped, terminate, fanoutVars>>
  BY DEF statusVars
<1>5. ASSUME NEW d \in Clients
      PROVE  /\ peer'[d] = peer[d] \/ peer'[d] = "down" \/ (peer[d] = "none" /\ thread[d] = "none")
             /\ worker'[d] = "send" <=> worker[d] = "send"
  BY DEF statusVars
<1>. QED
  BY <1>2, <1>3, <1>4, <1>5, FlowSteady

(* A step of another thread, which may close connections.                   *)
LEMMA FlowElsewhere ==
    ASSUME FlowInv, wire' \in [Clients -> Seq(Frame)], \A d \in Clients : Quiet(d),
           peer' \in [Clients -> {"none", "up", "down"}],
           \A d \in Clients : peer'[d] = peer[d] \/ (peer'[d] = "down" /\ thread[d] # "none"),
           \A d \in Clients : worker'[d] = "send" <=> worker[d] = "send",
           UNCHANGED <<thread, statuses, popped, terminate, fanoutVars, BackendList>>,
           dropping' = Null \/ dropping' = dropping
               \/ \E i \in DOMAIN BackendList : dropping' = BackendList[i]
    PROVE  FlowInv'
<1>2. ASSUME NEW d \in Clients
      PROVE  /\ peer'[d] = "down" \/ thread'[d] \notin Gone \cup {"unregister"}
             /\ thread'[d] = "none" <=> peer'[d] = "none"
  <2>1. /\ peer[d] # "down" => Connected(d)
        /\ thread[d] = "none" <=> peer[d] = "none"
    BY DEF FlowInv, Flows
  <2>. QED
    BY <2>1 DEF Connected
<1>3. /\ BackendList' \in Seq(Clients) /\ dropping' \in Clients \cup {Null}
      /\ \A i \in DOMAIN BackendList' : thread[BackendList'[i]] \notin Unlisted
      /\ dropping' # Null => thread[dropping'] \notin Unlisted
  <2>1. /\ BackendList \in Seq(Clients) /\ dropping \in Clients \cup {Null}
        /\ \A i \in DOMAIN BackendList : thread[BackendList[i]] \notin Unlisted /\ BackendList[i] \in Clients
        /\ dropping # Null => thread[dropping] \notin Unlisted
    BY DEF FlowInv, FlowTypes, Enrolled
  <2>. QED
    BY <2>1
<1>4. ASSUME NEW d \in Clients
      PROVE  peer'[d] = peer[d] \/ peer'[d] = "down" \/ (peer[d] = "none" /\ thread[d] = "none")
  OBVIOUS
<1>. QED
  BY <1>2, <1>3, <1>4, FlowSteady

(* A socket thread that begins or ends its connection.                      *)
LEMMA FlowOfConnecting ==
    ASSUME FlowInv, RefInv, NEW c \in Clients, Accept(c) \/ CreateStatusThread(c) \/ ListBackend(c)
    PROVE  FlowInv'
<1>. USE DEF At, Goto, statusVars, loginVars
<1>1. /\ thread[c] \in {"none", "register", "enlist"} /\ thread'[c] \in {"register", "list", "receive"}
      /\ thread'[c] \in Unlisted <=> thread[c] \in Unlisted
      /\ \A d \in Clients \ {c} : thread'[d] = thread[d] /\ peer'[d] = peer[d]
      /\ peer' \in [Clients -> {"none", "up", "down"}]
      /\ peer'[c] = peer[c] \/ (peer[c] = "none" /\ thread[c] = "none")
      /\ peer'[c] # "none"
  <2>1. CASE Accept(c)
    BY <2>1 DEF Accept, FlowInv, FlowTypes, Flows, RefInv, RefTypes, Unlisted
  <2>2. CASE CreateStatusThread(c) \/ ListBackend(c)
    BY <2>2 DEF CreateStatusThread, ListBackend, FlowInv, FlowTypes, Flows, RefInv, RefTypes, Unlisted
  <2>. QED
    BY <2>1, <2>2
<1>2. ASSUME NEW d \in Clients
      PROVE  /\ peer'[d] = peer[d] \/ peer'[d] = "down" \/ (peer[d] = "none" /\ thread[d] = "none")
             /\ peer'[d] = "down" \/ thread'[d] \notin Gone \cup {"unregister"}
             /\ thread'[d] \in Unlisted <=> thread[d] \in Unlisted
             /\ thread'[d] = "none" <=> peer'[d] = "none"
  <2>1. /\ peer[d] # "down" => Connected(d)
        /\ thread[d] = "none" <=> peer[d] = "none"
    BY DEF FlowInv, Flows
  <2>. QED
    BY <1>1, <2>1 DEF Connected, Gone
<1>3. UNCHANGED <<statuses, popped, terminate, fanoutVars, wire, dropping>>
  BY DEF Accept, CreateStatusThread, ListBackend
<1>4. ASSUME NEW d \in Clients PROVE worker'[d] = "send" <=> worker[d] = "send"
  <2>1. CASE Accept(c) \/ ListBackend(c)
    BY <2>1 DEF Accept, ListBackend
  <2>2. CASE CreateStatusThread(c)
    <3>1. worker[c] = "none"
      BY <2>2 DEF RefInv, Handling, CreateStatusThread
    <3>. QED
      BY <2>2, <3>1 DEF CreateStatusThread, RefInv, RefTypes
  <2>. QED
    BY <2>1, <2>2
<1>5. /\ BackendList' \in Seq(Clients) /\ dropping' \in Clients \cup {Null}
      /\ \A i \in DOMAIN BackendList' : thread[BackendList'[i]] \notin Unlisted
      /\ dropping' # Null => thread[dropping'] \notin Unlisted
  <2>1. /\ BackendList \in Seq(Clients) /\ dropping \in Clients \cup {Null}
        /\ \A i \in DOMAIN BackendList : thread[BackendList[i]] \notin Unlisted
        /\ dropping # Null => thread[dropping] \notin Unlisted
    BY DEF FlowInv, FlowTypes, Enrolled
  <2>2. CASE UNCHANGED BackendList
    BY <1>3, <2>1, <2>2
  <2>3. CASE BackendList' = Append(BackendList, c) /\ thread[c] = "enlist"
    BY <1>3, <2>1, <2>3 DEF Unlisted
  <2>. QED
    BY <2>2, <2>3 DEF Accept, CreateStatusThread, ListBackend
<1>6. wire' \in [Clients -> Seq(Frame)] /\ \A d \in Clients : Quiet(d)
  BY <1>3, QuietStep
<1>7. UNCHANGED <<statuses, popped, terminate, fanoutVars>>
  BY <1>3
<1>8. peer' \in [Clients -> {"none", "up", "down"}]
  BY <1>1
<1>. QED
  BY <1>2, <1>4, <1>5, <1>6, <1>7, <1>8, FlowSteady

LEMMA FlowOfLeaving ==
    ASSUME FlowInv, RefInv, NEW c \in Clients,
           ReceiveFails(c) \/ Unregister(c) \/ PostTerminate(c) \/ Release(c)
    PROVE  FlowInv'
<1>. USE DEF At, Goto, statusVars, loginVars
<1>1. /\ thread[c] \in {"receive", "unregister", "post", "release"}
      /\ thread'[c] \notin Unlisted /\ thread[c] \notin Unlisted
      /\ \A d \in Clients \ {c} : thread'[d] = thread[d] /\ peer'[d] = peer[d]
      /\ peer' \in [Clients -> {"none", "up", "down"}] /\ peer'[c] = "down"
  <2>1. CASE ReceiveFails(c)
    BY <2>1 DEF ReceiveFails, Close, FlowInv, FlowTypes, RefInv, RefTypes, Unlisted
  <2>2. CASE Unregister(c) \/ PostTerminate(c) \/ Release(c)
    <3>1. thread[c] \in {"unregister", "post", "release"} /\ Flows(c)
      BY <2>2 DEF Unregister, PostTerminate, Release, FlowInv
    <3>2. peer[c] = "down"
      BY <3>1 DEF Flows, Connected, Gone
    <3>. QED
      BY <2>2, <3>1, <3>2
         DEF Unregister, PostTerminate, Release, FlowInv, FlowTypes, RefInv, RefTypes, Unlisted
  <2>. QED
    BY <2>1, <2>2
<1>2. ASSUME NEW d \in Clients
      PROVE  /\ peer'[d] = peer[d] \/ peer'[d] = "down" \/ (peer[d] = "none" /\ thread[d] = "none")
             /\ peer'[d] = "down" \/ thread'[d] \notin Gone \cup {"unregister"}
             /\ thread'[d] \in Unlisted <=> thread[d] \in Unlisted
             /\ thread'[d] = "none" <=> peer'[d] = "none"
  <2>1. /\ peer[d] # "down" => Connected(d)
        /\ thread[d] = "none" <=> peer[d] = "none"
    BY DEF FlowInv, Flows
  <2>. QED
    BY <1>1, <2>1 DEF Connected, Unlisted
<1>3. UNCHANGED <<statuses, popped, terminate, fanoutVars, wire, dropping, worker>>
  BY DEF ReceiveFails, Unregister, PostTerminate, Release
<1>5. /\ BackendList' \in Seq(Clients) /\ dropping' \in Clients \cup {Null}
      /\ \A i \in DOMAIN BackendList' : thread[BackendList'[i]] \notin Unlisted
      /\ dropping' # Null => thread[dropping'] \notin Unlisted
  <2>1. /\ BackendList \in Seq(Clients) /\ dropping \in Clients \cup {Null}
        /\ \A i \in DOMAIN BackendList : thread[BackendList[i]] \notin Unlisted
        /\ dropping # Null => thread[dropping] \notin Unlisted
    BY DEF FlowInv, FlowTypes, Enrolled
  <2>2. CASE UNCHANGED BackendList
    BY <1>3, <2>1, <2>2
  <2>3. CASE BackendList' = RemoveFirst(BackendList, c)
    BY <1>3, <2>1, <2>3, RemovedFrom
  <2>. QED
    BY <2>2, <2>3 DEF ReceiveFails, Unregister, PostTerminate, Release
<1>6. wire' \in [Clients -> Seq(Frame)] /\ \A d \in Clients : Quiet(d)
  BY <1>3, QuietStep
<1>7. UNCHANGED <<statuses, popped, terminate, fanoutVars>>
  BY <1>3
<1>8. peer' \in [Clients -> {"none", "up", "down"}] /\ UNCHANGED worker
  BY <1>1, <1>3
<1>. QED
  BY <1>2, <1>5, <1>6, <1>7, <1>8, FlowSteady

(* A client enters the list statuses go to, and has had none.               *)
LEMMA FlowOfListClient ==
    ASSUME FlowInv, RefInv, NEW c \in Clients, ListClient(c)
    PROVE  FlowInv'
<1>. USE DEF ListClient, At, Goto, statusVars, loginVars
<1>1. /\ thread[c] = "list" /\ thread'[c] = "enlist" /\ routing = Null
      /\ \A d \in Clients \ {c} : thread'[d] = thread[d]
      /\ \A d \in Clients : thread[d] \notin Unlisted => thread'[d] \notin Unlisted
  BY DEF RefInv, RefTypes, Unlisted
<1>2. /\ ClientList' \in Seq(Clients) /\ Len(ClientList') = Len(ClientList) + 1
      /\ ClientList'[1] = c /\ \A i \in 1 .. Len(ClientList) : ClientList'[i + 1] = ClientList[i]
      /\ \A i \in 2 .. Len(ClientList) + 1 : ClientList'[i] = ClientList[i - 1]
      /\ ClientList \in Seq(Clients) /\ Len(ClientList) \in Nat
  <2>1. <<c>> \in Seq(Clients) /\ ClientList \in Seq(Clients) /\ Len(<<c>>) = 1 /\ <<c>>[1] = c
    BY DEF FlowInv, FlowTypes
  <2>2. /\ ClientList' \in Seq(Clients) /\ Len(ClientList') = 1 + Len(ClientList)
        /\ \A i \in 1 .. 1 + Len(ClientList) :
              ClientList'[i] = IF i <= 1 THEN <<c>>[i] ELSE ClientList[i - 1]
    BY <2>1, ConcatProperties
  <2>3. Len(ClientList) \in Nat
    BY <2>1
  <2>. QED
    BY <2>1, <2>2, <2>3
<1>3. FlowTypes'
  BY <1>2 DEF FlowInv, FlowTypes
<1>4. Dispatching'
  BY DEF FlowInv, Dispatching, Dispatched
<1>5. Enrolled'
  <2>1. Enrolled
    BY DEF FlowInv
  <2>2. \A i \in 1 .. Len(ClientList) : ClientList[i] # c
    BY <1>1, <1>2, <2>1 DEF Enrolled, Unlisted
  <2>3. Once(ClientList')
    BY <1>2, <2>1, <2>2 DEF Enrolled, Once
  <2>4. \A i \in DOMAIN ClientList' : thread'[ClientList'[i]] \notin Unlisted
    <3>1. \A i \in 1 .. Len(ClientList) : ClientList[i] \in Clients /\ thread[ClientList[i]] \notin Unlisted
      BY <1>2, <2>1 DEF Enrolled
    <3>2. TAKE i \in DOMAIN ClientList'
    <3>3. CASE i = 1
      BY <1>1, <1>2, <3>3 DEF Unlisted
    <3>4. CASE i # 1
      <4>1. i \in 2 .. Len(ClientList) + 1 /\ i - 1 \in 1 .. Len(ClientList)
        BY <1>2, <3>2, <3>4
      <4>. QED
        BY <1>1, <1>2, <3>1, <4>1
    <3>. QED
      BY <3>3, <3>4
  <2>5. \A i \in DOMAIN BackendList : BackendList[i] \in Clients
    BY DEF FlowInv, FlowTypes
  <2>6. dropping \in Clients \cup {Null}
    BY DEF FlowInv, FlowTypes
  <2>. QED
    BY <1>1, <2>1, <2>3, <2>4, <2>5, <2>6 DEF Enrolled
<1>6. ASSUME NEW d \in Clients PROVE Flows(d)' /\ InOrder(d)'
  <2>1. Flows(d) /\ InOrder(d)
    BY DEF FlowInv, StatusesInOrder
  <2>2. (thread'[d] = "none" <=> peer'[d] = "none") /\ InOrder(d)'
    BY <1>1, <2>1 DEF Flows, InOrder, IsStatus
  <2>3. ASSUME peer'[d] # "down"
        PROVE  Connected(d)' /\ Queued(d)' /\ Delivered(d)' /\ UpToDate(d)'
    <3>1. Connected(d) /\ Queued(d) /\ Delivered(d) /\ UpToDate(d)
      BY <2>1, <2>3 DEF Flows
    <3>2. Connected(d)'
      BY <1>1, <3>1 DEF Connected, Gone
    <3>3. Queued(d)' /\ Delivered(d)' /\ Newest(d)' = Newest(d)
      BY <3>1 DEF Queued, Delivered, Newest, NoneSent, LastSent, IsStatus
    <3>4. UpToDate(d)'
      <4>1. CASE d = c
        BY <1>1, <1>2, <3>1, <3>3, <4>1 DEF UpToDate, Unlisted
      <4>2. CASE d # c
        <5>1. (\E i \in DOMAIN ClientList : ClientList[i] = d)
                  => \E i \in DOMAIN ClientList' : ClientList'[i] = d
          <6>1. ASSUME NEW i \in DOMAIN ClientList, ClientList[i] = d
                PROVE  \E j \in DOMAIN ClientList' : ClientList'[j] = d
            <7>1. i + 1 \in DOMAIN ClientList' /\ ClientList'[i + 1] = d
              BY <1>2, <6>1
            <7>. QED
              BY <7>1
          <6>. QED
            BY <6>1
        <5>. QED
          BY <1>1, <3>1, <3>3, <4>2, <5>1 DEF UpToDate, Due, Dispatched
      <4>. QED
        BY <4>1, <4>2
    <3>. QED
      BY <3>2, <3>3, <3>4
  <2>. QED
    BY <2>2, <2>3 DEF Flows
<1>. QED
  BY <1>3, <1>4, <1>5, <1>6 DEF FlowInv, StatusesInOrder

(* What a step leaves alone that only serves other clients.                 *)
LEMMA FlowsKept ==
    ASSUME NEW d \in Clients, Flows(d), InOrder(d), thread'[d] = thread[d],
           peer'[d] = peer[d] \/ (peer'[d] = "down" /\ thread[d] # "none"),
           statuses'[d] = statuses[d], popped'[d] = popped[d], terminate'[d] = terminate[d],
           wire'[d] = wire[d], worker'[d] = "send" <=> worker[d] = "send",
           (\E i \in DOMAIN ClientList : ClientList[i] = d)
               => \E i \in DOMAIN ClientList' : ClientList'[i] = d,
           Dispatched' - (IF Due(d)' THEN 1 ELSE 0) = Dispatched - (IF Due(d) THEN 1 ELSE 0)
    PROVE  Flows(d)' /\ InOrder(d)'
<1>1. (thread'[d] = "none" <=> peer'[d] = "none") /\ InOrder(d)'
  BY DEF Flows, InOrder, IsStatus
<1>2. ASSUME peer'[d] # "down"
      PROVE  Connected(d)' /\ Queued(d)' /\ Delivered(d)' /\ UpToDate(d)'
  <2>1. Connected(d) /\ Queued(d) /\ Delivered(d) /\ UpToDate(d)
    BY <1>2 DEF Flows
  <2>2. Connected(d)'
    BY <2>1 DEF Connected
  <2>3. Queued(d)' /\ Newest(d)' = Newest(d)
    BY <2>1 DEF Queued, Newest
  <2>4. Delivered(d)'
    BY <2>1 DEF Delivered, NoneSent, LastSent, IsStatus
  <2>5. UpToDate(d)'
    BY <2>1, <2>3 DEF UpToDate
  <2>. QED
    BY <2>2, <2>3, <2>4, <2>5
<1>. QED
  BY <1>1, <1>2 DEF Flows

(* A closed connection owes nothing any more.                               *)
LEMMA FlowsClosed ==
    ASSUME NEW d \in Clients, InOrder(d), wire'[d] = wire[d], peer'[d] = "down", thread'[d] # "none"
    PROVE  Flows(d)' /\ InOrder(d)'
  BY DEF Flows, InOrder, IsStatus

LEMMA FlowOfDestroy ==
    ASSUME FlowInv, RefInv, NEW c \in Clients, DestroyStatusWorker(c)
    PROVE  FlowInv'
<1>. USE DEF DestroyStatusWorker, At, Goto, statusVars, loginVars
<1>1. /\ thread[c] = "destroy" /\ thread'[c] = "post" /\ routing = Null
      /\ \A d \in Clients \ {c} :
            thread'[d] = thread[d] /\ statuses'[d] = statuses[d] /\ terminate'[d] = terminate[d]
      /\ \A d \in Clients : thread[d] \notin Unlisted => thread'[d] \notin Unlisted
      /\ peer[c] = "down"
  BY DEF RefInv, RefTypes, Unlisted, FlowInv, FlowTypes, Flows, Connected, Gone
<1>2. /\ ClientList' \in Seq(Clients) /\ Once(ClientList')
      /\ \A i \in DOMAIN ClientList' : \E j \in DOMAIN ClientList : ClientList[j] = ClientList'[i]
      /\ \A j \in DOMAIN ClientList : ClientList[j] # c =>
            \E i \in DOMAIN ClientList' : ClientList'[i] = ClientList[j]
  BY RemovedOnce DEF FlowInv, FlowTypes, Enrolled
<1>3. FlowTypes'
  BY <1>2 DEF FlowInv, FlowTypes
<1>4. Dispatching'
  BY DEF FlowInv, Dispatching, Dispatched
<1>5. Enrolled'
  <2>1. /\ \A i \in DOMAIN ClientList : ClientList[i] \in Clients
        /\ \A i \in DOMAIN BackendList : BackendList[i] \in Clients
        /\ dropping \in Clients \cup {Null}
    BY DEF FlowInv, FlowTypes
  <2>2. Enrolled
    BY DEF FlowInv
  <2>3. \A i \in DOMAIN ClientList' : thread'[ClientList'[i]] \notin Unlisted
    BY <1>1, <1>2, <2>1, <2>2 DEF Enrolled
  <2>. QED
    BY <1>1, <1>2, <2>1, <2>2, <2>3 DEF Enrolled
<1>6. ASSUME NEW d \in Clients PROVE Flows(d)' /\ InOrder(d)'
  <2>1. Flows(d) /\ InOrder(d)
    BY DEF FlowInv, StatusesInOrder
  <2>2. CASE d = c
    BY <1>1, <2>1, <2>2, FlowsClosed
  <2>3. CASE d # c
    <3>1. Dispatched' = Dispatched /\ Due(d)' = Due(d)
      BY DEF Dispatched, Due
    <3>2. /\ thread'[d] = thread[d] /\ peer'[d] = peer[d] /\ statuses'[d] = statuses[d]
          /\ popped'[d] = popped[d] /\ terminate'[d] = terminate[d] /\ wire'[d] = wire[d]
          /\ worker'[d] = worker[d]
      BY <1>1, <2>3
    <3>3. (\E i \in DOMAIN ClientList : ClientList[i] = d)
               => \E i \in DOMAIN ClientList' : ClientList'[i] = d
      BY <1>2, <2>3
    <3>. QED
      BY <2>1, <3>1, <3>2, <3>3, FlowsKept
  <2>. QED
    BY <2>2, <2>3
<1>. QED
  BY <1>3, <1>4, <1>5, <1>6 DEF FlowInv, StatusesInOrder

(* The status thread.                                                       *)
LEMMA FlowOfWorkerTypes ==
    ASSUME FlowInv, NEW c \in Clients, UNCHANGED <<thread, terminate, fanoutVars, BackendList, dropping>>,
           wire' \in [Clients -> Seq(Frame)], peer' = peer,
           statuses' \in [Clients -> Seq(Nat)], popped' \in [Clients -> Nat],
           \A d \in Clients \ {c} :
               /\ statuses'[d] = statuses[d] /\ popped'[d] = popped[d] /\ wire'[d] = wire[d]
               /\ worker'[d] = worker[d],
           Flows(c)' /\ InOrder(c)'
    PROVE  FlowInv'
<1>. USE DEF fanoutVars
<1>1. FlowTypes' /\ Dispatching' /\ Enrolled'
  BY DEF FlowInv, FlowTypes, Dispatching, Dispatched, Enrolled, Once
<1>2. ASSUME NEW d \in Clients, d # c PROVE Flows(d)' /\ InOrder(d)'
  <2>1. Flows(d) /\ InOrder(d)
    BY DEF FlowInv, StatusesInOrder
  <2>2. /\ Dispatched' = Dispatched /\ Due(d)' = Due(d)
        /\ thread'[d] = thread[d] /\ peer'[d] = peer[d] /\ terminate'[d] = terminate[d]
    BY DEF Dispatched, Due
  <2>3. (\E i \in DOMAIN ClientList : ClientList[i] = d)
            => \E i \in DOMAIN ClientList' : ClientList'[i] = d
    OBVIOUS
  <2>. QED
    BY <1>2, <2>1, <2>2, <2>3, FlowsKept
<1>. QED
  BY <1>1, <1>2 DEF FlowInv, StatusesInOrder

LEMMA FlowOfProceed ==
    ASSUME FlowInv, RefInv, NEW c \in Clients, worker[c] # "send", Proceed(c),
           UNCHANGED <<peer, wire, thread, terminate, fanoutVars, BackendList, dropping>>
    PROVE  FlowInv'
<1>. USE DEF fanoutVars
<1>1. /\ statuses[c] \in Seq(Nat) /\ popped[c] \in Nat
      /\ statuses \in [Clients -> Seq(Nat)] /\ popped \in [Clients -> Nat]
      /\ wire \in [Clients -> Seq(Frame)]
  BY DEF FlowInv, FlowTypes
<1>2. Flows(c) /\ InOrder(c)
  BY DEF FlowInv, StatusesInOrder
<1>3. \A d \in Clients \ {c} :
          statuses'[d] = statuses[d] /\ popped'[d] = popped[d] /\ worker'[d] = worker[d]
  BY <1>1 DEF Proceed, RefInv, RefTypes
<1>4. CASE terminate[c]
  <2>1. statuses' = [statuses EXCEPT ![c] = <<>>] /\ popped' = popped
    BY <1>4 DEF Proceed
  <2>3. statuses' \in [Clients -> Seq(Nat)]
    <3>1. <<>> \in Seq(Nat)
      OBVIOUS
    <3>. QED
      BY <1>1, <2>1, <3>1
  <2>2. Flows(c)' /\ InOrder(c)'
    BY <1>2, <1>4 DEF Flows, Connected, InOrder, IsStatus
  <2>. QED
    BY <1>1, <1>3, <2>1, <2>2, <2>3, FlowOfWorkerTypes
<1>5. CASE ~terminate[c] /\ statuses[c] = <<>>
  <2>1. statuses' = statuses /\ popped' = popped /\ worker'[c] = "wait"
    BY <1>1, <1>5 DEF Proceed, RefInv, RefTypes
  <2>2. Dispatched' = Dispatched /\ Due(c)' = Due(c)
    BY DEF Dispatched, Due
  <2>3. Flows(c)' /\ InOrder(c)'
    BY <1>2, <2>1, <2>2, FlowsKept
  <2>. QED
    BY <1>1, <1>3, <2>1, <2>3, FlowOfWorkerTypes
<1>6. CASE ~terminate[c] /\ statuses[c] # <<>>
  <2>. DEFINE n == Len(statuses[c])
  <2>1. /\ n \in Nat /\ n > 0 /\ statuses[c][n] \in Nat
        /\ Front(statuses[c]) \in Seq(Nat) /\ Len(Front(statuses[c])) = n - 1
        /\ \A i \in 1 .. n - 1 : Front(statuses[c])[i] = statuses[c][i]
    <3>1. n \in Nat /\ n > 0
      BY <1>1, <1>6
    <3>2. \A i \in 1 .. n - 1 : statuses[c][i] \in Nat
      BY <1>1, <3>1
    <3>3. SubSeq(statuses[c], 1, n - 1) = Front(statuses[c])
      BY DEF Front
    <3>4. statuses[c][n] \in Nat
      BY <1>1, <3>1
    <3>. HIDE DEF n
    <3>5. /\ SubSeq(statuses[c], 1, n - 1) \in Seq(Nat)
          /\ Len(SubSeq(statuses[c], 1, n - 1)) = IF 1 <= n - 1 THEN (n - 1) - 1 + 1 ELSE 0
          /\ \A i \in 1 .. (n - 1) - 1 + 1 : SubSeq(statuses[c], 1, n - 1)[i] = statuses[c][1 + i - 1]
      BY <3>1, <3>2, SubSeqProperties
    <3>6. Front(statuses[c]) \in Seq(Nat)
      BY <3>3, <3>5
    <3>7. n - 1 = (n - 1) - 1 + 1 /\ (IF 1 <= n - 1 THEN (n - 1) - 1 + 1 ELSE 0) = n - 1
      BY <3>1
    <3>8. Len(Front(statuses[c])) = n - 1
      BY <3>3, <3>5, <3>7
    <3>9. ASSUME NEW i \in 1 .. n - 1 PROVE Front(statuses[c])[i] = statuses[c][i]
      <4>1. i \in 1 .. (n - 1) - 1 + 1 /\ 1 + i - 1 = i
        BY <3>1, <3>7
      <4>. QED
        BY <3>3, <3>5, <4>1
    <3>. QED
      BY <3>1, <3>4, <3>6, <3>8, <3>9
  <2>0. n = Len(statuses[c])
    OBVIOUS
  <2>. HIDE DEF n
  <2>2. /\ popped' = [popped EXCEPT ![c] = statuses[c][n]]
        /\ statuses' = [statuses EXCEPT ![c] = Front(statuses[c])]
        /\ worker'[c] = "send"
    BY <1>1, <1>6, <2>0, <2>1 DEF Proceed, Last, RefInv, RefTypes
  <2>3. /\ popped'[c] = statuses[c][n] /\ statuses'[c] = Front(statuses[c])
        /\ popped' \in [Clients -> Nat] /\ statuses' \in [Clients -> Seq(Nat)]
    BY <1>1, <2>1, <2>2
  <2>4. (thread'[c] = "none" <=> peer'[c] = "none") /\ InOrder(c)'
    BY <1>2 DEF Flows, InOrder, IsStatus
  <2>5. ASSUME peer'[c] # "down"
        PROVE  Connected(c)' /\ Queued(c)' /\ Delivered(c)' /\ UpToDate(c)'
    <3>1. Connected(c) /\ Queued(c) /\ Delivered(c) /\ UpToDate(c)
      BY <1>2, <2>5 DEF Flows
    <3>2. Connected(c)'
      BY <3>1 DEF Connected
    <3>3. /\ statuses[c][n] = Newest(c) + 1 - n /\ Newest(c) = statuses[c][1]
          /\ popped[c] # 0 => statuses[c][n] = popped[c] + 1
          /\ \A i \in 1 .. n : statuses[c][i] = Newest(c) + 1 - i /\ statuses[c][i] > 0
      BY <1>6, <2>0, <2>1, <3>1 DEF Queued, Newest
    <3>4. Newest(c)' = Newest(c)
      <4>1. CASE n = 1
        <5>1. statuses'[c] = <<>> /\ popped'[c] = statuses[c][1]
          BY <2>1, <2>3, <4>1
        <5>. QED
          BY <3>3, <5>1 DEF Newest
      <4>2. CASE n > 1
        <5>0. Len(statuses'[c]) = n - 1 /\ 1 \in 1 .. n - 1
          BY <2>1, <2>3, <4>2
        <5>2. statuses'[c][1] = statuses[c][1]
          BY <2>1, <2>3, <5>0
        <5>3. Len(<<>>) = 0 /\ n - 1 # 0
          BY <2>1, <4>2
        <5>4. statuses'[c] # <<>>
          BY <5>0, <5>3
        <5>1. statuses'[c] # <<>> /\ statuses'[c][1] = statuses[c][1]
          BY <5>2, <5>4
        <5>. QED
          BY <3>3, <5>1 DEF Newest
      <4>. QED
        BY <2>1, <4>1, <4>2
    <3>5. Queued(c)'
      <4>1. /\ Len(statuses'[c]) = n - 1
            /\ \A i \in 1 .. n - 1 : statuses'[c][i] = statuses[c][i]
        BY <2>1, <2>3
      <4>2. \A i \in 1 .. n - 1 : statuses'[c][i] = Newest(c)' + 1 - i /\ statuses'[c][i] > 0
        <5>1. TAKE i \in 1 .. n - 1
        <5>2. i \in 1 .. n
          BY <2>1
        <5>3. statuses'[c][i] = Newest(c) + 1 - i /\ statuses'[c][i] > 0
          BY <3>3, <4>1, <5>2
        <5>. QED
          BY <3>4, <5>3
      <4>3. ASSUME statuses'[c] # <<>>
            PROVE  statuses'[c][Len(statuses'[c])] = popped'[c] + 1
        <5>1. n - 1 \in 1 .. n - 1 /\ n - 1 \in 1 .. n /\ n \in 1 .. n
          BY <2>1, <2>3, <4>1, <4>3
        <5>2. statuses'[c][n - 1] = Newest(c) + 1 - (n - 1) /\ popped'[c] = Newest(c) + 1 - n
          BY <2>3, <3>3, <4>1, <5>1
        <5>3. Newest(c) \in Int
          BY <1>1, <2>1, <3>3
        <5>. QED
          BY <2>1, <4>1, <5>2, <5>3
      <4>. QED
        BY <4>1, <4>2, <4>3 DEF Queued
    <3>6. Delivered(c)'
      <4>1. popped'[c] # 0 /\ worker'[c] = "send"
        BY <2>1, <2>2, <2>3, <3>3
      <4>2. LastSent(c, popped[c]) /\ (popped[c] = 0 => NoneSent(c))
        BY <3>1 DEF Delivered
      <4>3. LastSent(c, popped'[c] - 1)
        <5>1. CASE popped[c] = 0
          BY <4>2, <5>1 DEF NoneSent, LastSent
        <5>2. CASE popped[c] # 0
          <6>1. popped'[c] - 1 = popped[c]
            BY <1>1, <2>3, <3>3, <5>2
          <6>. QED
            BY <4>2, <6>1
        <5>. QED
          BY <5>1, <5>2
      <4>4. LastSent(c, popped[c] - 1)'
        BY <4>3 DEF LastSent, IsStatus
      <4>. QED
        BY <4>1, <4>4 DEF Delivered
    <3>7. UpToDate(c)'
      BY <3>1, <3>4 DEF UpToDate, Due, Dispatched
    <3>. QED
      BY <3>2, <3>5, <3>6, <3>7
  <2>6. Flows(c)' /\ InOrder(c)'
    BY <2>4, <2>5 DEF Flows
  <2>. QED
    BY <1>1, <1>3, <2>3, <2>6, FlowOfWorkerTypes
<1>. QED
  BY <1>4, <1>5, <1>6

(* It sends what it has taken out, the successor of what it sent last.      *)
LEMMA FlowOfSend ==
    ASSUME FlowInv, RefInv, NEW c \in Clients, StatusSend(c)
    PROVE  FlowInv'
<1>. USE DEF fanoutVars, loginVars
<1>. DEFINE f == [kind |-> "Status", nr |-> popped[c]]
<1>1. /\ UNCHANGED <<thread, terminate, fanoutVars, BackendList, dropping, peer, statuses, popped>>
      /\ worker[c] = "send" /\ worker'[c] = "next" /\ Transmit(c, f)
      /\ \A d \in Clients \ {c} : worker'[d] = worker[d]
  BY DEF StatusSend, Working, RefInv, RefTypes
<1>2. /\ popped[c] \in Nat /\ f \in Frame /\ f.kind = "Status" /\ f.nr = popped[c]
      /\ wire \in [Clients -> Seq(Frame)] /\ wire[c] \in Seq(Frame)
      /\ statuses \in [Clients -> Seq(Nat)] /\ popped \in [Clients -> Nat]
  BY DEF FlowInv, FlowTypes, Frame
<1>. HIDE DEF f
<1>3. /\ wire' \in [Clients -> Seq(Frame)]
      /\ \A d \in Clients \ {c} : wire'[d] = wire[d]
      /\ IF peer[c] = "up" THEN Appended(c, f) ELSE wire'[c] = wire[c]
  BY <1>1, <1>2, Transmitted
<1>4. Flows(c) /\ InOrder(c)
  BY DEF FlowInv, StatusesInOrder
<1>5. (thread'[c] = "none" <=> peer'[c] = "none")
  BY <1>1, <1>4 DEF Flows
<1>6. CASE peer[c] = "down"
  <2>1. wire'[c] = wire[c] /\ peer'[c] = "down" /\ thread'[c] # "none"
    BY <1>1, <1>3, <1>4, <1>6 DEF Flows
  <2>2. Flows(c)' /\ InOrder(c)'
    BY <1>4, <2>1, FlowsClosed
  <2>. QED
    BY <1>1, <1>2, <1>3, <2>2, FlowOfWorkerTypes
<1>7. CASE peer[c] # "down"
  <2>1. Connected(c) /\ Queued(c) /\ Delivered(c) /\ UpToDate(c)
    BY <1>4, <1>7 DEF Flows
  <2>2. popped[c] # 0 /\ LastSent(c, popped[c] - 1)
    BY <1>1, <2>1 DEF Delivered
  <2>3. Connected(c)' /\ Queued(c)' /\ UpToDate(c)'
    BY <1>1, <2>1 DEF Connected, Queued, UpToDate, Newest, Due, Dispatched
  <2>4. LastSent(c, popped[c])' /\ InOrder(c)'
    <3>1. CASE peer[c] # "up"
      <4>1. peer[c] = "none" /\ thread[c] = "none"
        BY <1>4, <1>7, <3>1 DEF Flows, FlowInv, FlowTypes
      <4>. QED
        BY <1>1, <4>1 DEF RefInv, Handling
    <3>2. CASE peer[c] = "up"
      <4>1. /\ Len(wire[c]) \in Nat /\ Len(wire'[c]) = Len(wire[c]) + 1
            /\ DOMAIN wire[c] = 1 .. Len(wire[c]) /\ DOMAIN wire'[c] = 1 .. Len(wire[c]) + 1
            /\ \A i \in 1 .. Len(wire[c]) : wire'[c][i] = wire[c][i]
            /\ wire'[c][Len(wire[c]) + 1].kind = "Status"
            /\ wire'[c][Len(wire[c]) + 1].nr = popped[c]
        BY <1>2, <1>3, <3>2 DEF Appended
      <4>2. LastSent(c, popped[c])'
        <5>1. ASSUME NEW i \in 1 .. Len(wire'[c]), i # Len(wire[c]) + 1
              PROVE  ~(\A k \in i + 1 .. Len(wire'[c]) : ~IsStatus(c, k)')
          BY <4>1, <5>1 DEF IsStatus
        <5>. QED
          BY <1>1, <4>1, <5>1 DEF LastSent, IsStatus
      <4>3. InOrder(c)'
        <5>1. SUFFICES ASSUME NEW i \in DOMAIN wire'[c], NEW j \in DOMAIN wire'[c],
                              i < j, IsStatus(c, i)', IsStatus(c, j)',
                              \A k \in i + 1 .. j - 1 : ~IsStatus(c, k)'
                       PROVE  wire'[c][j].nr = wire'[c][i].nr + 1
          BY DEF InOrder
        <5>2. i \in 1 .. Len(wire[c]) /\ IsStatus(c, i)
          BY <4>1, <5>1 DEF IsStatus
        <5>3. ASSUME NEW k \in i + 1 .. j - 1 PROVE k \in 1 .. Len(wire[c]) /\ ~IsStatus(c, k)
          <6>1. k \in 1 .. Len(wire[c]) /\ k \in i + 1 .. j - 1
            BY <4>1, <5>1, <5>2, <5>3
          <6>. QED
            BY <4>1, <5>1, <6>1 DEF IsStatus
        <5>4. CASE j = Len(wire[c]) + 1
          <6>1. \A k \in i + 1 .. Len(wire[c]) : ~IsStatus(c, k)
            BY <4>1, <5>3, <5>4
          <6>2. wire[c][i].nr = popped[c] - 1
            BY <2>2, <5>2, <6>1 DEF LastSent
          <6>. QED
            BY <1>2, <4>1, <5>2, <5>4, <6>2
        <5>5. CASE j # Len(wire[c]) + 1
          <6>1. j \in 1 .. Len(wire[c]) /\ IsStatus(c, j)
            BY <4>1, <5>1, <5>5 DEF IsStatus
          <6>2. wire[c][j].nr = wire[c][i].nr + 1
            BY <1>4, <4>1, <5>1, <5>2, <5>3, <6>1 DEF InOrder
          <6>. QED
            BY <4>1, <5>2, <6>1, <6>2
        <5>. QED
          BY <5>4, <5>5
      <4>. QED
        BY <4>2, <4>3
    <3>. QED
      BY <3>1, <3>2
  <2>5. Delivered(c)'
    BY <1>1, <2>2, <2>4 DEF Delivered
  <2>6. Flows(c)' /\ InOrder(c)'
    BY <1>5, <2>3, <2>4, <2>5 DEF Flows
  <2>. QED
    BY <1>1, <1>2, <1>3, <2>6, FlowOfWorkerTypes
<1>. QED
  BY <1>6, <1>7

LEMMA FlowOfStatusThread ==
    ASSUME FlowInv, RefInv, NEW c \in Clients, StatusThread(c)
    PROVE  FlowInv'
<1>. USE DEF loginVars
<1>1. CASE StatusStart(c)
  <2>1. /\ UNCHANGED <<thread, statuses, popped, terminate, fanoutVars, BackendList, peer, wire, dropping>>
        /\ \A d \in Clients : worker'[d] = "send" <=> worker[d] = "send"
    BY <1>1 DEF StatusStart, Working, RefInv, RefTypes
  <2>2. peer' \in [Clients -> {"none", "up", "down"}]
    BY <2>1 DEF FlowInv, FlowTypes
  <2>. QED
    BY <2>1, <2>2, QuietStep, FlowElsewhere
<1>2. CASE StatusWake(c) \/ StatusNext(c)
  BY <1>2, FlowOfProceed DEF StatusWake, StatusNext, Working
<1>. QED
  BY <1>1, <1>2, FlowOfSend DEF StatusThread

(* The work queue.                                                          *)
LEMMA FlowOfSendStatus == ASSUME FlowInv, SendStatus PROVE FlowInv'
<1>. USE DEF SendStatus, socketVars, statusVars, loginVars
<1>1. /\ raised \in Nat /\ StatusWorkQueue \in Seq(Nat) /\ Len(StatusWorkQueue) \in Nat
      /\ raised' = raised + 1 /\ StatusWorkQueue' = Append(StatusWorkQueue, raised + 1)
  BY DEF FlowInv, FlowTypes
<1>2. /\ StatusWorkQueue' \in Seq(Nat) /\ Len(StatusWorkQueue') = Len(StatusWorkQueue) + 1
      /\ \A i \in 1 .. Len(StatusWorkQueue) : StatusWorkQueue'[i] = StatusWorkQueue[i]
      /\ StatusWorkQueue'[Len(StatusWorkQueue) + 1] = raised + 1
  BY <1>1, AppendProperties
<1>3. Dispatched' = Dispatched
  BY <1>1, <1>2 DEF Dispatched
<1>4. Dispatching'
  BY <1>1, <1>2, <1>3 DEF FlowInv, Dispatching, Dispatched
<1>5. FlowTypes' /\ Enrolled'
  BY <1>1, <1>2 DEF FlowInv, FlowTypes, Enrolled
<1>6. ASSUME NEW d \in Clients PROVE Flows(d)' /\ InOrder(d)'
  <2>1. Flows(d) /\ InOrder(d) /\ Due(d)' = Due(d)
    BY DEF FlowInv, StatusesInOrder, Due
  <2>. QED
    BY <1>3, <2>1, FlowsKept
<1>. QED
  BY <1>4, <1>5, <1>6 DEF FlowInv, StatusesInOrder

LEMMA FlowOfRouteStatus == ASSUME FlowInv, RouteStatus PROVE FlowInv'
<1>. USE DEF RouteStatus, socketVars, statusVars, loginVars
<1>1. /\ StatusWorkQueue \in Seq(Nat) /\ raised \in Nat /\ StatusWorkQueue # <<>>
      /\ Len(StatusWorkQueue) \in Nat /\ Len(StatusWorkQueue) > 0 /\ StatusWorkQueue[1] \in Nat
      /\ ClientList \in Seq(Clients) /\ routing = Null
      /\ StatusWorkQueue' \in Seq(Nat) /\ Len(StatusWorkQueue') = Len(StatusWorkQueue) - 1
      /\ \A i \in 1 .. Len(StatusWorkQueue) - 1 : StatusWorkQueue'[i] = StatusWorkQueue[i + 1]
      /\ routing' = [nr |-> StatusWorkQueue[1], todo |-> ClientList]
  BY DEF FlowInv, FlowTypes
<1>2. /\ routing' \in [nr : Nat, todo : Seq(Clients)] /\ routing' # Null
      /\ routing'.nr = StatusWorkQueue[1] /\ routing'.todo = ClientList
  BY <1>1, NullAssumption
<1>3. Dispatched' = Dispatched + 1 /\ Dispatched \in Nat /\ StatusWorkQueue[1] = Dispatched + 1
  BY <1>1 DEF FlowInv, Dispatching, Dispatched
<1>4. Dispatching'
  <2>1. \A i \in 1 .. Len(StatusWorkQueue') : StatusWorkQueue'[i] = Dispatched' + i
    <3>1. TAKE i \in 1 .. Len(StatusWorkQueue')
    <3>2. i + 1 \in 1 .. Len(StatusWorkQueue) /\ i \in 1 .. Len(StatusWorkQueue) - 1
      BY <1>1
    <3>3. StatusWorkQueue[i + 1] = Dispatched + (i + 1)
      BY <3>2 DEF FlowInv, Dispatching
    <3>. QED
      BY <1>1, <1>3, <3>2, <3>3
  <2>2. Dispatched' \in Nat /\ routing'.nr = Dispatched' /\ Dispatched' > 0
    BY <1>2, <1>3
  <2>. QED
    BY <2>1, <2>2 DEF Dispatching
<1>5. FlowTypes' /\ Enrolled'
  BY <1>1, <1>2 DEF FlowInv, FlowTypes, Enrolled
<1>6. ASSUME NEW d \in Clients PROVE Flows(d)' /\ InOrder(d)'
  <2>1. Flows(d) /\ InOrder(d)
    BY DEF FlowInv, StatusesInOrder
  <2>2. ~Due(d) /\ (Due(d)' <=> \E i \in DOMAIN ClientList : ClientList[i] = d)
    BY <1>1, <1>2 DEF Due
  <2>3. CASE Due(d)'
    BY <1>3, <2>1, <2>2, <2>3, FlowsKept
  <2>4. CASE ~Due(d)'
    <3>1. (thread'[d] = "none" <=> peer'[d] = "none") /\ InOrder(d)'
      BY <2>1 DEF Flows, InOrder, IsStatus
    <3>2. ASSUME peer'[d] # "down"
          PROVE  Connected(d)' /\ Queued(d)' /\ Delivered(d)' /\ UpToDate(d)'
      <4>1. Connected(d) /\ Queued(d) /\ Delivered(d) /\ UpToDate(d)
        BY <2>1, <3>2 DEF Flows
      <4>2. Connected(d)' /\ Queued(d)' /\ Newest(d)' = Newest(d)
        BY <4>1 DEF Connected, Queued, Newest
      <4>3. Delivered(d)'
        BY <4>1 DEF Delivered, NoneSent, LastSent, IsStatus
      <4>4. UpToDate(d)'
        BY <2>2, <2>4, <4>1, <4>2 DEF UpToDate
      <4>. QED
        BY <4>2, <4>3, <4>4
    <3>. QED
      BY <3>1, <3>2 DEF Flows
  <2>. QED
    BY <2>3, <2>4
<1>. QED
  BY <1>4, <1>5, <1>6 DEF FlowInv, StatusesInOrder

LEMMA FlowOfRouteDone == ASSUME FlowInv, RouteStatusDone PROVE FlowInv'
<1>. USE DEF RouteStatusDone, socketVars, statusVars, loginVars
<1>1. FlowTypes' /\ Dispatching' /\ Enrolled'
  BY DEF FlowInv, FlowTypes, Dispatching, Dispatched, Enrolled
<1>2. ASSUME NEW d \in Clients PROVE Flows(d)' /\ InOrder(d)'
  <2>1. Flows(d) /\ InOrder(d) /\ Dispatched' = Dispatched
    BY DEF FlowInv, StatusesInOrder, Dispatched
  <2>2. ~Due(d) /\ ~Due(d)'
    BY DEF Due
  <2>. QED
    BY <2>1, <2>2, FlowsKept
<1>. QED
  BY <1>1, <1>2 DEF FlowInv, StatusesInOrder

(* A status is queued in front of what the client still has; a client whose *)
(* queue is full is closed.                                                 *)
LEMMA FlowOfRouteToClient ==
    ASSUME FlowInv, RouteToClient, NEW c \in Clients, c = Head(routing.todo)
    PROVE  FlowInv'
<1>. USE DEF loginVars
<1>1. /\ routing # Null /\ routing.todo \in Seq(Clients) /\ routing.nr \in Nat
      /\ Len(routing.todo) \in Nat /\ Len(routing.todo) > 0 /\ routing.todo # <<>>
      /\ routing \in [nr : Nat, todo : Seq(Clients)]
      /\ routing' = [routing EXCEPT !.todo = Tail(routing.todo)]
      /\ UNCHANGED <<wire, thread, BackendList, worker, popped, terminate, ClientList, raised,
                     StatusWorkQueue, dropping>>
  BY DEF FlowInv, FlowTypes, RouteToClient
<1>2. /\ routing.todo[1] = c
      /\ routing'.todo = Tail(routing.todo) /\ routing'.nr = routing.nr
      /\ routing' \in [nr : Nat, todo : Seq(Clients)]
      /\ Len(routing'.todo) = Len(routing.todo) - 1
      /\ \A i \in 1 .. Len(routing.todo) - 1 : routing'.todo[i] = routing.todo[i + 1]
  BY <1>1
<1>3. routing' # Null
  BY <1>2, NullAssumption
<1>4. Once(routing.todo) /\ \A i \in DOMAIN routing.todo : thread[routing.todo[i]] \notin Unlisted
  BY <1>1 DEF FlowInv, Enrolled
<1>5. Due(c) /\ ~Due(c)' /\ \A d \in Clients \ {c} : Due(d)' <=> Due(d)
  <2>1. 1 \in DOMAIN routing.todo /\ Due(c)
    BY <1>1, <1>2 DEF Due
  <2>2. \A i \in 1 .. Len(routing.todo) - 1 : routing.todo[i + 1] # c
    BY <1>1, <1>2, <1>4 DEF Once
  <2>3. ~Due(c)'
    BY <1>1, <1>2, <2>2 DEF Due
  <2>4. ASSUME NEW d \in Clients, d # c PROVE Due(d)' <=> Due(d)
    <3>1. ASSUME NEW i \in DOMAIN routing.todo, routing.todo[i] = d
          PROVE  \E j \in DOMAIN routing'.todo : routing'.todo[j] = d
      <4>1. i # 1
        BY <1>2, <2>4, <3>1
      <4>2. i - 1 \in 1 .. Len(routing.todo) - 1 /\ (i - 1) + 1 = i
        BY <1>1, <3>1, <4>1
      <4>3. i - 1 \in DOMAIN routing'.todo /\ routing'.todo[i - 1] = d
        BY <1>2, <3>1, <4>2
      <4>. QED
        BY <4>3
    <3>2. ASSUME NEW j \in DOMAIN routing'.todo, routing'.todo[j] = d
          PROVE  \E i \in DOMAIN routing.todo : routing.todo[i] = d
      <4>1. j \in 1 .. Len(routing.todo) - 1 /\ j + 1 \in DOMAIN routing.todo
        BY <1>1, <1>2, <3>2
      <4>. QED
        BY <1>2, <3>2, <4>1
    <3>. QED
      BY <1>1, <1>3, <3>1, <3>2 DEF Due
  <2>. QED
    BY <2>1, <2>3, <2>4
<1>6. Dispatched' = Dispatched /\ Dispatching'
  BY <1>1, <1>2 DEF FlowInv, Dispatching, Dispatched
<1>7. Enrolled'
  <2>1. Once(routing'.todo) /\ \A i \in DOMAIN routing'.todo : thread[routing'.todo[i]] \notin Unlisted
    <3>1. \A i \in DOMAIN routing'.todo :
              i \in 1 .. Len(routing.todo) - 1 /\ i + 1 \in DOMAIN routing.todo
      BY <1>1, <1>2
    <3>2. ASSUME NEW i \in DOMAIN routing'.todo
          PROVE  thread[routing'.todo[i]] \notin Unlisted
      BY <1>2, <1>4, <3>1
    <3>3. ASSUME NEW i \in DOMAIN routing'.todo, NEW j \in DOMAIN routing'.todo,
                 routing'.todo[i] = routing'.todo[j]
          PROVE  i = j
      <4>1. routing.todo[i + 1] = routing.todo[j + 1]
        BY <1>2, <3>1, <3>3
      <4>2. i + 1 = j + 1 /\ i \in Int /\ j \in Int
        BY <1>4, <3>1, <4>1 DEF Once
      <4>. QED
        BY <4>2
    <3>4. Once(routing'.todo)
      BY <3>3 DEF Once
    <3>. QED
      BY <3>2, <3>4
  <2>2. Enrolled
    BY DEF FlowInv
  <2>. QED
    BY <1>1, <2>1, <2>2 DEF Enrolled
<1>8. Flows(c) /\ InOrder(c) /\ thread[c] \notin Unlisted /\ Dispatched \in Nat
      /\ routing.nr = Dispatched /\ Dispatched > 0
      /\ statuses \in [Clients -> Seq(Nat)] /\ peer \in [Clients -> {"none", "up", "down"}]
      /\ terminate \in [Clients -> BOOLEAN] /\ popped[c] \in Nat
  <2>1. 1 \in DOMAIN routing.todo
    BY <1>1
  <2>. QED
    BY <1>1, <1>2, <1>4, <2>1 DEF FlowInv, StatusesInOrder, FlowTypes, Dispatching
(* What remains is the client itself.                                       *)
<1>9. ASSUME statuses' \in [Clients -> Seq(Nat)], peer' \in [Clients -> {"none", "up", "down"}],
             \A d \in Clients \ {c} : statuses'[d] = statuses[d] /\ peer'[d] = peer[d],
             Flows(c)'
      PROVE  FlowInv'
  <2>1. FlowTypes'
    BY <1>1, <1>2, <1>9 DEF FlowInv, FlowTypes
  <2>2. ASSUME NEW d \in Clients, d # c PROVE Flows(d)' /\ InOrder(d)'
    <3>1. Flows(d) /\ InOrder(d)
      BY DEF FlowInv, StatusesInOrder
    <3>2. Due(d)' <=> Due(d)
      BY <1>5, <2>2
    <3>. QED
      BY <1>1, <1>6, <1>9, <2>2, <3>1, <3>2, FlowsKept
  <2>3. InOrder(c)'
    <3>1. InOrder(c) /\ wire' = wire
      BY <1>1, <1>8
    <3>. QED
      BY <3>1 DEF InOrder, IsStatus
  <2>. QED
    BY <1>6, <1>7, <1>9, <2>1, <2>2, <2>3 DEF FlowInv, StatusesInOrder
<1>10. CASE Len(statuses[c]) >= MAX_STATUS_QUEUE_SIZE
  <2>1. statuses' = statuses /\ peer' = [peer EXCEPT ![c] = "down"]
    <3>1. Len(statuses[c]) \in Nat /\ ~(Len(statuses[c]) < MAX_STATUS_QUEUE_SIZE)
      BY <1>8, <1>10, QueueAssumption
    <3>2. Close(c) /\ statuses' = statuses
      BY <1>10, <3>1 DEF RouteToClient
    <3>. QED
      BY <3>2 DEF Close
  <2>2. Flows(c)'
    BY <1>1, <1>2, <1>8, <2>1, FlowsClosed DEF Unlisted
  <2>. QED
    BY <1>2, <1>8, <1>9, <2>1, <2>2
<1>11. CASE Len(statuses[c]) < MAX_STATUS_QUEUE_SIZE /\ ~terminate[c]
  <2>. DEFINE old == statuses[c]
              nr == routing.nr
              new == <<nr>> \o old
  <2>0. ~(Len(old) >= MAX_STATUS_QUEUE_SIZE)
    <3>1. Len(old) \in Nat
      BY <1>2, <1>8
    <3>. QED
      BY <1>11, <3>1, QueueAssumption
  <2>1. statuses' = [statuses EXCEPT ![c] = new] /\ peer' = peer
    BY <1>11, <2>0 DEF RouteToClient, QueueStatus
  <2>2. /\ old \in Seq(Nat) /\ Len(old) \in Nat /\ nr \in Nat /\ nr = Dispatched
    BY <1>1, <1>2, <1>8
  <2>. HIDE DEF nr
  <2>3. <<nr>> \in Seq(Nat) /\ Len(<<nr>>) = 1 /\ <<nr>>[1] = nr
    BY <2>2
  <2>4. /\ new \in Seq(Nat) /\ Len(new) = 1 + Len(old)
        /\ \A i \in 1 .. 1 + Len(old) : new[i] = IF i <= 1 THEN <<nr>>[i] ELSE old[i - 1]
    BY <2>2, <2>3, ConcatProperties
  <2>5. new[1] = nr /\ (\A i \in 2 .. 1 + Len(old) : new[i] = old[i - 1]) /\ new # <<>>
    <3>1. 1 \in 1 .. 1 + Len(old) /\ Len(new) > 0
      BY <2>2, <2>4
    <3>2. new # <<>>
      BY <3>1
    <3>. QED
      BY <2>2, <2>3, <2>4, <3>1, <3>2
  <2>. HIDE DEF new, old
  <2>6. statuses'[c] = new /\ statuses' \in [Clients -> Seq(Nat)] /\ old = statuses[c]
    BY <1>2, <1>8, <2>1, <2>4 DEF old
  <2>7. (thread'[c] = "none" <=> peer'[c] = "none")
    BY <1>1, <1>8, <2>1 DEF Flows
  <2>8. ASSUME peer'[c] # "down"
        PROVE  Connected(c)' /\ Queued(c)' /\ Delivered(c)' /\ UpToDate(c)'
    <3>1. Connected(c) /\ Queued(c) /\ Delivered(c) /\ UpToDate(c)
      BY <1>8, <2>1, <2>8 DEF Flows
    <3>2. Connected(c)'
      BY <1>1, <3>1 DEF Connected
    <3>3. Newest(c)' = Dispatched
      BY <2>2, <2>5, <2>6 DEF Newest
    <3>4. /\ \E i \in DOMAIN ClientList : ClientList[i] = c
          /\ Newest(c) # 0 => Newest(c) = Dispatched - 1
      BY <1>5, <1>8, <3>1 DEF UpToDate
    <3>5. UpToDate(c)'
      BY <1>1, <1>5, <1>6, <1>8, <3>3, <3>4 DEF UpToDate
    <3>6. Delivered(c)'
      BY <1>1, <3>1 DEF Delivered, NoneSent, LastSent, IsStatus
    <3>7. /\ \A i \in 1 .. Len(old) : old[i] = Newest(c) + 1 - i /\ old[i] > 0
          /\ old # <<>> => Newest(c) = old[1]
          /\ old # <<>> /\ popped[c] # 0 => old[Len(old)] = popped[c] + 1
          /\ old = <<>> => Newest(c) = popped[c]
      BY <2>6, <3>1 DEF Queued, Newest
    <3>8. old # <<>> => Newest(c) = Dispatched - 1 /\ Len(old) > 0
      BY <2>2, <3>4, <3>7
    <3>9. \A i \in 1 .. 1 + Len(old) : new[i] = Dispatched + 1 - i /\ new[i] > 0
      <4>1. TAKE i \in 1 .. 1 + Len(old)
      <4>2. CASE i = 1
        BY <1>8, <2>2, <2>5, <4>2
      <4>3. CASE i # 1
        <5>1. i \in 2 .. 1 + Len(old) /\ i - 1 \in 1 .. Len(old)
          BY <2>2, <4>1, <4>3
        <5>2. new[i] = old[i - 1] /\ old[i - 1] = Newest(c) + 1 - (i - 1) /\ old[i - 1] > 0
          BY <2>5, <3>7, <5>1
        <5>3. Len(old) # 0 /\ Len(<<>>) = 0
          BY <2>2, <5>1
        <5>4. Newest(c) = Dispatched - 1
          BY <3>8, <5>3
        <5>. QED
          BY <1>8, <5>1, <5>2, <5>4
      <4>. QED
        BY <4>2, <4>3
    <3>10. popped[c] # 0 => new[1 + Len(old)] = popped[c] + 1
      <4>1. SUFFICES ASSUME popped[c] # 0 PROVE new[1 + Len(old)] = popped[c] + 1
        OBVIOUS
      <4>2. CASE old = <<>>
        <5>1. Newest(c) = Dispatched - 1 /\ Newest(c) = popped[c] /\ 1 + Len(old) = 1
          BY <2>2, <3>4, <3>7, <4>1, <4>2
        <5>. QED
          BY <1>8, <2>2, <2>5, <5>1
      <4>3. CASE old # <<>>
        <5>1. 1 + Len(old) \in 2 .. 1 + Len(old) /\ (1 + Len(old)) - 1 = Len(old)
          BY <2>2, <3>8, <4>3
        <5>. QED
          BY <2>5, <3>7, <4>1, <4>3, <5>1
      <4>. QED
        BY <4>2, <4>3
    <3>11. Queued(c)'
      BY <1>1, <2>4, <2>6, <3>3, <3>9, <3>10 DEF Queued
    <3>. QED
      BY <3>2, <3>5, <3>6, <3>11
  <2>9. Flows(c)'
    BY <2>7, <2>8 DEF Flows
  <2>10. /\ peer' \in [Clients -> {"none", "up", "down"}]
         /\ \A d \in Clients \ {c} : statuses'[d] = statuses[d] /\ peer'[d] = peer[d]
    BY <1>8, <2>1
  <2>. QED
    BY <1>9, <2>6, <2>9, <2>10
<1>12. CASE /\ ~(Len(statuses[c]) >= MAX_STATUS_QUEUE_SIZE)
            /\ ~(Len(statuses[c]) < MAX_STATUS_QUEUE_SIZE /\ ~terminate[c])
  <2>1. statuses' = statuses /\ peer' = peer
    BY <1>12 DEF RouteToClient
  <2>2. Len(statuses[c]) \in Nat
    BY <1>2, <1>8
  <2>3. terminate[c]
    BY <1>12, <2>2, QueueAssumption
  <2>4. peer[c] = "down"
    BY <1>8, <2>3 DEF Flows, Connected
  <2>5. Flows(c)'
    BY <1>1, <1>2, <1>8, <2>1, <2>4, FlowsClosed DEF Unlisted
  <2>. QED
    BY <1>2, <1>8, <1>9, <2>1, <2>5
<1>. QED
  BY <1>10, <1>11, <1>12

LEMMA FlowInit == Init => FlowInv
<1>. SUFFICES ASSUME Init PROVE FlowInv
  OBVIOUS
<1>1. FlowTypes
  <2>1. <<>> \in Seq(Frame) /\ <<>> \in Seq(Nat) /\ <<>> \in Seq(Clients)
    OBVIOUS
  <2>. QED
    BY <2>1 DEF Init, FlowTypes
<1>2. Dispatching /\ Enrolled
  BY DEF Init, Dispatching, Dispatched, Enrolled, Once
<1>3. ASSUME NEW c \in Clients PROVE Flows(c) /\ InOrder(c)
  BY DEF Init, Flows, Connected, Queued, Newest, Delivered, NoneSent, LastSent, UpToDate,
         Unlisted, Gone, InOrder
<1>. QED
  BY <1>1, <1>2, <1>3 DEF FlowInv, StatusesInOrder

LEMMA FlowOfSocketThread ==
    ASSUME FlowInv, RefInv, NEW c \in Clients, SocketThread(c)
    PROVE  FlowInv'
<1>. USE DEF At, Routes, statusVars, fanoutVars, loginVars
<1>0. received[c] \in Nat /\ received \in [Clients -> Nat]
  BY DEF RefInv, RefTypes
<1>1. CASE Receive(c) \/ RouteLogin(c) \/ RouteUnknownType(c) \/ CallCallback(c) \/ CallbackReturns(c)
           \/ FreeCompleted(c)
  <2>1. PICK p \in Active : Goto(c, p)
    BY <1>1 DEF Receive, RouteLogin, RouteUnknownType, CallCallback, CallbackReturns, FreeCompleted, Active
  <2>2. UNCHANGED wire /\ thread[c] \in Active
        /\ UNCHANGED <<peer, statusVars, fanoutVars, BackendList, dropping>>
    BY <1>1 DEF Receive, RouteLogin, RouteUnknownType, CallCallback, CallbackReturns, FreeCompleted, Active
  <2>3. wire' \in [Clients -> Seq(Frame)] /\ \A d \in Clients : Quiet(d)
    BY <2>2, QuietStep
  <2>. QED
    BY <2>1, <2>2, <2>3, FlowOfMessage
<1>2. CASE RouteNak(c) \/ LoginAccept(c) \/ SendAck(c) \/ RespondNow(c)
  <2>1. PICK p \in Active : Goto(c, p)
    BY <1>2 DEF RouteNak, LoginAccept, SendAck, RespondNow, Active
  <2>2. thread[c] \in Active /\ UNCHANGED <<peer, statusVars, fanoutVars, BackendList, dropping>>
    BY <1>2 DEF RouteNak, LoginAccept, SendAck, RespondNow, Active
  <2>3. PICK k \in {"Nak", "Accept", "Ack", "Response"} : Transmit(c, [kind |-> k, nr |-> received[c]])
    <3>1. CASE RouteNak(c) \/ LoginAccept(c) \/ SendAck(c)
      BY <3>1 DEF RouteNak, LoginAccept, SendAck
    <3>2. CASE RespondNow(c)
      <4>1. Message(c).client = c /\ Message(c).nr = received[c]
        BY <3>2, InHandFacts DEF RespondNow, InHand
      <4>. QED
        BY <3>2, <4>1 DEF RespondNow, Respond
    <3>. QED
      BY <1>2, <3>1, <3>2
  <2>4. [kind |-> k, nr |-> received[c]] \in Frame /\ [kind |-> k, nr |-> received[c]].kind # "Status"
    BY <1>0 DEF Frame
  <2>5. wire' \in [Clients -> Seq(Frame)] /\ \A d \in Clients : Quiet(d)
    BY <2>3, <2>4, QuietAnswer
  <2>. QED
    BY <2>1, <2>2, <2>5, FlowOfMessage
<1>3. CASE RefuseLogin(c) \/ CompletionFreed(c)
  <2>1. /\ UNCHANGED <<wire, peer, worker, thread, statuses, popped, terminate, fanoutVars, BackendList,
                       dropping>>
        /\ peer' \in [Clients -> {"none", "up", "down"}]
    BY <1>3 DEF RefuseLogin, CompletionFreed, socketVars, FlowInv, FlowTypes
  <2>2. wire' \in [Clients -> Seq(Frame)] /\ \A d \in Clients : Quiet(d)
    BY <2>1, QuietStep
  <2>. QED
    BY <2>1, <2>2, FlowElsewhere
<1>. QED
  BY <1>1, <1>2, <1>3, FlowOfConnecting, FlowOfLeaving, FlowOfListClient, FlowOfDestroy DEF SocketThread

LEMMA FlowOfApplication == ASSUME FlowInv, RefInv, Application PROVE FlowInv'
<1>. USE DEF statusVars, fanoutVars, loginVars
<1>1. PICK m \in messages :
          \/ CompletePendingCommand(m) \/ CompleteInCallback(m) \/ RespondInCallback(m)
          \/ FinishPosted(m) \/ FinishUnposted(m) \/ MarkComplete(m)
  BY DEF Application
<1>2. m.client \in Clients /\ m.nr \in Nat
  BY DEF RefInv, MessagesApart, CiiMessage
<1>3. UNCHANGED <<peer, worker, thread, statuses, popped, terminate, fanoutVars, BackendList, dropping>>
  BY <1>1 DEF CompletePendingCommand, CompleteInCallback, RespondInCallback, FinishPosted,
              FinishUnposted, MarkComplete
<1>4. wire' \in [Clients -> Seq(Frame)] /\ \A d \in Clients : Quiet(d)
  <2>1. CASE FinishPosted(m) \/ FinishUnposted(m) \/ MarkComplete(m)
    BY <2>1, QuietStep DEF FinishPosted, FinishUnposted, MarkComplete
  <2>2. ASSUME NEW k \in {"Ack", "Response"}, Transmit(m.client, [kind |-> k, nr |-> m.nr])
        PROVE  wire' \in [Clients -> Seq(Frame)] /\ \A d \in Clients : Quiet(d)
    <3>1. [kind |-> k, nr |-> m.nr] \in Frame /\ [kind |-> k, nr |-> m.nr].kind # "Status"
      BY <1>2 DEF Frame
    <3>. QED
      BY <1>2, <2>2, <3>1, QuietAnswer
  <2>3. CASE CompletePendingCommand(m) \/ CompleteInCallback(m) \/ RespondInCallback(m)
    BY <2>2, <2>3 DEF CompletePendingCommand, CompleteInCallback, RespondInCallback, Respond
  <2>. QED
    BY <1>1, <2>1, <2>3
<1>5. peer' \in [Clients -> {"none", "up", "down"}]
  BY <1>3 DEF FlowInv, FlowTypes
<1>. QED
  BY <1>3, <1>4, <1>5, FlowElsewhere

(* Steps that close a connection, or look for one to close.                 *)
LEMMA FlowOfClosing ==
    ASSUME FlowInv, UNCHANGED vars \/ DropClose \/ \E c \in Clients : DropFind(c) \/ HangUp(c)
    PROVE  FlowInv'
<1>. USE DEF statusVars, fanoutVars, loginVars, socketVars
<1>1. UNCHANGED <<wire, worker, thread, statuses, popped, terminate, fanoutVars, BackendList>>
  BY DEF vars, DropClose, DropFind, HangUp
<1>2. wire' \in [Clients -> Seq(Frame)] /\ \A d \in Clients : Quiet(d)
  BY <1>1, QuietStep
<1>3. /\ peer \in [Clients -> {"none", "up", "down"}] /\ dropping \in Clients \cup {Null}
      /\ dropping # Null => thread[dropping] # "none"
      /\ \A d \in Clients : thread[d] = "none" <=> peer[d] = "none"
      /\ BackendList \in Seq(Clients)
  BY DEF FlowInv, FlowTypes, Flows, Enrolled, Unlisted
<1>4. /\ peer' \in [Clients -> {"none", "up", "down"}]
      /\ \A d \in Clients : peer'[d] = peer[d] \/ (peer'[d] = "down" /\ thread[d] # "none")
  <2>1. ASSUME NEW c \in Clients, thread[c] # "none", Close(c)
        PROVE  /\ peer' \in [Clients -> {"none", "up", "down"}]
               /\ \A d \in Clients : peer'[d] = peer[d] \/ (peer'[d] = "down" /\ thread[d] # "none")
    BY <1>3, <2>1 DEF Close
  <2>2. CASE UNCHANGED peer
    BY <1>3, <2>2
  <2>. QED
    BY <1>3, <2>1, <2>2 DEF vars, DropClose, DropFind, HangUp
<1>5. dropping' = Null \/ dropping' = dropping
          \/ \E i \in DOMAIN BackendList : dropping' = BackendList[i]
  BY DEF vars, DropClose, DropFind, HangUp, Range
<1>. QED
  BY <1>1, <1>2, <1>4, <1>5, FlowElsewhere

LEMMA FlowNext == FlowInv /\ RefInv /\ [Next]_vars => FlowInv'
<1>. SUFFICES ASSUME FlowInv, RefInv, [Next]_vars PROVE FlowInv'
  OBVIOUS
<1>1. ASSUME RouteToClient PROVE FlowInv'
  <2>1. Head(routing.todo) \in Clients
    BY <1>1 DEF RouteToClient, FlowInv, FlowTypes
  <2>. QED
    BY <1>1, <2>1, FlowOfRouteToClient
<1>. QED
  BY <1>1, FlowOfConnecting, FlowOfSocketThread, FlowOfStatusThread, FlowOfApplication, FlowOfSendStatus,
     FlowOfRouteStatus, FlowOfRouteDone, FlowOfClosing DEF Next, WorkQueueThread

(* A client is sent the statuses in the order they were raised and misses   *)
(* none between the first and the last it gets, whatever the queues hold    *)
(* and whoever closes the connection (CiiSendStatus, RouteStatusMessage,    *)
(* CiiStatusThread).                                                        *)
THEOREM StatusesSentInOrder == Spec => []StatusesInOrder
<1>1. FlowInv => StatusesInOrder
  BY DEF FlowInv
<1>. QED
  BY RefInit, RefNext, FlowInit, FlowNext, <1>1, PTL DEF Spec
-----------------------------------------------------------------------------
(* The answers to a message, from its routing to its freeing.               *)
Unanswered(c, nr) == \A i \in 1 .. Len(wire[c]) : ~Answer(c, nr, i)
Acked(c, nr) ==
    /\ \A i \in 1 .. Len(wire[c]) : Answer(c, nr, i) => wire[c][i].kind = "Ack"
    /\ peer[c] = "up" => Answered(c, nr, "Ack")
Started == {"route", "accept", "callback", "completion"}

(* How far a message has come.  Only a message that its callback completes  *)
(* is completed before MsPostCallback, and it is complete when that is set. *)
Stage(m) ==
    /\ m.nr > 0
    /\ m.doing # "none" => Does(m) = "MsCompleted" /\ m.acks = 0
    /\ m.complete <=> m.doing = "done"
    /\ m.posted /\ Does(m) = "MsCompleted" => m.complete
    /\ m.nr = received[m.client] =>
        /\ thread[m.client] \in Started => m.acks = 0
        /\ thread[m.client] \in {"route", "accept"} => m.doing = "none"
        /\ thread[m.client] = "completion" => m.posted
    /\ m.acks = 0 /\ m.doing = "none" => Unanswered(m.client, m.nr)
    /\ m.acks > 0 \/ m.doing = "respond" => Acked(m.client, m.nr)
    /\ m.doing \in {"finish", "mark", "done"} /\ peer[m.client] = "up" =>
          Answered(m.client, m.nr, "Response")

AnswerFlow(c) ==
    /\ \A i \in 1 .. Len(wire[c]) : ~IsStatus(c, i) => wire[c][i].nr \in 1 .. received[c]
    /\ thread[c] = "none" => received[c] = 0
    /\ \A m \in messages : m.client = c => Stage(m)
    /\ \A nr \in 1 .. received[c] : AckThenResponse(c, nr) /\ FreedAnswered(c, nr)

AnswerInv == ~app.early => \A c \in Clients : AnswerFlow(c)

(* A step that sends one frame leaves the answers to other messages alone.  *)
Extended(c, nr) ==
    \/ wire'[c] = wire[c]
    \/ \E f \in Frame : (f.kind = "Status" \/ f.nr = nr) /\ Appended(c, f)
Typing == wire \in [Clients -> Seq(Frame)] /\ wire' \in [Clients -> Seq(Frame)]

LEMMA OthersAnswers ==
    ASSUME Typing, NEW c \in Clients, NEW nr, Extended(c, nr), NEW other, other # nr,
           peer'[c] = peer[c] \/ peer'[c] = "down"
    PROVE  /\ Unanswered(c, other) => Unanswered(c, other)'
           /\ Acked(c, other) => Acked(c, other)'
           /\ \A kind : Answered(c, other, kind) => Answered(c, other, kind)'
           /\ AckThenResponse(c, other) => AckThenResponse(c, other)'
<1>0. /\ Len(wire[c]) \in Nat /\ DOMAIN wire[c] = 1 .. Len(wire[c])
      /\ Len(wire'[c]) \in Nat /\ DOMAIN wire'[c] = 1 .. Len(wire'[c])
  BY DEF Typing
<1>1. /\ Len(wire'[c]) >= Len(wire[c])
      /\ \A i \in 1 .. Len(wire[c]) : wire'[c][i] = wire[c][i]
      /\ \A i \in 1 .. Len(wire'[c]) : i \in 1 .. Len(wire[c]) \/ ~Answer(c, other, i)'
  <2>1. CASE wire'[c] = wire[c]
    BY <1>0, <2>1
  <2>2. ASSUME NEW f \in Frame, f.kind = "Status" \/ f.nr = nr, Appended(c, f)
        PROVE  /\ Len(wire'[c]) >= Len(wire[c])
               /\ \A i \in 1 .. Len(wire[c]) : wire'[c][i] = wire[c][i]
               /\ \A i \in 1 .. Len(wire'[c]) : i \in 1 .. Len(wire[c]) \/ ~Answer(c, other, i)'
    BY <1>0, <2>2 DEF Appended, Answer
  <2>. QED
    BY <2>1, <2>2 DEF Extended
<1>2. \A i \in 1 .. Len(wire[c]) : Answer(c, other, i)' <=> Answer(c, other, i)
  BY <1>1 DEF Answer
<1>3. Unanswered(c, other) => Unanswered(c, other)'
  BY <1>0, <1>1, <1>2 DEF Unanswered
<1>4. \A kind : Answered(c, other, kind) => Answered(c, other, kind)'
  BY <1>0, <1>1, <1>2 DEF Answered
<1>5. Acked(c, other) => Acked(c, other)'
  BY <1>0, <1>1, <1>2, <1>4 DEF Acked
<1>6. AckThenResponse(c, other) => AckThenResponse(c, other)'
  <2>1. SUFFICES ASSUME AckThenResponse(c, other), NEW j \in DOMAIN wire'[c], Answer(c, other, j)'
                 PROVE  /\ \A i \in 1 .. j - 1 : Answer(c, other, i)' =>
                              wire'[c][i].kind = "Ack" /\ wire'[c][j].kind = "Response"
                        /\ wire'[c][j].kind = "Response" => \E i \in 1 .. j - 1 : Answer(c, other, i)'
    BY DEF AckThenResponse
  <2>2. j \in 1 .. Len(wire[c]) /\ Answer(c, other, j)
    BY <1>0, <1>1, <1>2, <2>1
  <2>3. \A i \in 1 .. j - 1 : i \in 1 .. Len(wire[c])
    BY <1>0, <2>2
  <2>. QED
    BY <1>0, <1>1, <1>2, <2>1, <2>2, <2>3 DEF AckThenResponse
<1>. QED
  BY <1>3, <1>4, <1>5, <1>6

(* The first answer to a message.                                           *)
LEMMA FirstAnswer ==
    ASSUME wire \in [Clients -> Seq(Frame)], NEW c \in Clients, NEW nr \in Nat, Unanswered(c, nr),
           NEW kind \in {"Nak", "Accept", "Ack"}, Transmit(c, [kind |-> kind, nr |-> nr])
    PROVE  /\ Typing /\ Extended(c, nr) /\ \A d \in Clients \ {c} : wire'[d] = wire[d]
           /\ AckThenResponse(c, nr)'
           /\ \A i \in 1 .. Len(wire'[c]) : Answer(c, nr, i)' => wire'[c][i].kind = kind
           /\ peer[c] = "up" => Answered(c, nr, kind)'
<1>. DEFINE f == [kind |-> kind, nr |-> nr]
<1>1. f \in Frame /\ f.kind = kind /\ f.nr = nr /\ kind # "Status" /\ kind # "Response"
  BY DEF Frame
<1>2. /\ wire' \in [Clients -> Seq(Frame)]
      /\ \A d \in Clients \ {c} : wire'[d] = wire[d]
      /\ IF peer[c] = "up" THEN Appended(c, f) ELSE wire'[c] = wire[c]
  BY <1>1, Transmitted
<1>. HIDE DEF f
<1>3. /\ Len(wire[c]) \in Nat /\ DOMAIN wire[c] = 1 .. Len(wire[c])
      /\ Len(wire'[c]) \in Nat /\ DOMAIN wire'[c] = 1 .. Len(wire'[c])
  BY <1>2
<1>. PICK n \in Nat : n = Len(wire[c]) + 1
  BY <1>3
<1>4. CASE peer[c] = "up"
  <2>1. /\ Len(wire'[c]) = n /\ Extended(c, nr)
        /\ \A i \in 1 .. Len(wire[c]) : ~Answer(c, nr, i)'
        /\ Answer(c, nr, n)' /\ wire'[c][n].kind = kind
    <3>1. Extended(c, nr)
      BY <1>1, <1>2, <1>4 DEF Extended
    <3>2. /\ Len(wire'[c]) = n /\ wire'[c][n] = f
          /\ \A i \in 1 .. Len(wire[c]) : wire'[c][i] = wire[c][i]
      BY <1>2, <1>4 DEF Appended
    <3>. QED
      BY <1>1, <3>1, <3>2 DEF Unanswered, Answer
  <2>2. \A i \in 1 .. Len(wire'[c]) : Answer(c, nr, i)' => i = n
    BY <1>3, <2>1
  <2>3. Answered(c, nr, kind)'
    <3>1. n \in DOMAIN wire'[c]
      BY <1>3, <2>1
    <3>. QED
      BY <2>1, <3>1 DEF Answered
  <2>4. AckThenResponse(c, nr)'
    BY <1>1, <1>3, <2>1, <2>2 DEF AckThenResponse
  <2>. QED
    BY <1>2, <2>1, <2>2, <2>3, <2>4 DEF Typing
<1>5. CASE peer[c] # "up"
  BY <1>2, <1>3, <1>5 DEF Typing, Extended, Unanswered, Answer, AckThenResponse
<1>. QED
  BY <1>4, <1>5

(* The response to a message that has its ACK.                              *)
LEMMA FinalAnswer ==
    ASSUME wire \in [Clients -> Seq(Frame)], NEW c \in Clients, NEW nr \in Nat, Acked(c, nr),
           AckThenResponse(c, nr), Transmit(c, [kind |-> "Response", nr |-> nr])
    PROVE  /\ Typing /\ Extended(c, nr) /\ \A d \in Clients \ {c} : wire'[d] = wire[d]
           /\ AckThenResponse(c, nr)'
           /\ peer[c] = "up" => Answered(c, nr, "Response")'
<1>. DEFINE f == [kind |-> "Response", nr |-> nr]
<1>1. f \in Frame /\ f.kind = "Response" /\ f.nr = nr
  BY DEF Frame
<1>2. /\ wire' \in [Clients -> Seq(Frame)]
      /\ \A d \in Clients \ {c} : wire'[d] = wire[d]
      /\ IF peer[c] = "up" THEN Appended(c, f) ELSE wire'[c] = wire[c]
  BY <1>1, Transmitted
<1>. HIDE DEF f
<1>3. /\ Len(wire[c]) \in Nat /\ DOMAIN wire[c] = 1 .. Len(wire[c])
      /\ Len(wire'[c]) \in Nat /\ DOMAIN wire'[c] = 1 .. Len(wire'[c])
  BY <1>2
<1>. PICK n \in Nat : n = Len(wire[c]) + 1
  BY <1>3
<1>4. CASE peer[c] = "up"
  <2>1. /\ Len(wire'[c]) = n /\ Extended(c, nr)
        /\ \A i \in 1 .. Len(wire[c]) : Answer(c, nr, i)' <=> Answer(c, nr, i)
        /\ \A i \in 1 .. Len(wire[c]) : wire'[c][i] = wire[c][i]
        /\ Answer(c, nr, n)' /\ wire'[c][n].kind = "Response"
    <3>1. Extended(c, nr)
      BY <1>1, <1>2, <1>4 DEF Extended
    <3>2. /\ Len(wire'[c]) = n /\ wire'[c][n] = f
          /\ \A i \in 1 .. Len(wire[c]) : wire'[c][i] = wire[c][i]
      BY <1>2, <1>4 DEF Appended
    <3>. QED
      BY <1>1, <3>1, <3>2 DEF Answer
  <2>2. PICK a \in 1 .. Len(wire[c]) : Answer(c, nr, a)
    BY <1>3, <1>4 DEF Acked, Answered
  <2>3. Answered(c, nr, "Response")'
    <3>1. n \in DOMAIN wire'[c]
      BY <1>3, <2>1
    <3>. QED
      BY <2>1, <3>1 DEF Answered
  <2>4. AckThenResponse(c, nr)'
    <3>1. SUFFICES ASSUME NEW j \in DOMAIN wire'[c], Answer(c, nr, j)'
                   PROVE  /\ \A i \in 1 .. j - 1 : Answer(c, nr, i)' =>
                                wire'[c][i].kind = "Ack" /\ wire'[c][j].kind = "Response"
                          /\ wire'[c][j].kind = "Response" => \E i \in 1 .. j - 1 : Answer(c, nr, i)'
      BY DEF AckThenResponse
    <3>2. CASE j = n
      <4>1. j - 1 = Len(wire[c])
        BY <1>3, <3>2
      <4>2. \A i \in 1 .. Len(wire[c]) : Answer(c, nr, i)' => wire'[c][i].kind = "Ack"
        BY <2>1 DEF Acked
      <4>3. wire'[c][j].kind = "Response" /\ a \in 1 .. j - 1 /\ Answer(c, nr, a)'
        BY <2>1, <2>2, <3>2, <4>1
      <4>. QED
        BY <4>1, <4>2, <4>3
    <3>3. CASE j # n
      <4>1. j \in 1 .. Len(wire[c]) /\ Answer(c, nr, j)
        BY <1>3, <2>1, <3>1, <3>3
      <4>2. \A i \in 1 .. j - 1 : i \in 1 .. Len(wire[c])
        BY <1>3, <4>1
      <4>3. \A i \in 1 .. j - 1 : (Answer(c, nr, i)' <=> Answer(c, nr, i)) /\ wire'[c][i] = wire[c][i]
        BY <2>1, <4>2
      <4>4. /\ \A i \in 1 .. j - 1 : Answer(c, nr, i) => wire[c][i].kind = "Ack" /\ wire[c][j].kind = "Response"
            /\ wire[c][j].kind = "Response" => \E i \in 1 .. j - 1 : Answer(c, nr, i)
        BY <1>3, <4>1 DEF AckThenResponse
      <4>5. wire'[c][j] = wire[c][j]
        BY <2>1, <4>1
      <4>. QED
        BY <4>3, <4>4, <4>5
    <3>. QED
      BY <3>2, <3>3
  <2>. QED
    BY <1>2, <2>1, <2>3, <2>4 DEF Typing
<1>5. CASE peer[c] # "up"
  BY <1>2, <1>3, <1>5 DEF Typing, Extended, Answer, AckThenResponse
<1>. QED
  BY <1>4, <1>5

(* A step that concerns message nr of client c, if any.                     *)
Onward(c, nr) ==
    /\ thread'[c] = "none" => thread[c] = "none"
    /\ thread'[c] \in Started => thread[c] \in Started
    /\ thread'[c] \in {"route", "accept"} => thread[c] \in {"route", "accept"}
    /\ thread'[c] = "completion" => thread[c] = "completion" \/ nr = received[c]

LEMMA StageKept ==
    ASSUME Typing, app' = app, NEW m, m.client \in Clients, NEW nr, nr # m.nr, Stage(m),
           Extended(m.client, nr), Onward(m.client, nr), received'[m.client] = received[m.client],
           peer'[m.client] = peer[m.client] \/ peer'[m.client] = "down"
    PROVE  Stage(m)'
<1>1. /\ Unanswered(m.client, m.nr) => Unanswered(m.client, m.nr)'
      /\ Acked(m.client, m.nr) => Acked(m.client, m.nr)'
      /\ \A kind : Answered(m.client, m.nr, kind) => Answered(m.client, m.nr, kind)'
  BY OthersAnswers
<1>2. Does(m)' = Does(m)
  BY DEF Does, Script
<1>3. /\ m.nr > 0
      /\ m.doing # "none" => Does(m)' = "MsCompleted" /\ m.acks = 0
      /\ m.complete <=> m.doing = "done"
      /\ m.posted /\ Does(m)' = "MsCompleted" => m.complete
  BY <1>2 DEF Stage
<1>4. m.nr = received'[m.client] =>
        /\ thread'[m.client] \in Started => m.acks = 0
        /\ thread'[m.client] \in {"route", "accept"} => m.doing = "none"
        /\ thread'[m.client] = "completion" => m.posted
  BY DEF Stage, Onward
<1>5. /\ m.acks = 0 /\ m.doing = "none" => Unanswered(m.client, m.nr)'
      /\ m.acks > 0 \/ m.doing = "respond" => Acked(m.client, m.nr)'
      /\ m.doing \in {"finish", "mark", "done"} /\ peer'[m.client] = "up" =>
            Answered(m.client, m.nr, "Response")'
  BY <1>1 DEF Stage
<1>. QED
  BY <1>3, <1>4, <1>5 DEF Stage

(* What the step has to show of that message; the others are as they were.  *)
LEMMA AnswersOfStep ==
    ASSUME Typing, app' = app, NEW c \in Clients, received[c] \in Nat, AnswerFlow(c),
           NEW nr \in 1 .. received[c], Extended(c, nr), Onward(c, nr), received'[c] = received[c],
           peer'[c] = peer[c] \/ peer'[c] = "down",
           \A m : m.client = c /\ m.nr # nr => (m \in messages' <=> m \in messages),
           \A m \in messages' : m.client = c /\ m.nr = nr => Stage(m)',
           AckThenResponse(c, nr)', FreedAnswered(c, nr)'
    PROVE  AnswerFlow(c)'
<1>1. \A i \in 1 .. Len(wire'[c]) : ~IsStatus(c, i)' => wire'[c][i].nr \in 1 .. received[c]
  <2>1. CASE wire'[c] = wire[c]
    BY <2>1 DEF AnswerFlow, IsStatus
  <2>2. ASSUME NEW f \in Frame, f.kind = "Status" \/ f.nr = nr, Appended(c, f)
        PROVE  \A i \in 1 .. Len(wire'[c]) : ~IsStatus(c, i)' => wire'[c][i].nr \in 1 .. received[c]
    <3>1. Len(wire[c]) \in Nat
      BY DEF Typing
    <3>2. TAKE i \in 1 .. Len(wire'[c])
    <3>3. i \in 1 .. Len(wire[c]) \/ i = Len(wire[c]) + 1
      BY <2>2, <3>1 DEF Appended
    <3>. QED
      BY <2>2, <3>3 DEF Appended, AnswerFlow, IsStatus
  <2>. QED
    BY <2>1, <2>2 DEF Extended
<1>2. thread'[c] = "none" => received[c] = 0
  BY DEF AnswerFlow, Onward
<1>3. ASSUME NEW m \in messages', m.client = c, m.nr # nr PROVE Stage(m)'
  <2>1. m \in messages /\ Stage(m)
    BY <1>3 DEF AnswerFlow
  <2>. QED
    BY <1>3, <2>1, StageKept
<1>4. ASSUME NEW other \in 1 .. received[c], other # nr
      PROVE  AckThenResponse(c, other)' /\ FreedAnswered(c, other)'
  <2>1. AckThenResponse(c, other) /\ FreedAnswered(c, other)
    BY <1>4 DEF AnswerFlow
  <2>2. AckThenResponse(c, other)' /\ \A kind : Answered(c, other, kind) => Answered(c, other, kind)'
    BY <1>4, <2>1, OthersAnswers
  <2>3. (\E m \in messages : m.client = c /\ m.nr = other)
            => \E m \in messages' : m.client = c /\ m.nr = other
    BY <1>4
  <2>. QED
    BY <2>1, <2>2, <2>3 DEF FreedAnswered
<1>. QED
  BY <1>1, <1>2, <1>3, <1>4 DEF AnswerFlow

(* Nothing of the client but statuses, its place or a close.                *)
LEMMA AnswersKept ==
    ASSUME Typing, app' = app, NEW c \in Clients, received[c] \in Nat, AnswerFlow(c),
           wire'[c] = wire[c] \/ \E f \in Frame : f.kind = "Status" /\ Appended(c, f),
           Onward(c, 0), thread'[c] = "completion" => thread[c] = "completion",
           received'[c] = received[c], peer'[c] = peer[c] \/ peer'[c] = "down",
           \A m : m.client = c => (m \in messages' <=> m \in messages)
    PROVE  AnswerFlow(c)'
<1>0. \A nr : Extended(c, nr) /\ Onward(c, nr)
  BY DEF Extended, Onward
<1>1. \A i \in 1 .. Len(wire'[c]) : ~IsStatus(c, i)' => wire'[c][i].nr \in 1 .. received[c]
  <2>1. CASE wire'[c] = wire[c]
    BY <2>1 DEF AnswerFlow, IsStatus
  <2>2. ASSUME NEW f \in Frame, f.kind = "Status", Appended(c, f)
        PROVE  \A i \in 1 .. Len(wire'[c]) : ~IsStatus(c, i)' => wire'[c][i].nr \in 1 .. received[c]
    <3>1. Len(wire[c]) \in Nat
      BY DEF Typing
    <3>2. TAKE i \in 1 .. Len(wire'[c])
    <3>3. i \in 1 .. Len(wire[c]) \/ i = Len(wire[c]) + 1
      BY <2>2, <3>1 DEF Appended
    <3>. QED
      BY <2>2, <3>3 DEF Appended, AnswerFlow, IsStatus
  <2>. QED
    BY <2>1, <2>2
<1>2. thread'[c] = "none" => received[c] = 0
  BY DEF AnswerFlow, Onward
<1>3. ASSUME NEW m \in messages', m.client = c PROVE Stage(m)'
  <2>1. m \in messages /\ Stage(m)
    BY <1>3 DEF AnswerFlow
  <2>2. PICK nr : nr # m.nr
    OBVIOUS
  <2>. QED
    BY <1>0, <1>3, <2>1, <2>2, StageKept
<1>4. ASSUME NEW other \in 1 .. received[c] PROVE AckThenResponse(c, other)' /\ FreedAnswered(c, other)'
  <2>1. AckThenResponse(c, other) /\ FreedAnswered(c, other)
    BY <1>4 DEF AnswerFlow
  <2>2. AckThenResponse(c, other)' /\ \A kind : Answered(c, other, kind) => Answered(c, other, kind)'
    <3>1. 0 # other
      OBVIOUS
    <3>. QED
      BY <1>0, <2>1, <3>1, OthersAnswers
  <2>3. (\E m \in messages : m.client = c /\ m.nr = other)
            => \E m \in messages' : m.client = c /\ m.nr = other
    OBVIOUS
  <2>. QED
    BY <2>1, <2>2, <2>3 DEF FreedAnswered
<1>. QED
  BY <1>1, <1>2, <1>3, <1>4 DEF AnswerFlow

LEMMA AnswersQuiet ==
    ASSUME AnswerInv, FlowInv, RefInv, FlowInv', UNCHANGED <<app, received, messages>>,
           \A d \in Clients : wire'[d] = wire[d] \/ \E f \in Frame : f.kind = "Status" /\ Appended(d, f),
           \A d \in Clients : peer'[d] = peer[d] \/ peer'[d] = "down",
           \A d \in Clients :
               \/ thread'[d] = thread[d] \/ thread'[d] \notin Started \cup {"none"}
               \/ thread[d] = "route" /\ thread'[d] \in {"accept", "callback"}
    PROVE  AnswerInv'
<1>. SUFFICES ASSUME ~app.early, NEW c \in Clients PROVE AnswerFlow(c)'
  BY DEF AnswerInv
<1>1. Typing /\ received[c] \in Nat /\ AnswerFlow(c)
  BY DEF Typing, FlowInv, FlowTypes, RefInv, RefTypes, AnswerInv
<1>2. Onward(c, 0) /\ (thread'[c] = "completion" => thread[c] = "completion")
  BY DEF Onward, Started
<1>. QED
  BY <1>1, <1>2, AnswersKept

LEMMA AnswersOfMessage ==
    ASSUME AnswerInv, FlowInv, RefInv, Typing, UNCHANGED <<app, received, peer>>, ~app.early,
           NEW m \in messages, NEW n,
           \A d \in Clients \ {m.client} : wire'[d] = wire[d] /\ thread'[d] = thread[d],
           Extended(m.client, m.nr), Onward(m.client, m.nr), AckThenResponse(m.client, m.nr)',
           \/ messages' = messages \ {m} /\ FreedAnswered(m.client, m.nr)'
           \/ Change(m, n) /\ n.client = m.client /\ n.nr = m.nr /\ Stage(n)'
    PROVE  AnswerInv'
<1>. SUFFICES ASSUME NEW c \in Clients PROVE AnswerFlow(c)'
  BY DEF AnswerInv
<1>1. received[c] \in Nat /\ AnswerFlow(c)
  BY DEF RefInv, RefTypes, AnswerInv
<1>2. m.client \in Clients /\ m.nr \in Nat /\ m.nr <= received[m.client]
      /\ \A o \in messages : o.client = m.client /\ o.nr = m.nr => o = m
  BY DEF RefInv, MessagesApart, CiiMessage
<1>3. CASE c # m.client
  <2>1. \A o : o.client = c => (o \in messages' <=> o \in messages)
    BY <1>3 DEF Change
  <2>2. wire'[c] = wire[c] /\ Onward(c, 0) /\ (thread'[c] = "completion" => thread[c] = "completion")
    BY <1>3 DEF Onward
  <2>. QED
    BY <1>1, <2>1, <2>2, AnswersKept
<1>4. CASE c = m.client
  <2>1. m.nr \in 1 .. received[c]
    BY <1>1, <1>2, <1>4 DEF AnswerFlow, Stage
  <2>2. \A o : o.client = c /\ o.nr # m.nr => (o \in messages' <=> o \in messages)
    BY <1>4 DEF Change
  <2>3. \A o \in messages' : o.client = c /\ o.nr = m.nr => Stage(o)'
    BY <1>2, <1>4 DEF Change
  <2>4. FreedAnswered(c, m.nr)'
    BY <1>4 DEF Change, FreedAnswered
  <2>. QED
    BY <1>1, <1>4, <2>1, <2>2, <2>3, <2>4, AnswersOfStep
<1>. QED
  BY <1>3, <1>4

LEMMA AnswersOfReceive ==
    ASSUME AnswerInv, FlowInv, RefInv, NEW c \in Clients, Receive(c)
    PROVE  AnswerInv'
<1>. USE DEF Receive, At, Goto
<1>. SUFFICES ASSUME ~app.early, NEW d \in Clients PROVE AnswerFlow(d)'
  BY DEF AnswerInv
<1>. PICK m : m = [client |-> c, nr |-> received[c] + 1, posted |-> FALSE, complete |-> FALSE,
                   acks |-> 0, doing |-> "none"]
  OBVIOUS
<1>1. /\ Typing /\ received \in [Clients -> Nat] /\ AnswerFlow(d)
      /\ thread[c] = "receive" /\ thread'[c] = "route" /\ \A e \in Clients \ {c} : thread'[e] = thread[e]
      /\ DOMAIN wire[d] = 1 .. Len(wire[d])
  BY DEF Typing, FlowInv, FlowTypes, RefInv, RefTypes, AnswerInv
<1>2. /\ messages' = messages \cup {m} /\ received'[c] = received[c] + 1
      /\ \A e \in Clients \ {c} : received'[e] = received[e]
  BY <1>1
<1>3. m.client = c /\ m.nr = received[c] + 1 /\ m.posted = FALSE /\ m.complete = FALSE
      /\ m.acks = 0 /\ m.doing = "none"
  OBVIOUS
<1>4. CASE d # c
  <2>1. \A o : o.client = d => (o \in messages' <=> o \in messages)
    BY <1>2, <1>3, <1>4
  <2>2. Onward(d, 0) /\ (thread'[d] = "completion" => thread[d] = "completion")
        /\ received'[d] = received[d]
    BY <1>1, <1>2, <1>4 DEF Onward
  <2>. QED
    BY <1>1, <2>1, <2>2, AnswersKept
<1>5. CASE d = c
  <2>1. received[c] \in Nat /\ 1 .. received'[c] = 1 .. received[c] \cup {received[c] + 1}
    BY <1>1, <1>2
  <2>2. \A i \in 1 .. Len(wire[c]) : ~IsStatus(c, i) =>
            wire[c][i].nr \in 1 .. received[c] /\ wire[c][i].nr # received[c] + 1
    BY <1>1, <1>5, <2>1 DEF AnswerFlow
  <2>3. Unanswered(c, m.nr)
    BY <1>3, <2>2 DEF Unanswered, Answer, IsStatus
  <2>4. Stage(m)'
    BY <1>1, <1>2, <1>3, <2>1, <2>3 DEF Stage, Unanswered, Answer
  <2>5. ASSUME NEW o \in messages, o.client = c PROVE Stage(o)'
    <3>1. Stage(o) /\ o.nr # received'[c]
      BY <1>1, <1>2, <1>5, <2>1, <2>5 DEF AnswerFlow, RefInv, MessagesApart, CiiMessage
    <3>2. Does(o)' = Does(o) /\ Unanswered(c, o.nr)' = Unanswered(c, o.nr)
          /\ Acked(c, o.nr)' = Acked(c, o.nr)
          /\ Answered(c, o.nr, "Response")' = Answered(c, o.nr, "Response")
      BY DEF Does, Script, Unanswered, Acked, Answered, Answer
    <3>. QED
      BY <2>5, <3>1, <3>2 DEF Stage
  <2>6. ASSUME NEW nr \in 1 .. received[c] PROVE AckThenResponse(c, nr)' /\ FreedAnswered(c, nr)'
    <3>1. AckThenResponse(c, nr) /\ FreedAnswered(c, nr)
      BY <1>1, <1>5, <2>6 DEF AnswerFlow
    <3>. QED
      BY <1>2, <3>1 DEF AckThenResponse, FreedAnswered, Answered, Answer
  <2>7. AckThenResponse(c, m.nr)' /\ FreedAnswered(c, m.nr)'
    <3>1. AckThenResponse(c, m.nr)'
      BY <1>1, <1>5, <2>3 DEF Unanswered, AckThenResponse, Answer
    <3>. QED
      BY <1>2, <1>3, <3>1 DEF FreedAnswered
  <2>8. \A i \in 1 .. Len(wire'[c]) : ~IsStatus(c, i)' => wire'[c][i].nr \in 1 .. received'[c]
    BY <2>1, <2>2 DEF IsStatus
  <2>. QED
    BY <1>1, <1>2, <1>3, <1>5, <2>1, <2>4, <2>5, <2>6, <2>7, <2>8 DEF AnswerFlow
<1>. QED
  BY <1>4, <1>5

LEMMA AnswersOfAccept ==
    ASSUME AnswerInv, FlowInv, RefInv, NEW c \in Clients, Accept(c)
    PROVE  AnswerInv'
<1>. USE DEF Accept, At, Goto
<1>. SUFFICES ASSUME ~app.early, NEW d \in Clients PROVE AnswerFlow(d)'
  BY DEF AnswerInv
<1>1. /\ Typing /\ received \in [Clients -> Nat] /\ AnswerFlow(d)
      /\ thread[c] = "none" /\ thread'[c] = "register" /\ \A e \in Clients \ {c} : thread'[e] = thread[e]
      /\ \A e \in Clients \ {c} : peer'[e] = peer[e]
  BY DEF Typing, FlowInv, FlowTypes, RefInv, RefTypes, AnswerInv
<1>2. CASE d # c
  <2>1. Onward(d, 0) /\ (thread'[d] = "completion" => thread[d] = "completion") /\ peer'[d] = peer[d]
        /\ received'[d] = received[d] /\ received[d] \in Nat
    BY <1>1, <1>2 DEF Onward
  <2>. QED
    BY <1>1, <2>1, AnswersKept
<1>3. CASE d = c
  <2>1. received[c] = 0 /\ \A m \in messages : m.client # c
    BY <1>1, <1>3 DEF AnswerFlow, RefInv, Handling
  <2>2. \A nr \in 1 .. received'[c] : FALSE
    BY <2>1
  <2>3. \A i \in 1 .. Len(wire[c]) : IsStatus(c, i)
    BY <1>1, <1>3, <2>1 DEF AnswerFlow
  <2>. QED
    BY <1>1, <1>3, <2>1, <2>2, <2>3 DEF AnswerFlow, IsStatus
<1>. QED
  BY <1>2, <1>3

(* The socket thread between messages, and the other threads.               *)
LEMMA AnswersOfPlaces ==
    ASSUME AnswerInv, FlowInv, RefInv, FlowInv', NEW c \in Clients,
           \/ CreateStatusThread(c) \/ ListClient(c) \/ ListBackend(c) \/ ReceiveFails(c)
           \/ RefuseLogin(c) \/ RouteLogin(c) \/ RouteUnknownType(c) \/ CallCallback(c)
           \/ CompletionFreed(c) \/ Unregister(c) \/ DestroyStatusWorker(c) \/ PostTerminate(c) \/ Release(c)
    PROVE  AnswerInv'
<1>. USE DEF At, Goto, Routes, socketVars, Close
<1>1. /\ thread \in [Clients -> Places] /\ peer \in [Clients -> {"none", "up", "down"}]
      /\ DOMAIN thread = Clients
  BY DEF RefInv, RefTypes, FlowInv, FlowTypes
<1>2. UNCHANGED <<app, received, messages, wire>>
  BY DEF CreateStatusThread, ListClient, ListBackend, ReceiveFails, RefuseLogin, RouteLogin,
         RouteUnknownType, CallCallback, CompletionFreed, Unregister, DestroyStatusWorker, PostTerminate,
         Release
<1>3. \A d \in Clients : peer'[d] = peer[d] \/ peer'[d] = "down"
  <2>1. CASE ReceiveFails(c)
    BY <1>1, <2>1 DEF ReceiveFails
  <2>. QED
    BY <2>1 DEF CreateStatusThread, ListClient, ListBackend, RefuseLogin, RouteLogin,
         RouteUnknownType, CallCallback, CompletionFreed, Unregister, DestroyStatusWorker, PostTerminate,
         Release
<1>4. ASSUME NEW d \in Clients
      PROVE  \/ thread'[d] = thread[d] \/ thread'[d] \notin Started \cup {"none"}
             \/ thread[d] = "route" /\ thread'[d] \in {"accept", "callback"}
  <2>1. CASE RouteLogin(c) \/ CallCallback(c)
    BY <1>1, <2>1 DEF RouteLogin, CallCallback
  <2>2. CASE RefuseLogin(c) \/ CompletionFreed(c)
    BY <2>2 DEF RefuseLogin, CompletionFreed
  <2>. QED
    BY <1>1, <2>1, <2>2 DEF CreateStatusThread, ListClient, ListBackend, ReceiveFails,
         RouteUnknownType, Unregister, DestroyStatusWorker, PostTerminate, Release, Started
<1>. QED
  BY <1>2, <1>3, <1>4, AnswersQuiet

LEMMA AnswersElsewhere ==
    ASSUME AnswerInv, FlowInv, RefInv, FlowInv',
           \/ SendStatus \/ WorkQueueThread \/ DropClose \/ UNCHANGED vars
           \/ \E c \in Clients : StatusThread(c) \/ DropFind(c) \/ HangUp(c)
    PROVE  AnswerInv'
<1>. USE DEF socketVars, Close
<1>1. peer \in [Clients -> {"none", "up", "down"}] /\ wire \in [Clients -> Seq(Frame)]
      /\ popped \in [Clients -> Nat]
  BY DEF FlowInv, FlowTypes
<1>2. ASSUME NEW c \in Clients, StatusSend(c)
      PROVE  AnswerInv'
  <2>1. [kind |-> "Status", nr |-> popped[c]] \in Frame
        /\ [kind |-> "Status", nr |-> popped[c]].kind = "Status"
    BY <1>1 DEF Frame
  <2>2. \A d \in Clients : wire'[d] = wire[d] \/ \E f \in Frame : f.kind = "Status" /\ Appended(d, f)
    BY <1>1, <1>2, <2>1, Transmitted DEF StatusSend
  <2>3. UNCHANGED <<app, received, messages, peer, thread>>
    BY <1>2 DEF StatusSend
  <2>. QED
    BY <2>2, <2>3, AnswersQuiet
<1>3. ASSUME UNCHANGED <<app, received, messages, wire, thread>>,
             \A d \in Clients : peer'[d] = peer[d] \/ peer'[d] = "down"
      PROVE  AnswerInv'
  BY <1>3, AnswersQuiet
<1>4. ASSUME NEW c \in Clients, StatusStart(c) \/ StatusWake(c) \/ StatusNext(c) \/ DropFind(c) \/ HangUp(c)
      PROVE  AnswerInv'
  BY <1>1, <1>3, <1>4 DEF StatusStart, StatusWake, StatusNext, DropFind, HangUp
<1>5. CASE SendStatus \/ DropClose \/ RouteStatus \/ RouteStatusDone \/ UNCHANGED vars
  BY <1>1, <1>3, <1>5 DEF SendStatus, DropClose, RouteStatus, RouteStatusDone, vars
<1>6. CASE RouteToClient
  <2>1. \A d \in Clients : peer'[d] = peer[d] \/ peer'[d] = "down"
    <3>1. UNCHANGED peer \/ Close(Head(routing.todo))
      BY <1>6 DEF RouteToClient
    <3>. QED
      BY <1>1, <3>1
  <2>. QED
    BY <1>3, <1>6, <2>1 DEF RouteToClient
<1>. QED
  BY <1>2, <1>4, <1>5, <1>6 DEF WorkQueueThread, StatusThread

(* The steps that answer a message or bring it further.                     *)
LEMMA StageOf ==
    ASSUME AnswerInv, RefInv, ~app.early, NEW m \in messages
    PROVE  /\ Stage(m) /\ m \in CiiMessage /\ m.client \in Clients /\ m.nr \in Nat
           /\ AckThenResponse(m.client, m.nr)
<1>1. m \in CiiMessage /\ m.client \in Clients /\ m.nr \in Nat /\ m.nr <= received[m.client]
      /\ received[m.client] \in Nat
  BY DEF RefInv, RefTypes, MessagesApart, CiiMessage
<1>2. AnswerFlow(m.client)
  BY <1>1 DEF AnswerInv
<1>3. Stage(m)
  BY <1>2 DEF AnswerFlow
<1>4. m.nr \in 1 .. received[m.client]
  BY <1>1, <1>3 DEF Stage
<1>. QED
  BY <1>1, <1>2, <1>3, <1>4 DEF AnswerFlow

LEMMA AnswersOfFinal ==
    ASSUME AnswerInv, FlowInv, RefInv, NEW c \in Clients, RouteNak(c) \/ LoginAccept(c)
    PROVE  AnswerInv'
<1>. SUFFICES ASSUME ~app.early PROVE AnswerInv'
  BY DEF AnswerInv, RouteNak, LoginAccept
<1>1. PICK m \in messages : m = Message(c) /\ m.client = c /\ m.nr = received[c]
  BY InHandFacts DEF InHand, RouteNak, LoginAccept, Routes, At
<1>2. Stage(m) /\ m.nr \in Nat
  BY StageOf
<1>3. Unanswered(c, m.nr)
  BY <1>1, <1>2 DEF Stage, Started, RouteNak, LoginAccept, Routes, At
<1>4. PICK kind \in {"Nak", "Accept", "Ack"} :
          kind # "Ack" /\ Transmit(c, [kind |-> kind, nr |-> m.nr])
  BY <1>1 DEF RouteNak, LoginAccept
<1>5. wire \in [Clients -> Seq(Frame)] /\ thread \in [Clients -> Places]
  BY DEF FlowInv, FlowTypes, RefInv, RefTypes
<1>6. /\ Typing /\ Extended(c, m.nr) /\ \A d \in Clients \ {c} : wire'[d] = wire[d]
      /\ AckThenResponse(c, m.nr)' /\ (peer[c] = "up" => Answered(c, m.nr, kind)')
  BY <1>2, <1>3, <1>4, <1>5, FirstAnswer
<1>7. messages' = messages \ {m} /\ UNCHANGED <<app, received, peer>>
  BY <1>1 DEF RouteNak, LoginAccept, Free
<1>8. FreedAnswered(c, m.nr)'
  BY <1>4, <1>6, <1>7 DEF FreedAnswered
<1>9. Onward(c, m.nr) /\ \A d \in Clients \ {c} : thread'[d] = thread[d]
  BY <1>5 DEF Onward, Started, RouteNak, LoginAccept, Goto
<1>. QED
  BY <1>1, <1>6, <1>7, <1>8, <1>9, AnswersOfMessage

LEMMA AnswersOfReturn ==
    ASSUME AnswerInv, FlowInv, RefInv, NEW c \in Clients, CallbackReturns(c)
    PROVE  AnswerInv'
<1>. USE DEF CallbackReturns, At, Goto
<1>. SUFFICES ASSUME ~app.early PROVE AnswerInv'
  BY DEF AnswerInv
<1>1. PICK m \in messages : m = Message(c) /\ m.client = c /\ m.nr = received[c]
  BY InHandFacts DEF InHand
<1>2. Stage(m) /\ m \in CiiMessage /\ AckThenResponse(c, m.nr)
  BY <1>1, StageOf
<1>3. wire \in [Clients -> Seq(Frame)] /\ thread \in [Clients -> Places]
  BY DEF FlowInv, FlowTypes, RefInv, RefTypes
<1>4. PICK n : n = [m EXCEPT !.posted = TRUE]
  OBVIOUS
<1>5. /\ n.client = m.client /\ n.nr = m.nr /\ n.posted = TRUE /\ n.complete = m.complete
      /\ n.acks = m.acks /\ n.doing = m.doing
  BY <1>2, <1>4 DEF CiiMessage
<1>6. Change(m, n) /\ UNCHANGED <<app, received, peer, wire>> /\ thread'[c] = "completion"
      /\ \A d \in Clients \ {c} : thread'[d] = thread[d]
  BY <1>1, <1>3, <1>4
<1>7. Does(m) = "MsCompleted" => m.complete
  BY <1>1 DEF Does, Current
<1>8. Stage(n)'
  <2>1. /\ Does(n)' = Does(m) /\ Unanswered(c, m.nr)' = Unanswered(c, m.nr)
        /\ Acked(c, m.nr)' = Acked(c, m.nr)
        /\ Answered(c, m.nr, "Response")' = Answered(c, m.nr, "Response")
    BY <1>5, <1>6 DEF Does, Script, Unanswered, Acked, Answered, Answer
  <2>. QED
    BY <1>1, <1>2, <1>5, <1>6, <1>7, <2>1 DEF Stage, Started
<1>9. Extended(c, m.nr) /\ Onward(c, m.nr) /\ Typing /\ AckThenResponse(c, m.nr)'
  BY <1>1, <1>2, <1>3, <1>6 DEF Extended, Onward, Started, Typing, AckThenResponse, Answer
<1>. QED
  BY <1>1, <1>5, <1>6, <1>8, <1>9, AnswersOfMessage

LEMMA AnswersOfFreeing ==
    ASSUME AnswerInv, FlowInv, RefInv, NEW m \in messages,
           \/ FinishPosted(m)
           \/ \E c \in Clients : /\ At(c, "completion") /\ Goto(c, "receive") /\ UNCHANGED <<app, peer, received, wire>>
                                 /\ m \in Handles(c) /\ m.complete /\ Free(m)
    PROVE  AnswerInv'
<1>. USE DEF FinishPosted, Completing, At, Goto, Free
<1>. SUFFICES ASSUME ~app.early PROVE AnswerInv'
  BY DEF AnswerInv
<1>1. Stage(m) /\ m.client \in Clients /\ AckThenResponse(m.client, m.nr)
  BY StageOf
<1>2. messages' = messages \ {m} /\ UNCHANGED <<app, received, peer, wire>>
  OBVIOUS
<1>3. wire \in [Clients -> Seq(Frame)] /\ thread \in [Clients -> Places]
  BY DEF FlowInv, FlowTypes, RefInv, RefTypes
<1>4. FreedAnswered(m.client, m.nr)'
  <2>1. peer[m.client] = "up" => Answered(m.client, m.nr, "Response")
    BY <1>1 DEF Stage
  <2>. QED
    BY <1>2, <2>1 DEF FreedAnswered, Answered, Answer
<1>5. Extended(m.client, m.nr) /\ Typing /\ AckThenResponse(m.client, m.nr)'
  BY <1>1, <1>2, <1>3 DEF Extended, Typing, AckThenResponse, Answer
<1>6. Onward(m.client, m.nr) /\ \A d \in Clients \ {m.client} : thread'[d] = thread[d]
  BY <1>1, <1>3 DEF Onward, Started, Handles
<1>. QED
  BY <1>1, <1>2, <1>4, <1>5, <1>6, AnswersOfMessage

LEMMA AnswersOfAck ==
    ASSUME AnswerInv, FlowInv, RefInv, NEW c \in Clients, SendAck(c)
    PROVE  AnswerInv'
<1>. USE DEF SendAck, At, Goto
<1>. SUFFICES ASSUME ~app.early PROVE AnswerInv'
  BY DEF AnswerInv
<1>1. PICK m \in messages : m.client = c /\ m.nr = received[c] /\ ~m.complete
                            /\ Change(m, [m EXCEPT !.acks = @ + 1])
  BY DEF Handles
<1>2. Stage(m) /\ m \in CiiMessage /\ m.nr \in Nat
  BY <1>1, StageOf
<1>3. wire \in [Clients -> Seq(Frame)] /\ thread \in [Clients -> Places]
  BY DEF FlowInv, FlowTypes, RefInv, RefTypes
<1>4. PICK n : n = [m EXCEPT !.acks = @ + 1]
  OBVIOUS
<1>5. m.acks = 0 /\ m.doing = "none" /\ m.posted /\ Does(m) # "MsCompleted" /\ Unanswered(c, m.nr)
  BY <1>1, <1>2 DEF Stage, Started
<1>6. /\ n.client = m.client /\ n.nr = m.nr /\ n.posted = m.posted /\ n.complete = m.complete
      /\ n.acks = 1 /\ n.doing = m.doing
  <2>1. /\ n.client = m.client /\ n.nr = m.nr /\ n.posted = m.posted /\ n.complete = m.complete
        /\ n.acks = m.acks + 1 /\ n.doing = m.doing
    BY <1>2, <1>4 DEF CiiMessage
  <2>. QED
    BY <1>5, <2>1
<1>7. /\ Change(m, n) /\ UNCHANGED <<app, received, peer>> /\ thread[c] = "completion"
      /\ thread'[c] \in {"receive", "respond"} /\ \A d \in Clients \ {c} : thread'[d] = thread[d]
      /\ Transmit(c, [kind |-> "Ack", nr |-> m.nr])
  BY <1>1, <1>3, <1>4
<1>8. PICK kind \in {"Nak", "Accept", "Ack"} : kind = "Ack"
  OBVIOUS
<1>9. /\ Typing /\ Extended(c, m.nr) /\ \A d \in Clients \ {c} : wire'[d] = wire[d]
      /\ AckThenResponse(c, m.nr)'
      /\ \A i \in 1 .. Len(wire'[c]) : Answer(c, m.nr, i)' => wire'[c][i].kind = kind
      /\ peer[c] = "up" => Answered(c, m.nr, kind)'
  BY <1>2, <1>3, <1>5, <1>7, <1>8, FirstAnswer
<1>10. Acked(c, m.nr)'
  BY <1>7, <1>8, <1>9 DEF Acked
<1>11. Stage(n)'
  <2>1. Does(n)' = Does(m)
    BY <1>6, <1>7 DEF Does, Script
  <2>. QED
    BY <1>1, <1>2, <1>5, <1>6, <1>7, <1>10, <2>1 DEF Stage, Started
<1>12. Onward(c, m.nr)
  BY <1>7 DEF Onward, Started
<1>. QED
  BY <1>1, <1>6, <1>7, <1>9, <1>11, <1>12, AnswersOfMessage

LEMMA AnswersOfResponse ==
    ASSUME AnswerInv, FlowInv, RefInv, NEW m \in messages, m.acks > 0,
           Transmit(m.client, [kind |-> "Response", nr |-> m.nr]), Free(m),
           UNCHANGED <<app, peer, received>>,
           thread' = thread \/ Goto(m.client, "receive")
    PROVE  AnswerInv'
<1>. USE DEF Goto, Free
<1>. SUFFICES ASSUME ~app.early PROVE AnswerInv'
  BY DEF AnswerInv
<1>1. Stage(m) /\ m.client \in Clients /\ m.nr \in Nat /\ AckThenResponse(m.client, m.nr)
  BY StageOf
<1>2. wire \in [Clients -> Seq(Frame)] /\ thread \in [Clients -> Places]
  BY DEF FlowInv, FlowTypes, RefInv, RefTypes
<1>3. Acked(m.client, m.nr)
  BY <1>1 DEF Stage
<1>4. /\ Typing /\ Extended(m.client, m.nr) /\ \A d \in Clients \ {m.client} : wire'[d] = wire[d]
      /\ AckThenResponse(m.client, m.nr)'
      /\ peer[m.client] = "up" => Answered(m.client, m.nr, "Response")'
  BY <1>1, <1>2, <1>3, FinalAnswer
<1>5. FreedAnswered(m.client, m.nr)'
  BY <1>4 DEF FreedAnswered
<1>6. Onward(m.client, m.nr) /\ \A d \in Clients \ {m.client} : thread'[d] = thread[d]
  BY <1>1, <1>2 DEF Onward, Started
<1>7. messages' = messages \ {m}
  OBVIOUS
<1>. QED
  BY <1>4, <1>5, <1>6, <1>7, AnswersOfMessage

(* A command that is completed before MsPostCallback.                       *)
LEMMA AnswersOfCompleting ==
    ASSUME AnswerInv, FlowInv, RefInv, NEW m \in messages,
           CompleteInCallback(m) \/ RespondInCallback(m) \/ FinishUnposted(m) \/ MarkComplete(m)
    PROVE  AnswerInv'
<1>. USE DEF CompleteInCallback, RespondInCallback, FinishUnposted, MarkComplete, Completing
<1>. SUFFICES ASSUME ~app.early PROVE AnswerInv'
  BY DEF AnswerInv
<1>1. /\ Stage(m) /\ m \in CiiMessage /\ m.client \in Clients /\ m.nr \in Nat
      /\ AckThenResponse(m.client, m.nr)
  BY StageOf
<1>2. wire \in [Clients -> Seq(Frame)]
  BY DEF FlowInv, FlowTypes
<1>3. Does(m) = "MsCompleted"
  BY <1>1 DEF Stage, Kept
<1>4. UNCHANGED <<app, received, peer, thread>> /\ Onward(m.client, m.nr)
  BY DEF Onward
<1>5. ASSUME NEW n, n.client = m.client, n.nr = m.nr, n.posted = m.posted, n.acks = m.acks,
             n.complete <=> n.doing = "done", n.doing # "none", Change(m, n), m.acks = 0,
             m.posted => n.complete,
             ~(thread[m.client] \in {"route", "accept"} /\ m.nr = received[m.client]),
             Typing, Extended(m.client, m.nr), \A d \in Clients \ {m.client} : wire'[d] = wire[d],
             AckThenResponse(m.client, m.nr)',
             n.doing = "respond" => Acked(m.client, m.nr)',
             n.doing \in {"finish", "mark", "done"} /\ peer[m.client] = "up" =>
                 Answered(m.client, m.nr, "Response")'
      PROVE  AnswerInv'
  <2>1. Does(n)' = Does(m)
    BY <1>4, <1>5 DEF Does, Script
  <2>2. Stage(n)'
    BY <1>1, <1>3, <1>4, <1>5, <2>1 DEF Stage
  <2>. QED
    BY <1>4, <1>5, <2>2, AnswersOfMessage
<1>6. ASSUME UNCHANGED wire
      PROVE  /\ Typing /\ Extended(m.client, m.nr) /\ \A d \in Clients \ {m.client} : wire'[d] = wire[d]
             /\ AckThenResponse(m.client, m.nr)'
             /\ Answered(m.client, m.nr, "Response") => Answered(m.client, m.nr, "Response")'
  BY <1>1, <1>2, <1>6 DEF Typing, Extended, AckThenResponse, Answered, Answer
<1>7. CASE CompleteInCallback(m)
  <2>1. m.nr = received[m.client] /\ thread[m.client] = "callback" /\ m.doing = "none" /\ ~m.posted
    BY <1>7 DEF Handles
  <2>2. m.acks = 0 /\ Unanswered(m.client, m.nr)
    BY <1>1, <2>1 DEF Stage, Started
  <2>3. PICK n : n = [m EXCEPT !.doing = "respond"]
    OBVIOUS
  <2>4. /\ n.client = m.client /\ n.nr = m.nr /\ n.posted = m.posted /\ n.acks = m.acks
        /\ n.complete = m.complete /\ n.doing = "respond" /\ Change(m, n)
    BY <1>1, <1>7, <2>3 DEF CiiMessage
  <2>5. PICK kind \in {"Nak", "Accept", "Ack"} : kind = "Ack"
    OBVIOUS
  <2>6. /\ Typing /\ Extended(m.client, m.nr) /\ \A d \in Clients \ {m.client} : wire'[d] = wire[d]
        /\ AckThenResponse(m.client, m.nr)'
        /\ \A i \in 1 .. Len(wire'[m.client]) : Answer(m.client, m.nr, i)' => wire'[m.client][i].kind = kind
        /\ peer[m.client] = "up" => Answered(m.client, m.nr, kind)'
    BY <1>1, <1>2, <1>7, <2>2, <2>5, FirstAnswer
  <2>7. Acked(m.client, m.nr)'
    BY <1>4, <2>5, <2>6 DEF Acked
  <2>8. n.complete <=> n.doing = "done"
    BY <1>1, <2>1, <2>4 DEF Stage
  <2>. QED
    BY <1>5, <2>1, <2>2, <2>4, <2>6, <2>7, <2>8
<1>8. CASE ~CompleteInCallback(m)
  <2>1. m.doing \in {"respond", "finish", "mark"}
    BY <1>8
  <2>2. m.acks = 0 /\ ~m.complete /\ ~m.posted
        /\ ~(thread[m.client] \in {"route", "accept"} /\ m.nr = received[m.client])
    BY <1>1, <1>3, <2>1 DEF Stage
  <2>3. CASE RespondInCallback(m)
    <3>1. PICK n : n = [m EXCEPT !.doing = "finish"]
      OBVIOUS
    <3>2. /\ n.client = m.client /\ n.nr = m.nr /\ n.posted = m.posted /\ n.acks = m.acks
          /\ n.complete = m.complete /\ n.doing = "finish" /\ Change(m, n)
      BY <1>1, <2>3, <3>1 DEF CiiMessage
    <3>3. Acked(m.client, m.nr)
      BY <1>1, <2>3 DEF Stage
    <3>4. /\ Typing /\ Extended(m.client, m.nr) /\ \A d \in Clients \ {m.client} : wire'[d] = wire[d]
          /\ AckThenResponse(m.client, m.nr)'
          /\ peer[m.client] = "up" => Answered(m.client, m.nr, "Response")'
      BY <1>1, <1>2, <2>3, <3>3, FinalAnswer
    <3>. QED
      BY <1>5, <2>2, <3>2, <3>4
  <2>4. CASE FinishUnposted(m) \/ MarkComplete(m)
    <3>1. peer[m.client] = "up" => Answered(m.client, m.nr, "Response")
      BY <1>1, <2>4 DEF Stage
    <3>2. UNCHANGED wire
      BY <2>4
    <3>3. PICK n : /\ Change(m, n)
                   /\ \/ n = [m EXCEPT !.doing = "mark"]
                      \/ n = [m EXCEPT !.complete = TRUE, !.doing = "done"]
      BY <2>4
    <3>4. /\ n.client = m.client /\ n.nr = m.nr /\ n.posted = m.posted /\ n.acks = m.acks
          /\ n.doing \in {"mark", "done"} /\ n.complete = (IF n.doing = "done" THEN TRUE ELSE m.complete)
      BY <1>1, <3>3 DEF CiiMessage
    <3>. QED
      BY <1>5, <1>6, <2>2, <3>1, <3>2, <3>3, <3>4
  <2>. QED
    BY <1>8, <2>3, <2>4
<1>. QED
  BY <1>7, <1>8

LEMMA AnswerNext == AnswerInv /\ FlowInv /\ RefInv /\ FlowInv' /\ [Next]_vars => AnswerInv'
<1>. SUFFICES ASSUME AnswerInv, FlowInv, RefInv, FlowInv', [Next]_vars PROVE AnswerInv'
  OBVIOUS
<1>1. ASSUME NEW c \in Clients, FreeCompleted(c) PROVE AnswerInv'
  BY <1>1, AnswersOfFreeing DEF FreeCompleted, Handles
<1>2. ASSUME NEW c \in Clients, RespondNow(c) PROVE AnswerInv'
  <2>1. Message(c) \in messages /\ Message(c).client = c
    BY <1>2, InHandFacts DEF RespondNow, At, InHand
  <2>. QED
    BY <1>2, <2>1, AnswersOfResponse DEF RespondNow, Respond, AckAwaited
<1>3. CASE Application
  <2>1. ASSUME NEW m \in messages, CompletePendingCommand(m) PROVE AnswerInv'
    BY <2>1, AnswersOfResponse DEF CompletePendingCommand, Respond, AckAwaited
  <2>. QED
    BY <1>3, <2>1, AnswersOfFreeing, AnswersOfCompleting DEF Application
<1>4. ASSUME NEW c \in Clients, SocketThread(c) PROVE AnswerInv'
  BY <1>1, <1>2, <1>4, AnswersOfPlaces, AnswersOfReceive, AnswersOfFinal, AnswersOfReturn, AnswersOfAck
     DEF SocketThread
<1>. QED
  BY <1>3, <1>4, AnswersOfAccept, AnswersElsewhere DEF Next

LEMMA AnswerInit == Init => AnswerInv
<1>. SUFFICES ASSUME Init, NEW c \in Clients PROVE AnswerFlow(c)
  BY DEF AnswerInv
<1>1. wire[c] = <<>> /\ received[c] = 0 /\ messages = {}
  BY DEF Init
<1>2. Len(<<>>) = 0
  OBVIOUS
<1>. QED
  BY <1>1, <1>2 DEF AnswerFlow

(* A client is answered once for each message, with the ACK before the      *)
(* response, and a message is not freed before its client was answered,     *)
(* whichever of the threads that know it gets there first                   *)
(* (CiiBackendRouteReceivedMessage, HandleMessageCompletion,                *)
(* CiiCompletePendingCommand).                                              *)
THEOREM AnswersSentInOrder == Spec => []AnswersInOrder
<1>1. AnswerInv => AnswersInOrder
  BY DEF AnswerInv, AnswerFlow, AnswersInOrder
<1>. QED
  BY RefInit, RefNext, FlowInit, FlowNext, AnswerInit, AnswerNext, <1>1, PTL DEF Spec

-----------------------------------------------------------------------------
(* Waking the status thread.  What StatusNoticed says of a thread that was  *)
(* created holds before that too: nothing then awaits it.                   *)
Noticed(c) ==
    worker[c] \in {"none", "start", "wait"} /\ semaphore[c] = 0 =>
        statuses[c] = <<>> /\ (terminate[c] => thread[c] = "post")
NoticeInv == semaphore \in [Clients -> Nat] /\ \A c \in Clients : Noticed(c)

NoticeTypes ==
    /\ thread \in [Clients -> Places]
    /\ worker \in [Clients -> {"none", "start", "ended"} \cup Lending]
    /\ statuses \in [Clients -> Seq(Nat)] /\ terminate \in [Clients -> BOOLEAN]
    /\ \A c \in Clients : thread[c] = "register" => worker[c] = "none"

LEMMA NoticeTyped == RefInv /\ FlowInv => NoticeTypes
  BY DEF RefInv, RefTypes, Handling, FlowInv, FlowTypes, NoticeTypes

(* Steps of a socket thread that leave the status thread alone: it does not *)
(* owe it a post.                                                           *)
LEMMA NoticedMoved ==
    ASSUME NoticeInv, NoticeTypes, NEW c \in Clients, thread[c] # "post", NEW p, Goto(c, p),
           UNCHANGED statusVars
    PROVE  NoticeInv'
  BY DEF NoticeInv, NoticeTypes, Noticed, Goto, statusVars

LEMMA NoticedElsewhere ==
    ASSUME NoticeInv, UNCHANGED <<thread, statusVars>>
    PROVE  NoticeInv'
  BY DEF NoticeInv, Noticed, statusVars

LEMMA NoticedOfSocketThread ==
    ASSUME NoticeInv, NoticeTypes, NEW c \in Clients, SocketThread(c)
    PROVE  NoticeInv'
<1>. USE DEF At, Routes
<1>1. CASE ListClient(c) \/ ListBackend(c) \/ Receive(c) \/ ReceiveFails(c) \/ Unregister(c) \/ Release(c)
  BY <1>1, NoticedMoved DEF ListClient, ListBackend, Receive, ReceiveFails, Unregister, Release
<1>2. CASE RouteNak(c) \/ RouteLogin(c) \/ LoginAccept(c) \/ RouteUnknownType(c) \/ CallCallback(c)
           \/ CallbackReturns(c)
  BY <1>2, NoticedMoved DEF RouteNak, RouteLogin, LoginAccept, RouteUnknownType, CallCallback, CallbackReturns
<1>3. CASE FreeCompleted(c) \/ SendAck(c) \/ RespondNow(c)
  BY <1>3, NoticedMoved DEF FreeCompleted, SendAck, RespondNow
<1>4. CASE RefuseLogin(c) \/ CompletionFreed(c)
  BY <1>4, NoticedElsewhere DEF RefuseLogin, CompletionFreed, socketVars
<1>5. CASE CreateStatusThread(c)
  <2>1. /\ thread[c] = "register" /\ thread' = [thread EXCEPT ![c] = "list"]
        /\ worker' = [worker EXCEPT ![c] = "start"]
        /\ UNCHANGED <<statuses, semaphore, terminate>>
    BY <1>5 DEF CreateStatusThread, Goto
  <2>2. Noticed(c)'
    BY <2>1 DEF NoticeInv, NoticeTypes, Noticed
  <2>3. \A d \in Clients \ {c} : Noticed(d)'
    BY <2>1 DEF NoticeInv, NoticeTypes, Noticed
  <2>. QED
    BY <2>1, <2>2, <2>3 DEF NoticeInv
<1>6. CASE DestroyStatusWorker(c)
  BY <1>6 DEF DestroyStatusWorker, Goto, NoticeInv, NoticeTypes, Noticed
<1>7. CASE PostTerminate(c)
  <2>1. UNCHANGED <<worker, statuses, terminate>>
    BY <1>7 DEF PostTerminate
  <2>2. CASE worker[c] = "ended"
    BY <1>7, <2>1, <2>2, NoticedElsewhere DEF PostTerminate, statusVars
  <2>3. CASE worker[c] # "ended"
    <3>1. /\ semaphore' = [semaphore EXCEPT ![c] = @ + 1]
          /\ thread' = [thread EXCEPT ![c] = "release"]
      BY <1>7, <2>3 DEF PostTerminate, WakeUp, Goto
    <3>. QED
      BY <2>1, <3>1 DEF NoticeInv, NoticeTypes, Noticed
  <2>. QED
    BY <2>2, <2>3
<1>. QED
  BY <1>1, <1>2, <1>3, <1>4, <1>5, <1>6, <1>7 DEF SocketThread

(* The status thread waits again only when there is nothing for it, which   *)
(* it looked for after it took the post.                                    *)
LEMMA NoticedOfStatusThread ==
    ASSUME NoticeInv, NoticeTypes, NEW c \in Clients, StatusThread(c)
    PROVE  NoticeInv'
<1>. USE DEF Working
<1>1. CASE StatusStart(c)
  BY <1>1 DEF StatusStart, NoticeInv, NoticeTypes, Noticed
<1>2. CASE StatusSend(c)
  BY <1>2 DEF StatusSend, NoticeInv, NoticeTypes, Noticed
<1>3. CASE StatusWake(c) \/ StatusNext(c)
  <2>1. /\ semaphore' \in [Clients -> Nat] /\ Proceed(c) /\ UNCHANGED <<thread, terminate>>
        /\ \A d \in Clients \ {c} : semaphore'[d] = semaphore[d]
    BY <1>3 DEF StatusWake, StatusNext, NoticeInv
  <2>2. ASSUME NEW d \in Clients, d # c PROVE Noticed(d)'
    BY <2>1, <2>2 DEF Proceed, NoticeInv, NoticeTypes, Noticed
  <2>3. Noticed(c)'
    <3>1. CASE terminate[c]
      BY <2>1, <3>1 DEF Proceed, NoticeTypes, Noticed
    <3>2. CASE ~terminate[c] /\ statuses[c] # <<>>
      BY <2>1, <3>2 DEF Proceed, NoticeTypes, Noticed
    <3>3. CASE ~terminate[c] /\ statuses[c] = <<>>
      BY <2>1, <3>3 DEF Proceed, NoticeTypes, Noticed
    <3>. QED
      BY <3>1, <3>2, <3>3
  <2>. QED
    BY <2>1, <2>2, <2>3 DEF NoticeInv
<1>. QED
  BY <1>1, <1>2, <1>3 DEF StatusThread

LEMMA NoticedOfRouteToClient ==
    ASSUME NoticeInv, NoticeTypes, RouteToClient, Head(routing.todo) \in Clients
    PROVE  NoticeInv'
<1>. DEFINE c == Head(routing.todo)
<1>1. UNCHANGED <<thread, worker, terminate>>
  BY DEF RouteToClient
<1>2. \/ UNCHANGED <<statuses, semaphore>>
      \/ /\ statuses' = [statuses EXCEPT ![c] = QueueStatus(@, routing.nr)]
         /\ semaphore' = [semaphore EXCEPT ![c] = @ + 1]
  BY DEF RouteToClient
<1>. HIDE DEF c
<1>3. CASE UNCHANGED <<statuses, semaphore>>
  BY <1>1, <1>3 DEF NoticeInv, Noticed
<1>4. CASE /\ statuses' = [statuses EXCEPT ![c] = QueueStatus(@, routing.nr)]
           /\ semaphore' = [semaphore EXCEPT ![c] = @ + 1]
  <2>1. c \in Clients
    BY DEF c
  <2>. QED
    BY <1>1, <1>4, <2>1 DEF NoticeInv, NoticeTypes, Noticed
<1>. QED
  BY <1>2, <1>3, <1>4

LEMMA NoticeNext == NoticeInv /\ RefInv /\ FlowInv /\ [Next]_vars => NoticeInv'
<1>. SUFFICES ASSUME NoticeInv, RefInv, FlowInv, [Next]_vars PROVE NoticeInv'
  OBVIOUS
<1>1. NoticeTypes
  BY NoticeTyped
<1>2. ASSUME NEW c \in Clients, Accept(c) PROVE NoticeInv'
  BY <1>1, <1>2, NoticedMoved DEF Accept, At
<1>3. ASSUME NEW c \in Clients, DropFind(c) \/ HangUp(c) PROVE NoticeInv'
  BY <1>3, NoticedElsewhere DEF DropFind, HangUp, socketVars
<1>4. ASSUME Application PROVE NoticeInv'
  BY <1>4, NoticedElsewhere DEF Application, CompletePendingCommand, CompleteInCallback,
     RespondInCallback, FinishPosted, FinishUnposted, MarkComplete
<1>5. CASE SendStatus \/ RouteStatus \/ RouteStatusDone \/ DropClose \/ UNCHANGED vars
  BY <1>5, NoticedElsewhere DEF SendStatus, RouteStatus, RouteStatusDone, DropClose, socketVars, vars
<1>6. ASSUME RouteToClient PROVE NoticeInv'
  <2>1. Head(routing.todo) \in Clients
    BY <1>6 DEF RouteToClient, FlowInv, FlowTypes
  <2>. QED
    BY <1>1, <1>6, <2>1, NoticedOfRouteToClient
<1>. QED
  BY <1>1, <1>2, <1>3, <1>4, <1>5, <1>6, NoticedOfSocketThread, NoticedOfStatusThread
     DEF Next, WorkQueueThread

LEMMA NoticeInit == Init => NoticeInv
  BY DEF Init, NoticeInv, Noticed

(* A status thread never waits while a status is queued for it or it is to  *)
(* end, but for the moment before DestroyStatusWorker posts it: no post is  *)
(* lost between the locks, whatever is sent, closed or dropped meanwhile    *)
(* (CiiStatusThread, RouteStatusMessage, DestroyStatusWorker).  It is the   *)
(* half of TornDown that needs no fairness.                                 *)
THEOREM StatusThreadsAreWoken == Spec => []StatusNoticed
<1>1. NoticeInv => StatusNoticed
  BY DEF NoticeInv, Noticed, StatusNoticed
<1>. QED
  BY RefInit, RefNext, FlowInit, FlowNext, NoticeInit, NoticeNext, <1>1, PTL DEF Spec

-----------------------------------------------------------------------------
(* What it takes for the process to crash.  A client that has a level has   *)
(* logged in, before the message that is routed ...                         *)
Known(c) ==
    /\ thread[c] = "route" => received[c] > 0
    /\ access[c] # "AlInvalid" =>
          \E j \in 1 .. received[c] : LogsIn(c, j) /\ (thread[c] = "route" => j < received[c])
(* ... HandleMessageCompletion finds its message ...                        *)
Tended(c) == ~app.early /\ thread[c] = "completion" => Handles(c) # {}
(* ... a status thread ends because it is told to, and nothing else than a  *)
(* status tells it anything before ...                                      *)
Quits(c) ==
    /\ terminate[c] => thread[c] \in Leaving
    /\ worker[c] = "ended" => terminate[c]
    /\ raised = 0 /\ thread[c] \notin {"release", "ended"} =>
          semaphore[c] = 0 /\ worker[c] \in {"none", "start", "wait"}
(* ... and the debug call is for a client that it was made for.             *)
CrashInv ==
    /\ \A c \in Clients : Known(c) /\ Tended(c) /\ Quits(c)
    /\ dropping # Null => dropping \in app.drops
    /\ CrashesExplained

(* A step that ends in a crash is the last one.                             *)
LEMMA CrashIsLast == Next => crash = Null
<1>. SUFFICES ASSUME Next PROVE crash = Null
  OBVIOUS
<1>. USE DEF At, Routes, Working, Completing
<1>1. ASSUME NEW c \in Clients, SocketThread(c) PROVE crash = Null
  <2>1. CASE CreateStatusThread(c) \/ ListClient(c) \/ ListBackend(c) \/ Receive(c) \/ ReceiveFails(c)
             \/ RouteNak(c) \/ RefuseLogin(c) \/ RouteLogin(c) \/ LoginAccept(c) \/ RouteUnknownType(c)
    BY <2>1 DEF CreateStatusThread, ListClient, ListBackend, Receive, ReceiveFails, RouteNak,
       RefuseLogin, RouteLogin, LoginAccept, RouteUnknownType
  <2>2. CASE CallCallback(c) \/ CallbackReturns(c) \/ FreeCompleted(c) \/ SendAck(c)
             \/ CompletionFreed(c) \/ RespondNow(c) \/ Unregister(c) \/ DestroyStatusWorker(c)
             \/ PostTerminate(c) \/ Release(c)
    BY <2>2 DEF CallCallback, CallbackReturns, FreeCompleted, SendAck, CompletionFreed, RespondNow,
       Unregister, DestroyStatusWorker, PostTerminate, Release
  <2>. QED
    BY <1>1, <2>1, <2>2 DEF SocketThread
<1>2. ASSUME NEW c \in Clients, Accept(c) \/ StatusThread(c) \/ DropFind(c) \/ HangUp(c)
      PROVE  crash = Null
  BY <1>2 DEF Accept, StatusThread, StatusStart, StatusWake, StatusSend, StatusNext, DropFind, HangUp
<1>3. CASE Application
  BY <1>3 DEF Application, CompletePendingCommand, CompleteInCallback, RespondInCallback,
     FinishPosted, FinishUnposted, MarkComplete
<1>4. CASE SendStatus \/ WorkQueueThread \/ DropClose
  BY <1>4 DEF SendStatus, WorkQueueThread, RouteStatus, RouteToClient, RouteStatusDone, DropClose
<1>. QED
  BY <1>1, <1>2, <1>3, <1>4 DEF Next

(* Logins.  Only a login grants a level, and only Receive routes anything.  *)
LEMMA KnownKept ==
    ASSUME NEW c \in Clients, Known(c), UNCHANGED <<app, received, access>>,
           thread'[c] = thread[c] \/ thread'[c] # "route"
    PROVE  Known(c)'
  BY DEF Known, LogsIn, Script

LEMMA KnownOfReceive ==
    ASSUME RefTypes, NEW c \in Clients, Receive(c), NEW d \in Clients, Known(d)
    PROVE  Known(d)'
<1>1. UNCHANGED <<app, access>> /\ received[c] \in Nat
  BY DEF Receive, loginVars, RefTypes
<1>2. CASE d # c
  <2>1. received'[d] = received[d] /\ thread'[d] = thread[d]
    BY <1>2 DEF Receive, Goto, RefTypes
  <2>. QED
    BY <1>1, <2>1 DEF Known, LogsIn, Script
<1>3. CASE d = c
  <2>1. received'[c] = received[c] + 1 /\ thread'[c] = "route" /\ thread[c] = "receive"
    BY DEF Receive, At, Goto, RefTypes
  <2>2. ASSUME NEW j \in 1 .. received[c] PROVE j \in 1 .. received'[c] /\ j < received'[c]
    BY <1>1, <2>1
  <2>. QED
    BY <1>1, <1>3, <2>1, <2>2 DEF Known, LogsIn, Script
<1>. QED
  BY <1>2, <1>3

LEMMA KnownOfLogin ==
    ASSUME RefTypes, SessionTypes, NEW c \in Clients, RouteLogin(c), NEW d \in Clients, Known(d)
    PROVE  Known(d)'
<1>1. UNCHANGED <<app, received>> /\ received[c] \in Nat
  BY DEF RouteLogin, RefTypes
<1>2. CASE d # c
  <2>1. access'[d] = access[d] /\ thread'[d] = thread[d]
    BY <1>2 DEF RouteLogin, Goto, RefTypes, SessionTypes
  <2>. QED
    BY <1>1, <2>1 DEF Known, LogsIn, Script
<1>3. CASE d = c
  <2>1. thread'[c] = "accept" /\ thread[c] = "route" /\ LogsIn(c, received[c])
    BY DEF RouteLogin, Routes, At, Goto, RefTypes, LogsIn, Current
  <2>2. received[c] \in 1 .. received[c]
    BY <1>1, <1>3, <2>1 DEF Known
  <2>. QED
    BY <1>1, <1>3, <2>1, <2>2 DEF Known, LogsIn, Script
<1>. QED
  BY <1>2, <1>3

(* A login that is refused is of an unknown level, or not the first.        *)
LEMMA RefusedLoginFacts ==
    ASSUME RefTypes, NEW c \in Clients, Known(c), RefuseLogin(c)
    PROVE  LoginRefused(c)'
<1>1. /\ thread[c] = "route" /\ Current(c).type = "Login" /\ Refusal(c) # "MsSuccess"
      /\ UNCHANGED <<app, received>>
  BY DEF RefuseLogin, Routes, At, socketVars
<1>2. received[c] \in 1 .. received[c] /\ LogsIn(c, received[c]) /\ received[c] \in Nat
  BY <1>1 DEF Known, RefTypes, LogsIn, Current
<1>3. CASE access[c] # "AlInvalid"
  <2>1. PICK j \in 1 .. received[c] : LogsIn(c, j) /\ j < received[c]
    BY <1>1, <1>3 DEF Known
  <2>2. j \in 1 .. received[c] - 1
    BY <1>2, <2>1
  <2>3. LoginRefused(c)
    BY <1>2, <2>1, <2>2 DEF LoginRefused
  <2>. QED
    BY <1>1, <2>3 DEF LoginRefused, LogsIn, Script
<1>4. CASE access[c] = "AlInvalid"
  <2>1. Current(c).does \notin Levels
    <3>1. Levels \cap Refusals = {}
      BY DEF Levels, Refusals
    <3>. QED
      BY <1>1, <1>4, <3>1 DEF Refusal
  <2>2. LoginRefused(c)
    BY <1>2, <2>1 DEF LoginRefused, Current
  <2>. QED
    BY <1>1, <2>2 DEF LoginRefused, LogsIn, Script
<1>. QED
  BY <1>3, <1>4

(* The message that HandleMessageCompletion looks for.  The socket thread's  *)
(* steps leave the messages of other clients alone.                         *)
LEMMA OthersMessagesKept ==
    ASSUME RefInv, NEW c \in Clients, SocketThread(c)
    PROVE  /\ \A m \in messages : m.client # c => m \in messages'
           /\ \A d \in Clients \ {c} : received'[d] = received[d] /\ thread'[d] = thread[d]
<1>. USE DEF At, Routes, Goto
<1>1. received \in [Clients -> Nat] /\ thread \in [Clients -> Places]
  BY DEF RefInv, RefTypes
<1>2. CASE CreateStatusThread(c) \/ ListClient(c) \/ ListBackend(c) \/ ReceiveFails(c) \/ RouteLogin(c)
           \/ RouteUnknownType(c) \/ CallCallback(c) \/ Unregister(c) \/ DestroyStatusWorker(c)
  BY <1>1, <1>2 DEF CreateStatusThread, ListClient, ListBackend, ReceiveFails, RouteLogin,
     RouteUnknownType, CallCallback, Unregister, DestroyStatusWorker
<1>3. CASE PostTerminate(c) \/ Release(c)
  BY <1>1, <1>3 DEF PostTerminate, Release
<1>4. CASE RefuseLogin(c) \/ CompletionFreed(c)
  BY <1>4 DEF RefuseLogin, CompletionFreed, socketVars
<1>5. CASE Receive(c)
  BY <1>1, <1>5 DEF Receive
<1>6. CASE FreeCompleted(c) \/ SendAck(c)
  BY <1>1, <1>6 DEF FreeCompleted, SendAck, Free, Change, Handles
<1>7. CASE RouteNak(c) \/ LoginAccept(c) \/ RespondNow(c) \/ CallbackReturns(c)
  <2>1. Message(c).client = c
    BY <1>7, InHandFacts DEF RouteNak, LoginAccept, RespondNow, CallbackReturns, InHand
  <2>2. \A m \in messages : m # Message(c) => m \in messages'
    BY <1>7 DEF RouteNak, LoginAccept, RespondNow, CallbackReturns, Respond, Free, Change
  <2>3. \A d \in Clients \ {c} : received'[d] = received[d] /\ thread'[d] = thread[d]
    BY <1>1, <1>7 DEF RouteNak, LoginAccept, RespondNow, CallbackReturns
  <2>. QED
    BY <2>1, <2>2, <2>3
<1>. QED
  BY <1>2, <1>3, <1>4, <1>5, <1>6, <1>7 DEF SocketThread

LEMMA TendedOfSocketThread ==
    ASSUME RefInv, NEW c \in Clients, SocketThread(c), app' = app, NEW d \in Clients, Tended(d)
    PROVE  Tended(d)'
<1>. USE DEF At, Routes, Goto
<1>1. CASE d # c
  <2>1. received'[d] = received[d] /\ thread'[d] = thread[d]
    BY <1>1, OthersMessagesKept
  <2>2. \A m \in Handles(d) : m \in Handles(d)'
    BY <1>1, <2>1, OthersMessagesKept DEF Handles
  <2>. QED
    BY <2>1, <2>2 DEF Tended
<1>2. CASE d = c
  <2>1. thread \in [Clients -> Places]
    BY DEF RefInv, RefTypes
  <2>2. CASE CallbackReturns(c)
    <3>. DEFINE n == [Message(c) EXCEPT !.posted = TRUE]
    <3>1. Message(c) \in CiiMessage /\ Message(c).client = c /\ Message(c).nr = received[c]
      BY <2>2, InHandFacts DEF CallbackReturns, InHand, RefInv, MessagesApart
    <3>2. n \in messages' /\ received' = received
      BY <2>2 DEF CallbackReturns, Change
    <3>3. n.client = c /\ n.nr = received[c]
      BY <3>1 DEF CiiMessage
    <3>. QED
      BY <1>2, <3>2, <3>3 DEF Tended, Handles
  <2>3. CASE RefuseLogin(c) \/ CompletionFreed(c)
    BY <1>2, <2>3 DEF RefuseLogin, CompletionFreed, socketVars, Tended, Handles
  <2>4. CASE ~CallbackReturns(c) /\ ~RefuseLogin(c) /\ ~CompletionFreed(c)
    <3>1. thread'[c] # "completion"
      <4>1. CASE CreateStatusThread(c) \/ ListClient(c) \/ ListBackend(c) \/ Receive(c) \/ ReceiveFails(c)
                 \/ RouteNak(c) \/ RouteLogin(c) \/ LoginAccept(c) \/ RouteUnknownType(c)
        BY <2>1, <4>1 DEF CreateStatusThread, ListClient, ListBackend, Receive, ReceiveFails, RouteNak,
           RouteLogin, LoginAccept, RouteUnknownType
      <4>2. CASE CallCallback(c) \/ FreeCompleted(c) \/ SendAck(c) \/ RespondNow(c)
                 \/ Unregister(c) \/ DestroyStatusWorker(c) \/ PostTerminate(c) \/ Release(c)
        BY <2>1, <4>2 DEF CallCallback, FreeCompleted, SendAck, RespondNow, Unregister,
           DestroyStatusWorker, PostTerminate, Release
      <4>. QED
        BY <2>4, <4>1, <4>2 DEF SocketThread
    <3>. QED
      BY <1>2, <3>1 DEF Tended
  <2>. QED
    BY <2>2, <2>3, <2>4
<1>. QED
  BY <1>1, <1>2

(* Nor does whoever completes a command, unless it is early, free a message *)
(* that has been posted and not acknowledged.                               *)
LEMMA TendedOfApplication ==
    ASSUME RefInv, AnswerInv, Application, NEW d \in Clients, Tended(d)
    PROVE  Tended(d)'
<1>1. PICK m \in messages :
          \/ CompletePendingCommand(m) \/ CompleteInCallback(m) \/ RespondInCallback(m)
          \/ FinishPosted(m) \/ FinishUnposted(m) \/ MarkComplete(m)
  BY DEF Application
<1>2. UNCHANGED <<app, received, thread>>
  BY <1>1 DEF CompletePendingCommand, CompleteInCallback, RespondInCallback, FinishPosted,
              FinishUnposted, MarkComplete
<1>3. SUFFICES ASSUME ~app.early, thread[d] = "completion" PROVE Handles(d)' # {}
  BY <1>2 DEF Tended
<1>4. PICK o \in messages : o.client = d /\ o.nr = received[d]
  BY <1>3 DEF Tended, Handles
<1>5. m \in CiiMessage
  BY DEF RefInv, MessagesApart
<1>6. CASE o # m
  <2>1. o \in messages'
    BY <1>1, <1>6 DEF CompletePendingCommand, CompleteInCallback, RespondInCallback, FinishPosted,
                      FinishUnposted, MarkComplete, Respond, Free, Change
  <2>. QED
    BY <1>2, <1>4, <2>1 DEF Handles
<1>7. CASE o = m
  <2>1. Stage(m)
    BY <1>3, <1>4, <1>7, StageOf
  <2>2. m.acks = 0 /\ m.posted /\ m.doing # "finish"
    BY <1>3, <1>4, <1>7, <2>1 DEF Stage, Started
  <2>3. ~CompletePendingCommand(m) /\ ~FinishPosted(m)
    BY <1>5, <2>2 DEF CompletePendingCommand, Respond, AckAwaited, FinishPosted, Completing, CiiMessage
  <2>4. PICK n : /\ Change(m, n)
                 /\ \/ \E p \in {"respond", "finish", "mark"} : n = [m EXCEPT !.doing = p]
                    \/ n = [m EXCEPT !.complete = TRUE, !.doing = "done"]
    BY <1>1, <2>3 DEF CompleteInCallback, RespondInCallback, FinishUnposted, MarkComplete
  <2>5. n \in messages' /\ n.client = m.client /\ n.nr = m.nr
    BY <1>5, <2>4 DEF CiiMessage, Change
  <2>. QED
    BY <1>2, <1>4, <1>7, <2>5 DEF Handles
<1>. QED
  BY <1>6, <1>7

LEMMA TendedElsewhere ==
    ASSUME UNCHANGED <<app, received, messages>>, NEW d \in Clients, Tended(d),
           thread'[d] = thread[d] \/ thread'[d] # "completion"
    PROVE  Tended(d)'
  BY DEF Tended, Handles

(* The end of a status thread.  Steps that leave it alone:                  *)
LEMMA QuitsKept ==
    ASSUME NEW c \in Clients, Quits(c), worker'[c] = worker[c], terminate'[c] = terminate[c],
           semaphore'[c] = semaphore[c], raised' = raised \/ raised' > 0,
           thread'[c] = thread[c] \/ thread[c] \notin Leaving
              \/ (thread[c] = "release" /\ thread'[c] = "ended")
    PROVE  Quits(c)'
  BY DEF Quits, Leaving

LEMMA QuitsOfSocketThread ==
    ASSUME RefInv, NoticeTypes, NoticeInv, NEW c \in Clients, SocketThread(c), raised' = raised,
           NEW d \in Clients, Quits(d)
    PROVE  Quits(d)'
<1>. USE DEF At, Routes, Goto
<1>1. thread'[d] = thread[d] \/ d = c
  BY OthersMessagesKept
<1>2. CASE CreateStatusThread(c)
  BY <1>2 DEF CreateStatusThread, NoticeTypes, Quits, Leaving
<1>3. CASE DestroyStatusWorker(c)
  BY <1>3 DEF DestroyStatusWorker, NoticeTypes, Quits, Leaving
<1>4. CASE PostTerminate(c)
  <2>1. UNCHANGED <<worker, terminate>> /\ thread[c] = "post"
    BY <1>4 DEF PostTerminate
  <2>2. CASE worker[c] = "ended"
    BY <1>4, <2>1, <2>2, QuitsKept DEF PostTerminate
  <2>3. CASE worker[c] # "ended"
    <3>1. /\ semaphore' = [semaphore EXCEPT ![c] = @ + 1]
          /\ thread' = [thread EXCEPT ![c] = "release"]
      BY <1>4, <2>3 DEF PostTerminate, WakeUp
    <3>. QED
      BY <2>1, <3>1 DEF NoticeInv, NoticeTypes, Quits, Leaving
  <2>. QED
    BY <2>2, <2>3
<1>5. CASE Release(c)
  BY <1>1, <1>5, QuitsKept DEF Release, statusVars, NoticeTypes
<1>6. CASE ~CreateStatusThread(c) /\ ~DestroyStatusWorker(c) /\ ~PostTerminate(c) /\ ~Release(c)
  <2>1. thread[c] \notin Leaving /\ UNCHANGED statusVars
    <3>1. CASE ListClient(c) \/ ListBackend(c) \/ Receive(c) \/ ReceiveFails(c)
               \/ RouteNak(c) \/ RefuseLogin(c) \/ RouteLogin(c) \/ LoginAccept(c) \/ RouteUnknownType(c)
      BY <3>1 DEF ListClient, ListBackend, Receive, ReceiveFails, RouteNak, RefuseLogin, RouteLogin,
         LoginAccept, RouteUnknownType, Leaving
    <3>2. CASE CallCallback(c) \/ CallbackReturns(c) \/ FreeCompleted(c) \/ SendAck(c)
               \/ CompletionFreed(c) \/ RespondNow(c) \/ Unregister(c)
      BY <3>2 DEF CallCallback, CallbackReturns, FreeCompleted, SendAck, CompletionFreed, RespondNow,
         Unregister, Leaving
    <3>. QED
      BY <1>6, <3>1, <3>2 DEF SocketThread
  <2>. QED
    BY <1>1, <2>1, QuitsKept DEF statusVars
<1>. QED
  BY <1>2, <1>3, <1>4, <1>5, <1>6

LEMMA QuitsOfStatusThread ==
    ASSUME NoticeTypes, NoticeInv, NEW c \in Clients, StatusThread(c), NEW d \in Clients, Quits(d)
    PROVE  Quits(d)'
<1>. USE DEF Working
<1>1. UNCHANGED <<thread, terminate, raised>>
  BY DEF StatusThread, StatusStart, StatusWake, StatusSend, StatusNext, fanoutVars
<1>2. CASE d # c
  <2>1. worker'[d] = worker[d] /\ semaphore'[d] = semaphore[d]
    <3>1. CASE StatusStart(c) \/ StatusSend(c)
      BY <1>2, <3>1 DEF StatusStart, StatusSend, NoticeTypes
    <3>2. CASE StatusWake(c) \/ StatusNext(c)
      BY <1>2, <3>2 DEF StatusWake, StatusNext, Proceed, NoticeTypes, NoticeInv
    <3>. QED
      BY <3>1, <3>2 DEF StatusThread
  <2>. QED
    BY <1>1, <2>1, QuitsKept
<1>3. CASE d = c
  <2>1. CASE StatusStart(c)
    BY <1>1, <1>3, <2>1 DEF StatusStart, NoticeTypes, Quits
  <2>2. CASE StatusSend(c)
    BY <1>1, <1>3, <2>2 DEF StatusSend, NoticeTypes, Quits
  <2>3. CASE StatusWake(c) \/ StatusNext(c)
    <3>1. ~(raised = 0 /\ thread[c] \notin {"release", "ended"})
      BY <1>3, <2>3 DEF StatusWake, StatusNext, Quits
    <3>2. worker'[c] = "ended" => terminate[c]
      BY <2>3 DEF StatusWake, StatusNext, Proceed, NoticeTypes
    <3>. QED
      BY <1>1, <1>3, <3>1, <3>2 DEF Quits
  <2>. QED
    BY <2>1, <2>2, <2>3 DEF StatusThread
<1>. QED
  BY <1>2, <1>3

LEMMA QuitsOfRouteToClient ==
    ASSUME FlowInv, RouteToClient, NEW d \in Clients, Quits(d)
    PROVE  Quits(d)'
<1>1. raised \in Nat /\ raised # 0 /\ UNCHANGED <<worker, thread, terminate, raised>>
  <2>1. routing # Null /\ UNCHANGED <<worker, thread, terminate, raised>>
    BY DEF RouteToClient
  <2>2. Dispatched > 0 /\ Dispatched \in Nat
    BY <2>1 DEF FlowInv, Dispatching
  <2>3. raised \in Nat /\ Len(StatusWorkQueue) \in Nat
    BY DEF FlowInv, FlowTypes
  <2>. QED
    BY <2>1, <2>2, <2>3 DEF Dispatched
<1>. QED
  BY <1>1 DEF Quits

(* What was freed, or is to be dropped, belongs to a client that leaves.    *)
LEMMA FreedLeaves ==
    ASSUME RefInv, NEW c \in Clients, thread[c] # "none", Freed(c)
    PROVE  thread[c] = "ended"
<1>1. ref[c] = 0 /\ Counted(c)
  BY Counts DEF Freed, RefInv
<1>2. Cardinality(Mine(c)) \in Nat
  BY MineFinite, FS_CardinalityType DEF RefInv
<1>3. Held(c) = 0
  BY <1>1, <1>2 DEF Counted, Held, Lent
<1>. QED
  BY <1>3 DEF Held

LEMMA CrashesExplainedNext ==
    ASSUME CrashInv, RefInv, FlowInv, Next
    PROVE  CrashesExplained'
<1>. USE DEF At, Routes, Working
<1>1. crash = Null
  BY CrashIsLast
<1>2. CASE \E c \in Clients : RefuseLogin(c)
  <2>1. PICK c \in Clients : RefuseLogin(c)
    BY <1>2
  <2>2. LoginRefused(c)'
    BY <2>1, RefusedLoginFacts DEF CrashInv, RefInv
  <2>3. crash' = "SendNak"
    BY <2>1 DEF RefuseLogin
  <2>. QED
    BY <2>2, <2>3 DEF CrashesExplained
<1>3. CASE \E c \in Clients : CompletionFreed(c)
  BY <1>3 DEF CompletionFreed, CrashInv, Tended, CrashesExplained
<1>4. CASE \E c \in Clients : PostTerminate(c) /\ crash' # crash
  <2>1. PICK c \in Clients : PostTerminate(c) /\ crash' # crash
    BY <1>4
  <2>2. worker[c] = "ended" /\ crash' = "DestroyStatusWorker" /\ raised' = raised /\ thread[c] = "post"
    BY <2>1 DEF PostTerminate, fanoutVars
  <2>3. raised # 0 /\ raised \in Nat
    BY <2>2 DEF CrashInv, Quits, FlowInv, FlowTypes
  <2>. QED
    BY <2>2, <2>3 DEF CrashesExplained
<1>5. CASE \E c \in Clients : StatusStart(c) /\ crash' # crash
  <2>1. PICK c \in Clients : StatusStart(c) /\ crash' # crash
    BY <1>5
  <2>2. /\ Freed(c) /\ crash' = "CiiStatusThread" /\ UNCHANGED <<thread, worker>> /\ worker[c] = "start"
    BY <2>1 DEF StatusStart
  <2>3. thread[c] # "none"
    BY <2>2 DEF RefInv, Handling
  <2>4. thread'[c] = "ended" /\ worker'[c] = "start"
    BY <2>2, <2>3, FreedLeaves
  <2>. QED
    BY <2>2, <2>4 DEF CrashesExplained
<1>6. CASE DropClose /\ crash' # crash
  <2>1. /\ dropping # Null /\ dropping \in Clients /\ dropping \in app.drops
        /\ Freed(dropping) \/ worker[dropping] = "ended"
        /\ crash' = "CiiDbgDropClient" /\ UNCHANGED <<app, thread>>
    BY <1>6 DEF DropClose, CrashInv, FlowInv, FlowTypes
  <2>2. thread[dropping] # "none"
    BY <2>1 DEF FlowInv, Enrolled, Unlisted
  <2>3. thread[dropping] \in Leaving
    BY <2>1, <2>2, FreedLeaves DEF CrashInv, Quits, Leaving
  <2>4. PICK c \in app.drops : c = dropping
    BY <2>1
  <2>. QED
    BY <2>1, <2>3, <2>4 DEF CrashesExplained
<1>7. ASSUME crash' = crash PROVE CrashesExplained'
  BY <1>1, <1>7, NullAssumption DEF CrashesExplained, Crashes
<1>8. ASSUME NEW c \in Clients, SocketThread(c), ~RefuseLogin(c), ~CompletionFreed(c),
             ~PostTerminate(c)
      PROVE  crash' = crash
  <2>1. CASE CreateStatusThread(c) \/ ListClient(c) \/ ListBackend(c) \/ Receive(c) \/ ReceiveFails(c)
             \/ RouteNak(c) \/ RouteLogin(c) \/ LoginAccept(c) \/ RouteUnknownType(c)
    BY <2>1 DEF CreateStatusThread, ListClient, ListBackend, Receive, ReceiveFails, RouteNak,
       RouteLogin, LoginAccept, RouteUnknownType
  <2>2. CASE CallCallback(c) \/ CallbackReturns(c) \/ FreeCompleted(c) \/ SendAck(c)
             \/ RespondNow(c) \/ Unregister(c) \/ DestroyStatusWorker(c) \/ Release(c)
    BY <2>2 DEF CallCallback, CallbackReturns, FreeCompleted, SendAck, RespondNow,
       Unregister, DestroyStatusWorker, Release
  <2>. QED
    BY <1>8, <2>1, <2>2 DEF SocketThread
<1>9. ASSUME NEW c \in Clients,
             Accept(c) \/ StatusWake(c) \/ StatusSend(c) \/ StatusNext(c) \/ DropFind(c) \/ HangUp(c)
      PROVE  crash' = crash
  BY <1>9 DEF Accept, StatusWake, StatusSend, StatusNext, DropFind, HangUp
<1>10. ASSUME Application PROVE crash' = crash
  BY <1>10 DEF Application, CompletePendingCommand, CompleteInCallback, RespondInCallback,
     FinishPosted, FinishUnposted, MarkComplete
<1>11. ASSUME SendStatus \/ WorkQueueThread PROVE crash' = crash
  BY <1>11 DEF SendStatus, WorkQueueThread, RouteStatus, RouteToClient, RouteStatusDone
<1>. QED
  BY <1>2, <1>3, <1>4, <1>5, <1>6, <1>7, <1>8, <1>9, <1>10, <1>11 DEF Next, StatusThread

LEMMA CrashInit == Init => CrashInv
<1>. SUFFICES ASSUME Init PROVE CrashInv
  OBVIOUS
<1>1. \A c \in Clients : Known(c) /\ Tended(c) /\ Quits(c)
  BY DEF Init, Known, Tended, Quits, Leaving
<1>2. CrashesExplained
  BY NullAssumption DEF Init, CrashesExplained, Crashes
<1>. QED
  BY <1>1, <1>2 DEF Init, CrashInv

LEMMA CrashNext ==
    CrashInv /\ RefInv /\ SessionInv /\ FlowInv /\ NoticeInv /\ AnswerInv /\ [Next]_vars => CrashInv'
<1>. SUFFICES ASSUME CrashInv, RefInv, SessionInv, FlowInv, NoticeInv, AnswerInv, [Next]_vars
              PROVE  CrashInv'
  OBVIOUS
<1>. USE DEF At, Routes, Goto
<1>0. /\ NoticeTypes /\ RefTypes /\ SessionTypes
      /\ \A c \in Clients : Known(c) /\ Tended(c) /\ Quits(c)
  BY NoticeTyped DEF RefInv, SessionInv, CrashInv
<1>1. CASE UNCHANGED vars
  BY <1>1 DEF vars, socketVars, loginVars, statusVars, fanoutVars, CrashInv, Known, Tended, Quits,
     LogsIn, Script, Handles, CrashesExplained, LoginRefused
<1>2. ASSUME NEW c \in Clients, Accept(c) PROVE \A d \in Clients : Known(d)' /\ Tended(d)' /\ Quits(d)'
  <2>1. /\ UNCHANGED <<app, received, access, messages, statusVars, raised>> /\ thread[c] = "none"
        /\ thread' = [thread EXCEPT ![c] = "register"]
    BY <1>2 DEF Accept, loginVars, fanoutVars
  <2>2. \A d \in Clients : thread'[d] = thread[d] \/ (thread'[d] = "register" /\ thread[d] = "none")
    BY <1>0, <2>1 DEF NoticeTypes
  <2>. QED
    BY <1>0, <2>1, <2>2, KnownKept, TendedElsewhere, QuitsKept DEF statusVars, Leaving
<1>3. ASSUME NEW c \in Clients, SocketThread(c) PROVE \A d \in Clients : Known(d)' /\ Tended(d)' /\ Quits(d)'
  <2>1. UNCHANGED <<app, raised>>
    <3>1. CASE CreateStatusThread(c) \/ ListClient(c) \/ ListBackend(c) \/ Receive(c) \/ ReceiveFails(c)
               \/ RouteNak(c) \/ RefuseLogin(c) \/ RouteLogin(c) \/ LoginAccept(c) \/ RouteUnknownType(c)
      BY <3>1 DEF CreateStatusThread, ListClient, ListBackend, Receive, ReceiveFails, RouteNak,
         RefuseLogin, RouteLogin, LoginAccept, RouteUnknownType, fanoutVars
    <3>2. CASE CallCallback(c) \/ CallbackReturns(c) \/ FreeCompleted(c) \/ SendAck(c)
               \/ CompletionFreed(c) \/ RespondNow(c) \/ Unregister(c) \/ DestroyStatusWorker(c)
               \/ PostTerminate(c) \/ Release(c)
      BY <3>2 DEF CallCallback, CallbackReturns, FreeCompleted, SendAck, CompletionFreed, RespondNow,
         Unregister, DestroyStatusWorker, PostTerminate, Release, fanoutVars
    <3>. QED
      BY <1>3, <3>1, <3>2 DEF SocketThread
  <2>2. ASSUME ~Receive(c), ~RouteLogin(c) PROVE \A d \in Clients : Known(d)'
    <3>1. UNCHANGED <<received, access>> /\ (thread'[c] = thread[c] \/ thread'[c] # "route")
      <4>1. CASE CreateStatusThread(c) \/ ListClient(c) \/ ListBackend(c) \/ ReceiveFails(c)
                 \/ RouteNak(c) \/ RefuseLogin(c) \/ LoginAccept(c) \/ RouteUnknownType(c)
        BY <1>0, <4>1 DEF CreateStatusThread, ListClient, ListBackend, ReceiveFails, RouteNak,
           RefuseLogin, LoginAccept, RouteUnknownType, socketVars, loginVars, RefTypes
      <4>2. CASE CallCallback(c) \/ CallbackReturns(c) \/ FreeCompleted(c) \/ SendAck(c)
                 \/ CompletionFreed(c) \/ RespondNow(c)
        BY <1>0, <4>2 DEF CallCallback, CallbackReturns, FreeCompleted, SendAck, CompletionFreed,
           RespondNow, socketVars, loginVars, RefTypes
      <4>3. CASE Unregister(c) \/ DestroyStatusWorker(c) \/ PostTerminate(c) \/ Release(c)
        BY <1>0, <4>3 DEF Unregister, DestroyStatusWorker, PostTerminate, Release, loginVars, RefTypes
      <4>. QED
        BY <1>3, <2>2, <4>1, <4>2, <4>3 DEF SocketThread
    <3>2. \A d \in Clients : thread'[d] = thread[d] \/ thread'[d] # "route"
      BY <1>3, <3>1, OthersMessagesKept
    <3>. QED
      BY <1>0, <2>1, <3>1, <3>2, KnownKept
  <2>. QED
    BY <1>0, <1>3, <2>1, <2>2, KnownOfReceive, KnownOfLogin, TendedOfSocketThread, QuitsOfSocketThread
<1>4. ASSUME NEW c \in Clients, StatusThread(c) PROVE \A d \in Clients : Known(d)' /\ Tended(d)' /\ Quits(d)'
  <2>1. UNCHANGED <<app, received, access, messages, thread>>
    BY <1>4 DEF StatusThread, StatusStart, StatusWake, StatusSend, StatusNext, loginVars
  <2>. QED
    BY <1>0, <1>4, <2>1, KnownKept, TendedElsewhere, QuitsOfStatusThread
<1>5. ASSUME Application PROVE \A d \in Clients : Known(d)' /\ Tended(d)' /\ Quits(d)'
  <2>1. UNCHANGED <<app, received, access, thread, statusVars, raised>>
    BY <1>5 DEF Application, CompletePendingCommand, CompleteInCallback, RespondInCallback, FinishPosted,
       FinishUnposted, MarkComplete, loginVars, fanoutVars
  <2>. QED
    BY <1>0, <1>5, <2>1, KnownKept, TendedOfApplication, QuitsKept DEF statusVars
<1>6. ASSUME RouteToClient PROVE \A d \in Clients : Known(d)' /\ Tended(d)' /\ Quits(d)'
  <2>1. UNCHANGED <<app, received, access, messages, thread>>
    BY <1>6 DEF RouteToClient, loginVars
  <2>. QED
    BY <1>0, <1>6, <2>1, KnownKept, TendedElsewhere, QuitsOfRouteToClient
<1>7. ASSUME SendStatus \/ RouteStatus \/ RouteStatusDone \/ DropClose
             \/ \E c \in Clients : DropFind(c) \/ HangUp(c)
      PROVE  \A d \in Clients : Known(d)' /\ Tended(d)' /\ Quits(d)'
  <2>1. UNCHANGED <<app, received, access, messages, thread, statusVars>>
    BY <1>7 DEF SendStatus, RouteStatus, RouteStatusDone, DropClose, DropFind, HangUp, socketVars, loginVars
  <2>2. raised' = raised \/ raised' > 0
    <3>1. CASE SendStatus
      BY <3>1 DEF SendStatus, FlowInv, FlowTypes
    <3>2. CASE ~SendStatus
      BY <1>7, <3>2 DEF RouteStatus, RouteStatusDone, DropClose, DropFind, HangUp, fanoutVars
    <3>. QED
      BY <3>1, <3>2
  <2>. QED
    BY <1>0, <2>1, <2>2, KnownKept, TendedElsewhere, QuitsKept DEF statusVars
<1>8. ASSUME Next PROVE dropping' # Null => dropping' \in app'.drops
  <2>1. ASSUME NEW c \in Clients, SocketThread(c) PROVE UNCHANGED <<app, dropping>>
    <3>1. CASE CreateStatusThread(c) \/ ListClient(c) \/ ListBackend(c) \/ Receive(c) \/ ReceiveFails(c)
               \/ RouteNak(c) \/ RefuseLogin(c) \/ RouteLogin(c) \/ LoginAccept(c) \/ RouteUnknownType(c)
      BY <3>1 DEF CreateStatusThread, ListClient, ListBackend, Receive, ReceiveFails, RouteNak,
         RefuseLogin, RouteLogin, LoginAccept, RouteUnknownType
    <3>2. CASE CallCallback(c) \/ CallbackReturns(c) \/ FreeCompleted(c) \/ SendAck(c)
               \/ CompletionFreed(c) \/ RespondNow(c) \/ Unregister(c) \/ DestroyStatusWorker(c)
               \/ PostTerminate(c) \/ Release(c)
      BY <3>2 DEF CallCallback, CallbackReturns, FreeCompleted, SendAck, CompletionFreed, RespondNow,
         Unregister, DestroyStatusWorker, PostTerminate, Release
    <3>. QED
      BY <2>1, <3>1, <3>2 DEF SocketThread
  <2>2. ASSUME NEW c \in Clients, Accept(c) \/ StatusThread(c) \/ HangUp(c) PROVE UNCHANGED <<app, dropping>>
    BY <2>2 DEF Accept, StatusThread, StatusStart, StatusWake, StatusSend, StatusNext, HangUp
  <2>3. ASSUME Application PROVE UNCHANGED <<app, dropping>>
    BY <2>3 DEF Application, CompletePendingCommand, CompleteInCallback, RespondInCallback, FinishPosted,
       FinishUnposted, MarkComplete
  <2>4. ASSUME SendStatus \/ WorkQueueThread PROVE UNCHANGED <<app, dropping>>
    BY <2>4 DEF SendStatus, WorkQueueThread, RouteStatus, RouteToClient, RouteStatusDone
  <2>5. ASSUME NEW c \in Clients, DropFind(c) PROVE dropping' \in app'.drops
    BY <2>5 DEF DropFind
  <2>6. ASSUME DropClose PROVE dropping' = Null
    BY <2>6 DEF DropClose
  <2>. QED
    BY <1>8, <2>1, <2>2, <2>3, <2>4, <2>5, <2>6 DEF Next, CrashInv
<1>9. CASE Next
  <2>1. \A d \in Clients : Known(d)' /\ Tended(d)' /\ Quits(d)'
    BY <1>2, <1>3, <1>4, <1>5, <1>6, <1>7, <1>9 DEF Next, WorkQueueThread
  <2>. QED
    BY <1>8, <1>9, <2>1, CrashesExplainedNext DEF CrashInv
<1>. QED
  BY <1>1, <1>9

(* The process ends at SendNak's ASSERT only if a client logs in twice or   *)
(* at an unknown level, and uses freed memory only if a status was sent     *)
(* (DestroyStatusWorker), a leaving client is dropped (CiiDbgDropClient),   *)
(* a command is completed early (HandleMessageCompletion), or a status      *)
(* thread did not run while its connection came and went (CiiStatusThread). *)
THEOREM CrashesNeedACause == Spec => []CrashesExplained
<1>1. CrashInv => CrashesExplained
  BY DEF CrashInv
<1>. QED
  BY SessionInit, SessionNext, RefInit, RefNext, FlowInit, FlowNext, NoticeInit, NoticeNext, AnswerInit,
     AnswerNext, CrashInit, CrashNext, <1>1, PTL DEF Spec
=============================================================================
