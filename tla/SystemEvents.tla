---------------------------- MODULE SystemEvents ----------------------------
(***************************************************************************)
(* A SystemEvent (src/SystemEvents): threads subscribe and unsubscribe      *)
(* observers and static handlers and raise the event, under one lock.       *)
(***************************************************************************)
EXTENDS Naturals, SequencesExt, Sublists

CONSTANTS
    EventObservers, \* the objects of class SystemEventObserver
    EventHandlers,  \* the static handlers; with their user data they subscribe
    EventData,      \* the user data
    MaxSubscribed   \* the subscriptions an event may have

\* An object is no function with its data.
ASSUME EventAssumption ==
    EventObservers \cap (EventHandlers \X EventData) = {} /\ MaxSubscribed \in Nat

VARIABLES
    Observers, StaticObservers,
    toCall,     \* what RaiseEvent, holding the lock, has still to call; or <<>>
    raised,     \* history: the calls of the last RaiseEvent so far
    subscribed, \* history: the clients' subscriptions, each with its count
    destroyed

eventVars == <<Observers, StaticObservers, toCall, raised, subscribed, destroyed>>

Subscribers == EventObservers \cup (EventHandlers \X EventData)

EventInit ==
    /\ Observers = <<>> /\ StaticObservers = <<>> /\ toCall = <<>>
    /\ raised = <<>> /\ subscribed = [s \in Subscribers |-> 0] /\ destroyed = FALSE

EventLockFree == toCall = <<>> /\ ~destroyed

SubscribeObserver ==
    /\ EventLockFree /\ Len(Observers) + Len(StaticObservers) < MaxSubscribed
    /\ \E o \in EventObservers :
          /\ Observers' = <<o>> \o Observers
          /\ subscribed' = [subscribed EXCEPT ![o] = @ + 1]
    /\ raised' = <<>> /\ UNCHANGED <<StaticObservers, toCall, destroyed>>

\* list::remove takes out every one.
UnsubscribeObserver ==
    /\ EventLockFree
    /\ \E o \in EventObservers :
          /\ Observers' = Sublist(Observers, Range(Observers) \ {o})
          /\ subscribed' = [subscribed EXCEPT ![o] = 0]
    /\ raised' = <<>> /\ UNCHANGED <<StaticObservers, toCall, destroyed>>

SubscribeStatic ==
    /\ EventLockFree /\ Len(Observers) + Len(StaticObservers) < MaxSubscribed
    /\ \E s \in EventHandlers \X EventData :
          /\ StaticObservers' = <<s>> \o StaticObservers
          /\ subscribed' = [subscribed EXCEPT ![s] = @ + 1]
    /\ raised' = <<>> /\ UNCHANGED <<Observers, toCall, destroyed>>

\* Whatever the user data.
WithoutFirst(statics, h) ==  \* Fault: only the first one is erased.
    LET found == {i \in DOMAIN statics : statics[i][1] = h} IN
    IF found = {} THEN statics
    ELSE RemoveAt(statics, CHOOSE i \in found : \A j \in found : i <= j)
WithoutHandler(statics, h) ==
    Sublist(statics, {s \in Range(statics) : s[1] # h})

UnsubscribeStatic ==
    /\ EventLockFree
    /\ \E h \in EventHandlers :
          /\ StaticObservers' = WithoutHandler(StaticObservers, h)
          /\ subscribed' = [s \in Subscribers |->
                                IF s \in {h} \X EventData THEN 0 ELSE subscribed[s]]
    /\ raised' = <<>> /\ UNCHANGED <<Observers, toCall, destroyed>>

\* The handlers are called with the lock held.
RaiseEvent ==
    /\ EventLockFree /\ Observers \o StaticObservers # <<>>
    /\ toCall' = Observers \o StaticObservers
    /\ raised' = <<>>
    /\ UNCHANGED <<Observers, StaticObservers, subscribed, destroyed>>

CallHandler ==
    /\ toCall # <<>>
    /\ raised' = Append(raised, Head(toCall))
    /\ toCall' = Tail(toCall)
    /\ UNCHANGED <<Observers, StaticObservers, subscribed, destroyed>>

\* ~SystemEvent
DestroyEvent ==
    /\ EventLockFree
    /\ Observers' = <<>> /\ StaticObservers' = <<>> /\ destroyed' = TRUE
    /\ raised' = <<>> /\ UNCHANGED <<toCall, subscribed>>

EventNext == SubscribeObserver \/ UnsubscribeObserver \/ SubscribeStatic \/ UnsubscribeStatic
             \/ RaiseEvent \/ CallHandler \/ DestroyEvent

\* Subscribe, Unsubscribe, RaiseEvent: an event calls each subscriber once per
\* subscription it has, and nothing that has unsubscribed.
RaisesReachSubscribers ==
    \A s \in Subscribers :
        LET calls == Len(Sublist(raised, {s})) IN
        /\ calls <= subscribed[s]
        /\ toCall = <<>> /\ raised # <<>> => calls = subscribed[s]
=============================================================================
