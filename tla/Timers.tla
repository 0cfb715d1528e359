------------------------------- MODULE Timers -------------------------------
(***************************************************************************)
(* The timer library (src/Timers): threads queue and cancel callbacks, one  *)
(* thread makes them when their time has come.  Time is the code's struct   *)
(* timespec; the clock ticks in steps of TimerTick milliseconds.            *)
(***************************************************************************)
EXTENDS Integers, SequencesExt, Sublists

CONSTANTS
    TimerHandles, \* the addresses malloc may give to a TimerControl_t
    TimerDelays,  \* the delays in ms that are asked for
    TimerTick,    \* the clock's step, in ms
    MaxTicks,     \* the steps that are explored
    MaxTimers     \* the timers that are queued

ASSUME TimerAssumption == TimerDelays \subseteq Nat /\ TimerTick \in Nat \ {0}

Million == 1000 * 1000
Billion == 1000 * Million

set_timespec_from_ms(ms) == [sec |-> ms \div 1000, nsec |-> (ms % 1000) * Million]

add_timespec(a, b) ==
    LET nsec == a.nsec + b.nsec IN
    IF nsec >= Billion THEN [sec |-> a.sec + b.sec + 1, nsec |-> nsec - Billion]
                       ELSE [sec |-> a.sec + b.sec, nsec |-> nsec]

diff_timespec(a, b) ==
    LET nsec == a.nsec - b.nsec IN
    IF nsec < 0 THEN [sec |-> a.sec - b.sec - 1, nsec |-> nsec + Billion]
                ELSE [sec |-> a.sec - b.sec, nsec |-> nsec]

compare_timespec(a, b) ==
    CASE a.sec > b.sec -> 1
      [] a.sec < b.sec -> -1
      [] a.sec = b.sec /\ a.nsec > b.nsec -> 1
      [] a.sec = b.sec /\ a.nsec < b.nsec -> -1
      [] OTHER -> 0

\* What a normalised timespec stands for, and the helpers' contract.
Ms(t) == t.sec * 1000 + t.nsec \div Million

ASSUME TimespecContract ==
    \A x, y \in {0, 1, 600, 999, 1000, 1999, 2500} :
        LET a == set_timespec_from_ms(x)
            b == set_timespec_from_ms(y)
        IN  /\ Ms(add_timespec(a, b)) = x + y /\ add_timespec(a, b).nsec < Billion
            /\ x >= y => diff_timespec(a, b) = set_timespec_from_ms(x - y)
            /\ compare_timespec(a, b) = IF x > y THEN 1 ELSE IF x < y THEN -1 ELSE 0

VARIABLES
    ticks,          \* how often the clock has stepped
    ActiveTimers,   \* the list, [handle, TimeExpired, id]
    ExpireTimersSem,
    expirer,        \* "waiting", "woken", or "expiring" with TimerLock held
    Timeout,        \* of the wait: <<timespec>>, or <<>> for !TimeoutActive
    Now,            \* the thread's reading of the clock
    handles,        \* history: the handle each queued timer got
    fired,          \* history: the timers called
    cancelled       \* history: the timers removed by a cancel

timersVars == <<ticks, ActiveTimers, ExpireTimersSem, expirer, Timeout, Now,
                handles, fired, cancelled>>

TimersInit ==
    /\ ticks = 0 /\ ActiveTimers = <<>> /\ ExpireTimersSem = 0
    /\ expirer = "waiting" /\ Timeout = <<>> /\ Now = set_timespec_from_ms(0)
    /\ handles = <<>> /\ fired = <<>> /\ cancelled = {}

now_timespec(tick) == set_timespec_from_ms(tick * TimerTick)
set_delay_from_now(tick, ms) == add_timespec(now_timespec(tick), set_timespec_from_ms(ms))

Tick ==
    /\ ticks < MaxTicks
    /\ ticks' = ticks + 1
    /\ UNCHANGED <<ActiveTimers, ExpireTimersSem, expirer, Timeout, Now, handles, fired, cancelled>>

TimerLockFree == expirer # "expiring"
InUse(h) == \E t \in Range(ActiveTimers) : t.handle = h

\* The clock is read before the lock is waited for: possibly a tick ago.
QueueTimerNoPost(read, ms, h) ==  \* Fault: the thread is not told.
    /\ ActiveTimers' = <<[handle |-> h, TimeExpired |-> set_delay_from_now(read, ms),
                          id |-> Len(handles) + 1]>> \o ActiveTimers
    /\ UNCHANGED ExpireTimersSem
QueueTimer(read, ms, h) ==
    /\ ActiveTimers' = <<[handle |-> h, TimeExpired |-> set_delay_from_now(read, ms),
                          id |-> Len(handles) + 1]>> \o ActiveTimers
    /\ ExpireTimersSem' = ExpireTimersSem + 1

QueueTimerCallback ==
    /\ TimerLockFree /\ Len(handles) < MaxTimers
    /\ \E read \in {ticks - 1, ticks} \cap Nat, ms \in TimerDelays, h \in TimerHandles :
          /\ ~InUse(h) /\ read * TimerTick + ms <= MaxTicks * TimerTick
          /\ QueueTimer(read, ms, h)
          /\ handles' = Append(handles, h)
    /\ UNCHANGED <<ticks, expirer, Timeout, Now, fired, cancelled>>

\* A client cancels a timer it has queued, by its handle; the list may hold a
\* newer timer at that address, or none.
At(h) == {t \in Range(ActiveTimers) : t.handle = h}

CancelTimerCallback ==
    /\ TimerLockFree
    /\ \E id \in DOMAIN handles :
          /\ ActiveTimers' = Sublist(ActiveTimers, Range(ActiveTimers) \ At(handles[id]))
          /\ cancelled' = cancelled \cup {t.id : t \in At(handles[id])}
    /\ UNCHANGED <<ticks, ExpireTimersSem, expirer, Timeout, Now, handles, fired>>

\* list::sort is stable: each timer comes behind those before it in the list
\* that are due no later.
SortedIn(timer, list) ==
    LET before == {t \in Range(list) : compare_timespec(timer.TimeExpired, t.TimeExpired) # -1}
    IN  Append(Sublist(list, before), timer) \o Sublist(list, Range(list) \ before)
Unsorted(timers) == timers  \* Fault: the list is not sorted again.
Sorted(timers) ==
    LET sorted[n \in 0 .. Len(timers)] ==
            IF n = 0 THEN <<>> ELSE SortedIn(timers[n], sorted[n - 1])
    IN  sorted[Len(timers)]

\* sem_wait or sem_timedwait returns.
WakeExpirer ==
    /\ expirer = "waiting"
    /\ \/ ExpireTimersSem > 0 /\ ExpireTimersSem' = ExpireTimersSem - 1
       \/ /\ ExpireTimersSem = 0 /\ Timeout # <<>>
          /\ compare_timespec(now_timespec(ticks), Head(Timeout)) >= 0
          /\ UNCHANGED ExpireTimersSem
    /\ expirer' = "woken"
    /\ UNCHANGED <<ticks, ActiveTimers, Timeout, Now, handles, fired, cancelled>>

\* The thread takes the lock; timers may have come and gone since it woke.
LockTimers ==
    /\ expirer = "woken"
    /\ Timeout' = <<>>
    /\ IF ActiveTimers = <<>> THEN expirer' = "waiting" /\ UNCHANGED <<ActiveTimers, Now>>
       ELSE /\ expirer' = "expiring"
            /\ ActiveTimers' = Sorted(ActiveTimers)
            /\ Now' = now_timespec(ticks)
    /\ UNCHANGED <<ticks, ExpireTimersSem, handles, fired, cancelled>>

Expired(t) == compare_timespec(Now, t.TimeExpired) >= 0

FireTimer ==
    /\ expirer = "expiring" /\ ActiveTimers # <<>> /\ Expired(Head(ActiveTimers))
    /\ ActiveTimers' = Tail(ActiveTimers)
    /\ fired' = Append(fired, Head(ActiveTimers).id)
    /\ UNCHANGED <<ticks, ExpireTimersSem, expirer, Timeout, Now, handles, cancelled>>

RestExpirer ==
    /\ expirer = "expiring"
    /\ \/ ActiveTimers = <<>> /\ UNCHANGED Timeout
       \/ /\ ActiveTimers # <<>> /\ ~Expired(Head(ActiveTimers))
          /\ Timeout' = <<Head(ActiveTimers).TimeExpired>>
    /\ expirer' = "waiting"
    /\ UNCHANGED <<ticks, ActiveTimers, ExpireTimersSem, Now, handles, fired, cancelled>>

ExpirerStep == WakeExpirer \/ LockTimers \/ FireTimer \/ RestExpirer
TimersNext == Tick \/ QueueTimerCallback \/ CancelTimerCallback \/ ExpirerStep

\* ExpireTimersThread: a timer is called when its time has come, and no timer
\* that is due earlier is still in the list then.
EarliestFirst ==
    [][\A t \in Range(ActiveTimers) : fired' = Append(fired, t.id) =>
          /\ Ms(t.TimeExpired) <= ticks * TimerTick
          /\ \A u \in Range(ActiveTimers) : Ms(t.TimeExpired) <= Ms(u.TimeExpired)]_timersVars

\* QueueTimerCallback, ExpireTimersThread: no timer is forgotten.  While the
\* thread waits, it has been posted or its wait ends before any timer is due.
TimersWatched ==
    expirer = "waiting" /\ ExpireTimersSem = 0 =>
        \A t \in Range(ActiveTimers) :
            Timeout # <<>> /\ Ms(Head(Timeout)) <= Ms(t.TimeExpired)

\* QueueTimerCallback, CancelTimerCallback, ExpireTimersThread: a timer that was
\* queued waits in the list, was called, once, or was cancelled, and only one of these.
TimersAccounted ==
    LET waiting == {t.id : t \in Range(ActiveTimers)}
    IN  /\ waiting \cup Range(fired) \cup cancelled = DOMAIN handles
        /\ waiting \cap Range(fired) = {} /\ waiting \cap cancelled = {}
        /\ Range(fired) \cap cancelled = {} /\ IsInjective(fired)

\* QueueTimerCallback, ExpireTimersThread: so every timer is called in the end,
\* unless a cancel removed it.
TimersExpire ==
    /\ [](TimersWatched /\ TimersAccounted)
    /\ \A id \in 1 .. MaxTimers : Len(handles) >= id ~> id \in Range(fired) \cup cancelled
=============================================================================
