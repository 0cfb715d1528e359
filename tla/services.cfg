CONSTANTS
    TimerHandles = {"p", "q"}
    TimerDelays <- Delays
    TimerTick = 600
    MaxTicks = 3
    MaxTimers = 3
    MaxWork = 3
    LastLogFile = 2
    MaxLogSize = 1
    MaxLogMsgs = 5
    MaxLogRestarts = 2
    EventObservers = {o1, o2}
    EventHandlers = {"h1", "h2"}
    EventData = {"d1", "d2"}
    MaxSubscribed = 3
    DataLength <- Lengths
    Writers = {"w1", "w2"}
    MaxWrites = 3
    MaxPurges = 1
    MaxWriteFaults = 1
    GpioConfigs <- Boards
    GpioCallbacks = {"c1", "c2"}
    MaxPolls = 3
    MaxLevelChanges = 2
SPECIFICATION Spec
INVARIANTS RaisesReachSubscribers  CallbacksCurrent
PROPERTIES EarliestFirst TimersExpire WorkRuns LogKeepsNewest
CHECK_DEADLOCK FALSE
