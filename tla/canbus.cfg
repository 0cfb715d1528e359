CONSTANTS
    Apps <- AllApps
    Nodes = {"a", "b", "c"}
    Threads = {"a1", "a2", "b1"}
    Broadcast = "all"
SPECIFICATION Spec
INVARIANTS AnswerIsOwn EntriesLive TimeoutNeedsLosses QuietWithoutFaults
PROPERTIES SendsReturn
CHECK_DEADLOCK FALSE
