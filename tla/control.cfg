\* Two clients against the engine thread, the queue's post as a step of its own.
CONSTANTS
    l1 = l1
    l2 = l2
    Null = Null
    Lists = {l1, l2}
    SegmentsOf <- ControlLists
    Clients = {c1, c2}
    Preempt = {c1}
    MaxQueue = 2
SPECIFICATION Spec
INVARIANTS
    TypeOK
    EndPending
    RunningListLocked
    OneReply
PROPERTIES
    RunsAsPromised
