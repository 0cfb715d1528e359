\* One client, lists with guards, nested repeats and an edit.
CONSTANTS
    l1 = l1
    l2 = l2
    Null = Null
    Lists = {l1, l2}
    SegmentsOf <- ProgramLists
    Clients = {c1}
    Preempt = {}
    MaxQueue = 2
SPECIFICATION FairSpec
INVARIANTS
    ExecutesInRange
    RunOnlyBegun
    ExtensionsOwned
PROPERTIES
    CallsReturn
    EndReported
    StopObeyed
