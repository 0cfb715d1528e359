\* An edit that is handled after the list came to its end.
CONSTANTS
    l1 = l1
    l2 = l2
    Null = Null
    Lists = {l1, l2}
    SegmentsOf <- SmallLists
    Clients = {c1}
    Preempt = {}
    MaxQueue = 2
SPECIFICATION Spec
INVARIANT ModifyFindsActive
