\* The repository's test programs, and small applications with interleavings.
CONSTANTS
    r1 = r1
    Registrants = {r1}
    Null = Null
    DNE = DNE
    Junk = Junk
    SignalIds <- AllIds
    Apps <- AllApps
SPECIFICATION Spec
INVARIANTS
    
    DependenciesFirst
    AsTested
    
PROPERTIES
    RowsAreIdeal
    SyncedNotEarly
CHECK_DEADLOCK FALSE
