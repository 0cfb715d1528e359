\* A change of the delays of every input of a signal.
CONSTANTS
    r1 = r1
    Registrants = {r1}
    Null = Null
    DNE = DNE
    Junk = Junk
    SignalIds <- AllIds
    Apps <- EditApps
SPECIFICATION Spec
PROPERTY EditTakesEffect
CHECK_DEADLOCK FALSE
