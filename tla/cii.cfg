CONSTANTS
    c1 = c1
    c2 = c2
    Apps <- AllApps
    Clients = {c1, c2}
    MAX_STATUS_QUEUE_SIZE = 2
    Null = Null
SPECIFICATION Spec
INVARIANTS SessionsCounted AnswersInOrder RefsExact StatusesInOrder
PROPERTIES TornDown
CHECK_DEADLOCK FALSE
