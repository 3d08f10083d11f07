CONSTANTS
    NBackends = 2
    UsizeMax = 3
    MaxStray = 1
    MaxNotes = 1
SPECIFICATION Spec
INVARIANTS TypeOK PendingExact SelectionInRange
PROPERTIES AppFollows AnswerShows
CHECK_DEADLOCK FALSE
