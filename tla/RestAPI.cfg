\* Three requests, one or two at a time, a store for two records.
\* The system stops when the requests are over.
CONSTANTS
    Requests = {q1, q2, q3}
    Limits = {1, 2}
    Capacity = 2
SPECIFICATION Spec
CHECK_DEADLOCK FALSE
INVARIANTS
    TypeOK
    SlotsAreHeld
    SimulationsHoldSlots
    SavedOnceIffOK
    HistoryWindow
PROPERTIES
    EveryRequestEnds
