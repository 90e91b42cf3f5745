\* A process added between isComplete and the change of state.
CONSTANTS
    Clients = {c1}
    Runs = {r1}
    Commands = {"Start", "AddProcess"}
    Load = 2
    MaxLoad = 4
    NoClient = NoClient
SPECIFICATION Spec
CHECK_DEADLOCK FALSE
PROPERTIES
    CompleteMeansDone
