\* A paused simulation stepped to its end, then stopped.
CONSTANTS
    Clients = {c1}
    Runs = {r1}
    Commands = {"Start", "Pause", "Step", "Stop"}
    Load = 2
    MaxLoad = 2
    NoClient = NoClient
SPECIFICATION FairSpec
CHECK_DEADLOCK FALSE
PROPERTIES
    CommandsReturn
