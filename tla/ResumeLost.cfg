\* Pause and Resume between two ticks: the token of Resume is taken for a pause.
CONSTANTS
    Clients = {c1}
    Runs = {r1}
    Commands = {"Start", "Pause", "Resume"}
    Load = 2
    MaxLoad = 2
    NoClient = NoClient
SPECIFICATION FairSpec
CHECK_DEADLOCK FALSE
PROPERTIES
    RunningEnds
