\* One client that only starts, resets and adds processes: nothing gets stuck.
CONSTANTS
    Clients = {c1}
    Runs = {r1, r2}
    Commands = {"Start", "Reset", "AddProcess"}
    Load = 2
    MaxLoad = 4
    NoClient = NoClient
SPECIFICATION FairSpec
PROPERTIES
    CommandsReturn
    RunningEnds
