\* One client that has the simulator to itself and adds its processes first.
\* It may wait for ever in Stop (see StopHangs.cfg), so the system may stop.
CONSTANTS
    Clients = {c1}
    Runs = {r1, r2}
    Commands = {"Start", "Pause", "Resume", "Step", "Stop", "Reset"}
    Load = 2
    MaxLoad = 2
    NoClient = NoClient
SPECIFICATION FairSpec
CHECK_DEADLOCK FALSE
INVARIANTS
    StoppedMeansExited
PROPERTIES
    ResetLeavesNothingBehind
    CompleteMeansDone
    StuckOnlyWithoutSignal
