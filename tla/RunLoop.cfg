\* Two clients using every command, against up to two run goroutines.
\* A client may wait for ever in Stop (see StopHangs.cfg), so the system may stop.
CONSTANTS
    Clients = {c1, c2}
    Runs = {r1, r2}
    Commands = {"Start", "Pause", "Resume", "Step", "Stop", "Reset", "AddProcess"}
    Load = 1
    MaxLoad = 2
    NoClient = NoClient
SPECIFICATION Spec
CHECK_DEADLOCK FALSE
INVARIANTS
    TypeOK
    WaitGroupCountsRuns
    StepsAreSerialized
