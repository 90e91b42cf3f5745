\* Round robin, two-tick quantum: the incremental waiting time goes wrong.
CONSTANTS
    p1 = p1
    p2 = p2
    p3 = p3
    None = None
    Procs <- MCProcs
    Quantum = 2
    AgingInterval = 2
    FeedbackQuanta <- MCFeedbackQuanta
    QueueLevels = 2
    VRuntimeScale = 1048576
    Algorithms <- RoundRobinOnly
    Workloads <- MCWorkloads
    MaxTime = 15
    LastAdd = 2
SPECIFICATION Spec
INVARIANTS
    WaitingTimeExact
