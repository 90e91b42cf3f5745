\* All ten algorithms on eighteen workloads of three processes.
CONSTANTS
    p1 = p1
    p2 = p2
    p3 = p3
    None = None
    Procs <- MCProcs
    Quantum = 2
    AgingInterval = 2
    FeedbackQuanta <- MCFeedbackQuanta
    QueueLevels = 2
    VRuntimeScale = 1048576
    Algorithms <- MCAlgorithms
    Workloads <- MCWorkloads
    MaxTime = 15
    LastAdd = 2
SPECIFICATION Spec
INVARIANTS
    TypeOK
    Placement
    ChartAccountsForTime
    CompletionTimesConsistent
    FinishesInTime
    IOBurstsInOrder
    QuantumRespected
    LevelsTrackLiveProcesses
    RoundRobinResponse
    WaitingTimeExactWithoutQuantum
    ScheduleIsTheScan
    EventsAccountForStates
    UpdateShowsEveryProcess
    MetricsConsistent
PROPERTIES
    NoVainPreemption
    NeverOutranked
    NonPreemptiveRunsOn
    ResetStartsOver
    IsWorkConserving
