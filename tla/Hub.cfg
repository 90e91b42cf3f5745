\* Two connections, with and without a limit of one client, three messages in
\* all, and a shutdown at any time.  The system may stop: Shutdown ends it.
CONSTANTS
    Conns = {c1, c2}
    MaxSims = 2
    Limits = {0, 1}
    BufferSize = 1
    MaxMessages = 3
    Runs = {r1, r2}
    Ticks = 1
SPECIFICATION Spec
CHECK_DEADLOCK FALSE
INVARIANTS
    TypeOK
    HandlersCounted
    ClientsAreServed
    ReplacedMeansStopped
    CompletionReachesClients
    ShutdownGetsOn
