\* One connection, one simulator, two messages: init, and a start that Shutdown
\* does not wait for.
CONSTANTS
    Conns = {c1}
    MaxSims = 1
    Limits = {0}
    BufferSize = 1
    MaxMessages = 2
    Runs = {r1}
    Ticks = 1
SPECIFICATION Spec
CHECK_DEADLOCK FALSE
INVARIANT NoSendAfterClose
