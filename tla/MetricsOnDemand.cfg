\* exec.h: interval 1000 ms, timeout 750 ms, stale_after 3000 ms, in half
\* seconds; the idle time of a GPU is 3 s, too.
CONSTANTS
    Interval = 2
    Timeout = 2
    StaleAfter = 6
    Rounds = 2
SPECIFICATION Spec
INVARIANTS
    ProcessesAreKilled
    PolledWhileWanted
PROPERTIES
    ValuesStay
    ReliableCommandsShow
    NothingRunsUnasked
