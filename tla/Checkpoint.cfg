SPECIFICATION FairSpec
CONSTANTS
    Procs = {p1, p2, p3}
    MaxFutexes = 1
    NrWakes = {1, 2}
    MsecTimeout = 2
    MaxCalls = 2
    MaxSignals = 1
INVARIANTS CheckpointInv WakeExact OneWakeEach GaveUpShort
PROPERTY EveryCallReturns
