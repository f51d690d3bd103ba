SPECIFICATION FairSpec
CONSTANTS
    Tests = {t1, t2}
    Devs = {d1}
    Wants <- MCWants
    MaxTries = 2
    MaxDepth = 2
    None = None
    Tmpfs = Tmpfs
INVARIANTS EnvInv NothingLeft DeviceIsMine RestoredAlone
PROPERTY EveryTestEnds
