SPECIFICATION Spec
CONSTANTS
    Tests = {t1}
    Devs = {d1}
    Wants <- OnlyOverlay
    MaxTries = 2
    MaxDepth = 2
    None = None
    Tmpfs = Tmpfs
INVARIANT ConfRestored
