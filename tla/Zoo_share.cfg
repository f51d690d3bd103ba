CONSTANTS
  Pans = {n1, n2}  Bumps = {b1}  Procs = {p1}  KeepActive = 1  CanCrash = TRUE
  Free = Free  Nobody = Nobody
SPECIFICATION FairSpec
INVARIANTS ZooTypeOK ZooInv Registered NoWaste
PROPERTIES RegisterImplemented AllLeave
