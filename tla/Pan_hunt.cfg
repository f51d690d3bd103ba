CONSTANTS
  Signals = {"HUP", "ALRM", "USR1", "INT"}  Handled = {"ALRM", "INT", "TERM", "HUP", "USR1", "USR2"}
  KeepActive = 1  Pids = {p1, p2}
  None = None  PanPid = PanPid
  Ncmd = 3  StartsOpt <- Unset  Timed = TRUE  Sequential = FALSE
  ForkInRoad = TRUE  HasBrakes = FALSE  TrackExit = FALSE
  Outcomes = {"fail"}
  MaxSignals = 2  CanFail = FALSE  Bump = TRUE
SPECIFICATION FairSpec
PROPERTY OrphansKilled
