CONSTANTS
  Signals = {"INT"}  Handled = {"ALRM", "INT", "TERM", "HUP", "USR1", "USR2"}
  KeepActive = 1  Pids = {p1}
  None = None  PanPid = PanPid
  Ncmd = 1  StartsOpt <- Unset  Timed = FALSE  Sequential = TRUE
  ForkInRoad = FALSE  HasBrakes = FALSE  TrackExit = TRUE
  Outcomes = {"pass", "conf", "fail", "exit130", "killed"}
  MaxSignals = 1  CanFail = FALSE  Bump = FALSE
SPECIFICATION FairSpec
PROPERTY SignalPropagated
