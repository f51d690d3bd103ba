CONSTANTS
  Signals = {"INT"}  Handled = {"ALRM", "INT", "TERM", "HUP", "USR1", "USR2"}
  KeepActive = 2  Pids = {p1, p2}
  None = None  PanPid = PanPid
  Ncmd = 2  StartsOpt <- Unset  Timed = FALSE  Sequential = TRUE
  ForkInRoad = FALSE  HasBrakes = FALSE  TrackExit = TRUE
  Outcomes = {"pass", "conf", "fail", "exit130", "killed"}
  MaxSignals = 1  CanFail = FALSE  Bump = FALSE
SPECIFICATION Spec
SYMMETRY PidSymmetry
INVARIANTS AllDead
