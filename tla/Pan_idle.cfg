CONSTANTS
  Signals = {"INT", "USR1"}  Handled = {"ALRM", "INT", "TERM", "HUP", "USR1", "USR2"}
  KeepActive = 2  Pids = {p1, p2, p3}
  None = None  PanPid = PanPid
  Ncmd = 3  StartsOpt = 3  Timed = FALSE  Sequential = FALSE
  ForkInRoad = TRUE  HasBrakes = FALSE  TrackExit = FALSE
  Outcomes = {"pass", "fail"}
  MaxSignals = 2  CanFail = FALSE  Bump = TRUE
SPECIFICATION Spec
SYMMETRY PidSymmetry
INVARIANTS PanInv
