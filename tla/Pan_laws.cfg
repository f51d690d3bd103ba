CONSTANTS
  Signals = {"INT", "USR2"}  Handled = {"ALRM", "INT", "TERM", "HUP", "USR1", "USR2"}
  KeepActive = 2  Pids = {p1, p2, p3}
  None = None  PanPid = PanPid
  Ncmd = 3  StartsOpt <- Unset  Timed = FALSE  Sequential = TRUE
  ForkInRoad = FALSE  HasBrakes = TRUE  TrackExit = TRUE
  Outcomes = {"pass", "conf", "fail", "exit130", "killed"}
  MaxSignals = 2  CanFail = TRUE  Bump = FALSE
SPECIFICATION Spec
SYMMETRY PidSymmetry
INVARIANTS PanInv ActiveLaw VerdictLaw ZooTracks CleanExit SlotAvailable FailureShows
PROPERTY BrakesHold
