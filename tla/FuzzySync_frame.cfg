CONSTANTS A = A  B = B
  IntMax = 2  ExecLoops = 3  MinSamples = 1  MaxResets = 2  FrameIntact = FALSE
SPECIFICATION Spec
INVARIANT RunsGivenFunction
