CONSTANTS A = A  B = B
  IntMax = 2  ExecLoops = 3  MinSamples = 1  MaxResets = 2  FrameIntact = TRUE
SPECIFICATION FairSpec
INVARIANTS FuzzyInv RaceTogether Rendezvous SameIteration SpinsNotRaced
PROPERTIES RendezvousImplemented Terminates
