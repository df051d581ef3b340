SPECIFICATION Spec
CONSTANTS
  SampleSets <- Samples
  NumCenters = 3
  RandomVectors = {0, 13}
  MaxIterations = 8
INVARIANT BoundsHold
INVARIANT ClosestAssigned
INVARIANT InertiaFalls
INVARIANT Converges
