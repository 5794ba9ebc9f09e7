SPECIFICATION Spec
CONSTANTS
  t1 = t1
  t2 = t2
  t3 = t3
  None = None
  Thread <- ThreeThreads
  RetryChoices = {TRUE}
  Timely = FALSE
  MaxStops = 2
  MaxLost = 0
INVARIANTS
  StoppedMeansStopped
