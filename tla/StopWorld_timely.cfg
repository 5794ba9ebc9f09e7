SPECIFICATION FairSpec
CONSTANTS
  t1 = t1
  t2 = t2
  t3 = t3
  None = None
  Thread <- ThreeThreads
  RetryChoices = {TRUE, FALSE}
  Timely = TRUE
  MaxStops = 2
  MaxLost = 1
INVARIANTS
  StoppedMeansStopped
  AcksBalanced
PROPERTIES
  EveryoneResumes
