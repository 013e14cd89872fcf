SPECIFICATION FakeSpec
CONSTANTS
  w1 = w1  w2 = w2  w3 = w3  k1 = k1  k2 = k2
  None = None
  Jobs <- MCJobs
  Workers = {w1, w2, w3}
  Gens = {1}
  Legacy = {1}
  Keys = {k1, k2}
  TotalSteps = 1
  Faults = {"vanish", "raise"}
SYMMETRY Symmetry
INVARIANTS FakeJobsSound
PROPERTIES FakeStoreRefined
CHECK_DEADLOCK FALSE
