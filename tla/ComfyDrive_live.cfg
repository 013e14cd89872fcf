SPECIFICATION FairDriveSpec
CONSTANTS
  w1 = w1  w2 = w2  j1 = j1  j2 = j2  k1 = k1  k2 = k2
  None = None
  Workers = {w1, w2}
  Jobs = {j1}
  Keys = {k1}
  Gens = {1}
  Legacy = {}
  Foreign = {}
  Targeted = {}
PROPERTIES DriveTerminates
CHECK_DEADLOCK FALSE
