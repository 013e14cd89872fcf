SPECIFICATION Spec
CONSTANTS
  w1 = w1  w2 = w2  j1 = j1  j2 = j2  k1 = k1
  None = None
  Workers = {w1, w2}
  Jobs = {j1, j2}
  Keys = {k1}
  Gens = {1, 2}
  Legacy = {1}
SYMMETRY Symmetry
INVARIANTS TypeOK OneShotPermit QueuedIsFresh CancelledUnsubmitted 
PROPERTIES TerminalIsFinal SubmissionResolvedOnce
CHECK_DEADLOCK FALSE
