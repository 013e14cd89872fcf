SPECIFICATION FairSpec
CONSTANTS
  Workers = {w1, w2}
  None = None
  Ttl = 2
INVARIANTS TypeOK RetainedAuthority
PROPERTIES NoResurrection SuccessorTakesOver LoserStops
