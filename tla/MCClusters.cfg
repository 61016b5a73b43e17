SPECIFICATION FairSpec
CONSTANTS
  Cluster = {c1}
  Policy = {p1, p2}
  Pool = {q1}
  Name = {n1}
  NoName = NoName
  Token = {t1, t2, t3}
  None = None
INVARIANTS
  TransitionPending
  LatestRequestWins
  PolicyNamesUnique
PROPERTIES
  ReferencesKept
  Settles
