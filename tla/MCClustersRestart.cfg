SPECIFICATION RestartSpec
CONSTANTS
  Cluster = {c1}
  Policy = {}
  Pool = {q1}
  Name = {n1}
  NoName = NoName
  Token = {t1, t2}
  None = None
PROPERTY
  Settles
