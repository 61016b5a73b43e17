SPECIFICATION Spec
CONSTANTS
  Unused = Unused
  CacheSize = 2
  ChunkSize = 2
  PageSize = 1
  MaxStatements = 3
  MaxWarehouses = 1
  RowsOf <- MCRowsOf
  Spaces = {sales}
  Default = main
  Clients = {p1, p2}
  TreePaths <- MCTreePaths
  Layouts <- MCLayouts
  MaxHandles = 2
  MaxChanges = 2
  ObjectPaths <- MCObjectPaths
  MaxIds = 2
  Ids = {me, other}
  Names = {ann, bob}
  Members = {m}
  UserId = me
  UserName = ann
  NoName = noname
  Scopes <- MCScopes
  Results <- MCResults
  Exact = 4
  MaxRecords = 2
  Values = {"a", "b"}
  None = None
  Torn = Torn
  Services = {s1, s2}
  MaxVersion = 2
  MaxStarts = 2
  Tasks = {p1, p2}
  Callers = {p1, p2}
  NoTable = NoTable
SYMMETRY Alike
CHECK_DEADLOCK FALSE
INVARIANTS
  ReaderHasAll PagerSkipsNone  ObjectsIdentified  AlertsJudged
  RestoredWhole ChildrenAccounted SeedKeepsData
PROPERTIES
  NamespaceKept NothingLost SnapshotDurable
