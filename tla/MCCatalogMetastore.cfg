SPECIFICATION Spec
CONSTANTS
  c1 = c1
  n1 = n1
  u1 = u1
  nobody = nobody
  CatalogName = {c1}
  SchemaName = {"default", "main", "s"}
  Default = "default"
  Main = "main"
  Object <- MCObject
  Securable <- MCWithMetastore
  NamePart <- MCNamePart
  Principal = {u1}
  NoPrincipal = nobody
  Privilege = {"SELECT"}
  ChangeList <- MCChangeList
  MaxSaved = 2
INVARIANTS
  MetastoreInherited
