SPECIFICATION Spec
CONSTANTS
  Part = {"a", "b", "c", "d"}
  Cluster <- PlainClusters
  Database <- PlainDatabases
  Attribute = {k}
  Value = {v1, v2}
  Request = {r1, r2}
  Absent = Absent
  Idle = Idle
SYMMETRY Interchangeable
CHECK_DEADLOCK FALSE
INVARIANTS
  TypeOK
  LookupIsFaithful
PROPERTIES
  MetadataOfOneObjectOnly
