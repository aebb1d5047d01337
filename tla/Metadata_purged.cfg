SPECIFICATION Spec
CONSTANTS
  Part = {"a", "b", "c", "d"}
  Cluster <- PlainClusters
  Database <- PlainDatabases
  Attribute = {k}
  Value = {v}
  Request = {r1}
  Absent = Absent
  Idle = Idle
CHECK_DEADLOCK FALSE
PROPERTIES
  ConfiguredObjectsFound
