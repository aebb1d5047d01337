SPECIFICATION Spec
CONSTANTS
  Part = {"a", "b", "c", "d"}
  Cluster <- HyphenClusters
  Database <- HyphenDatabases
  Attribute = {k}
  Value = {v}
  Request = {r1}
  Absent = Absent
  Idle = Idle
CHECK_DEADLOCK FALSE
PROPERTIES
  MetadataOfOneObjectOnly
