\* Two requests save, replace and switch configurations, each while the other
\* tests a connection, and old ones are purged, around the steps of an upload.
CONSTANTS
  Preset = {p1, p2}
  DefaultKey = p1
  None = None
  Saver = {s1, s2}
  MaxRevision = 3
  AliasRoute = FALSE
  LoadMayFail = FALSE
  Request = {r1}
  Client = {c1}
  Key = {}
  Size = {1}
  MaxObjects = 0
  MaxBytes = 0
  Revivals = FALSE
SPECIFICATION Spec
SYMMETRY Symmetry
INVARIANTS
  DefaultExists
  MemoryAgrees
  RevisionsSucceed
  ConfigKept
PROPERTY ResolvesCurrent
