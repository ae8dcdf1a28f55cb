\* A log with room for two records that are not audits, read two at a time.
CONSTANTS
  Task = {t1}
  None = None
  Reader = {r1}
  Limit = 2
  MaxRows = 2
  MaxMoves = 2
  MaxId = 5
SPECIFICATION Spec
INVARIANTS
  PagesComplete
  AuditTrue
PROPERTY LossesAllowed
