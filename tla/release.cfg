\* An old and a new image, released in any order any number of times, and room
\* on the disk for less than they save.
CONSTANTS
  old = old
  new = new
  Image = {old, new}
  SchemaOf <- MCSchemaOf
  None = None
  Task = {t1}
  KeepReleases = 1
  KeepMigrations = 1
  MaxBytes = 2
  Sizes = {1, 4}
  MaxFiles = 2
SPECIFICATION SnapshotsSpec
INVARIANTS
  TasksKept
  OneProcess
  ReportHolds
  SnapshotAtHand
  RetentionHolds
PROPERTY BackInService
