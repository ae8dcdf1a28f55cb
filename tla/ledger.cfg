\* One task in a bucket that others write to, behind a provider that may apply
\* what its client gave up.
CONSTANTS
  Task = {t1}
  Deleter = {d1, d2}
  RecoveryBatch = 1
  OutOfBand = {"replaced", "resized", "absent"}
  SlowRequests = FALSE
  LateEffects = TRUE
SPECIFICATION FairSpec
INVARIANTS
  HasOwner
  OneDeleter
  CreatedIsKept
  DeletedIsFinal
  CopyIsCurrent
  NoUpdateRefused
PROPERTIES
  ImplementsLifecycle
  UploadsSettle
  DeletionsSettle
