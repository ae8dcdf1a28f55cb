\* A request may still run when its row has passed the stale limit.
CONSTANTS
  Task = {t1}
  Deleter = {d1, d2}
  RecoveryBatch = 1
  OutOfBand = {}
  SlowRequests = TRUE
  LateEffects = FALSE
SPECIFICATION Spec
INVARIANT HasOwner
