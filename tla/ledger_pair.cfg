\* Two tasks that compete for a recovery batch of one, nothing is applied late
\* and nobody else removes objects.
CONSTANTS
  Task = {t1, t2}
  Deleter = {d1, d2}
  RecoveryBatch = 1
  OutOfBand = {"replaced"}
  SlowRequests = FALSE
  LateEffects = FALSE
SPECIFICATION Spec
SYMMETRY Symmetry
INVARIANTS
  NoOrphan
  PresentIsStored
