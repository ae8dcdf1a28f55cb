\* Two clients, each with room for one object of two units, use the same key, and
\* presets that are created, switched and re-read; re-reading them may fail.
CONSTANTS
  Preset = {p1, p2}
  DefaultKey = p1
  None = None
  Saver = {s1}
  MaxRevision = 1
  AliasRoute = TRUE
  LoadMayFail = TRUE
  Request = {r1, r2}
  Client = {c1, c2}
  Key = {k1}
  Size = {1, 3}
  MaxObjects = 1
  MaxBytes = 2
  Revivals = FALSE
SPECIFICATION Spec
SYMMETRY Symmetry
INVARIANTS
  IdempotentAnswers
  PresetHonoured
  QuotaHolds
