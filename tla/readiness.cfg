\* Two storages that take turns as the default; a verdict holds for as long as
\* two probes are apart.
CONSTANTS
  Storage = {old, new}
  None = None
  Interval = 1
  MaxAge = 1
SPECIFICATION FairSpec
PROPERTIES OutageSeen ReadyAgain
