\* Three connections from two addresses and two slots; a window of two seconds.
CONSTANTS
  Source = {lan, dmz}
  Request = {r1, r2, r3}
  Limit = 2
  Window = 4
  MaxSlots = 2
  BodyLimit = 1
  None = None
SPECIFICATION FairSpec
INVARIANTS SlotsKept WindowBound RetrySuffices
PROPERTY SlotComes
