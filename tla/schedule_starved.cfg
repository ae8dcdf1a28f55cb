\* As many uploads stay undecided as a pass takes.
CONSTANTS
  Task = {1, 2, 3, 4, 5}
  Uploads = {1, 2, 4}
  Stuck = {1, 2}
  BatchSize = 2
  Width = 2
SPECIFICATION FairSpec
PROPERTY BacklogProcessed
