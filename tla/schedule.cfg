\* Two tasks stay undecided and a pass takes three.
CONSTANTS
  Task = {1, 2, 3, 4, 5}
  Uploads = {1, 2, 4}
  Stuck = {1, 3}
  BatchSize = 3
  Width = 2
SPECIFICATION FairSpec
PROPERTY BacklogProcessed
