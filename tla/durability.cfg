\* Databases of every version with a task, two backups of them.
CONSTANTS
  t1 = t1
  c1 = c1
  Task = {t1}
  Client = {c1}
  Legacy = Legacy
  NoClient = NoClient
  NoRow = NoRow
  Broken = Broken
  Found <- MCFound
  Written <- MCWritten
  MaxFaults = 1
  Directory = {d1}
  MaxBackup = 2
SPECIFICATION FairSpec
INVARIANTS
  MigrationFaithful
  UpgradeCopied
  ServesOwned
  BackupsRestore
PROPERTIES
  UpgradeEnds
