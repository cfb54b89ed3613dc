SPECIFICATION DataSpec
CONSTANTS
  BackupIds <- MC_Backups
  Missing = Missing
  Damaged = Damaged
  Profiles <- MC_Profiles
  Configurations <- MC_Configurations
  Imported <- MC_Imported
  Ports = {1, 2}
  BackupMishaps = 2
  Texts = {t1, t2}
  Calls = {u1, u2}
  SyncMishaps = 2
  Connections <- MC_Connections
  Meta <- MC_Meta
  Controllers = {"a", "b"}
  Retentions = {1}
  LastMinute = 1
  RankLimit = 1
  MaxBytes = 2
  TrafficMishaps = 1
  Documents <- MC_Documents
  Chains <- MC_Chains
  SettingsValues <- MC_Settings
  KeyOrder <- MC_KeyOrder
  Splicing <- MC_Splicing
  Sources = {"s1", "s2", "s3"}
  Invalid = "invalid"
  Windows = {w1, w2}
  MaxPending = 2
  LastId = 5
  MaxGeneration = 2
  ServiceMishaps = 1
  Subscriptions = {"s"}
  Intervals = {3, 5}
  RetryBase = 2
  FirstInstant = 5
  LastInstant = 11
INVARIANTS
  RestoreIsWhole
  OldConfigurationIsKept
  CoreRunsRestored
  CopiesAgree
  PagesAgree
  CountedOnce
  RuntimeObeys
  RestIsKept
  OneImportAtATime
  ReadyIsWatched
  RegisteredHasFiles
  RetriesBackOff
CHECK_DEADLOCK FALSE
