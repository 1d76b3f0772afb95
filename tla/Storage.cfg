SPECIFICATION StorageSpec
CONSTANTS
  NBlocks = 2
  Values = {0, 1}
  Slots = 4
  NLines = 2
  Contents = {"a", "b"}
  Backend = "FRAM"
  Backup <- BackupFile
INVARIANTS
  StorageTypeOK
  AcknowledgedIsKept
  CleanMeansStored
PROPERTIES
  LapsesHaveCauses
  DisarmedWritesSucceed
  MatchingCopyMeansStored
  QuietMeansStored
