CONSTANTS
  Procs = {p1}
  Txns = {t1, t2}
  N = 2
  Bytes <- MCBytes
  Capsules <- TwoNew
  InitialTargets <- MixedTrees
  WriterStates = {}
  d = d
  e = e
  Dirs <- MCDirs
  InitialDirs <- NoDirs
  FilePath <- MCFilePath
  DirPath <- MCDirPath
  Required <- RequiredDir
  RootDir = RootDir
  Absent = Absent
  Special = Special
  NoJournal = NoJournal
  NoTxn = NoTxn
  FaultPoints <- RecoverablePoints
  MaxFaults = 2
  MaxWrites = 0
SPECIFICATION FairSpec
INVARIANTS RollbackNotRefused LeftoversInspectable
PROPERTIES RecoveryConverges
CHECK_DEADLOCK FALSE
