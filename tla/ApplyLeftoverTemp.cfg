CONSTANTS
  Procs = {p1}
  Txns = {t1}
  N = 2
  Bytes <- MCBytes
  Capsules <- TwoNew
  InitialTargets <- OldAndNew
  WriterStates = {}
  d = d
  e = e
  Dirs <- MCDirs
  InitialDirs <- NoDirs
  FilePath <- MCFilePath
  DirPath <- MCDirPath
  Required <- RequiredDir
  RootDir = RootDir
  Absent = Absent
  Special = Special
  NoJournal = NoJournal
  NoTxn = NoTxn
  FaultPoints = {"persistCommitted", "rbRename"}
  MaxFaults = 2
  MaxWrites = 0
SPECIFICATION Spec
INVARIANTS RollbackNotRefused
CHECK_DEADLOCK FALSE
