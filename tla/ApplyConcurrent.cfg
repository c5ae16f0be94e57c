CONSTANTS
  Procs = {p1, p2}
  Txns = {t1, t2}
  N = 2
  Bytes <- MCBytes
  Capsules <- TwoCapsules
  InitialTargets <- MixedTrees
  WriterStates = {}
  d = d
  e = e
  Dirs <- MCDirs
  InitialDirs <- NoDirs
  FilePath <- MCFilePath
  DirPath <- MCDirPath
  Required <- RequiredNone
  RootDir = RootDir
  Absent = Absent
  Special = Special
  NoJournal = NoJournal
  NoTxn = NoTxn
  FaultPoints <- AllPoints
  MaxFaults = 0
  MaxWrites = 0
SPECIFICATION Spec
PROPERTIES NoForeignOverwrite
CHECK_DEADLOCK FALSE
