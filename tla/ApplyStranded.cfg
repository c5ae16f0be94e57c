CONSTANTS
  Procs = {p1}
  Txns = {t1}
  N = 2
  Bytes <- MCBytes
  Capsules <- TwoNew
  InitialTargets <- NonRegular
  WriterStates = {}
  d = d
  e = e
  Dirs <- MCDirs
  InitialDirs <- NoDirs
  FilePath <- MCFilePath
  DirPath <- MCDirPath
  Required <- RequiredDir
  RootDir = RootDir
  Absent = Absent
  Special = Special
  NoJournal = NoJournal
  NoTxn = NoTxn
  FaultPoints = {}
  MaxFaults = 0
  MaxWrites = 0
SPECIFICATION Spec
INVARIANTS LeftoversInspectable
CHECK_DEADLOCK FALSE
