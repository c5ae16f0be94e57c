CONSTANTS
  Procs = {p1}
  Txns = {t1}
  N = 2
  Bytes <- MCBytes
  Capsules <- TwoNew
  InitialTargets <- AllTrees
  WriterStates <- ForeignStates
  d = d
  e = e
  Dirs <- MCDirs
  InitialDirs <- NoDirs
  FilePath <- MCFilePath
  DirPath <- MCDirPath
  Required <- RequiredOuter
  RootDir = RootDir
  Absent = Absent
  Special = Special
  NoJournal = NoJournal
  NoTxn = NoTxn
  FaultPoints <- AllPoints
  MaxFaults = 2
  MaxWrites = 2
SPECIFICATION Spec
INVARIANTS TypeOK OriginalRecoverable CommittedIsNew RolledBackIsOriginal PrefixShape
PROPERTIES NoForeignOverwrite RecordedDirectoriesGone
CHECK_DEADLOCK FALSE
