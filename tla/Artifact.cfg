CONSTANTS
  Class <- MCClass
  HeaderSize = 2
  MaxDictionarySize = 1
  MinDictionarySamples = 2
  MinSampleSize = 4
  DictionaryPrefix = 4
  FilePaths <- MCFilePaths
  DirPaths <- MCDirPaths
  Suggestions <- MCSuggestions
  Overrides <- MCOverrides
  Options <- MCOptions
  ZstdSizes <- MCZstdSizes
  Dictionary <- MCDictionary
  HalfSize = 2
  Output = Output
  Absent = Absent
  Link = Link
  EmptyDir = EmptyDir
  Foreign = Foreign
  Nothing = Nothing
  Variants <- MCVariants
  MaxDisturbances = 2
SPECIFICATION Spec
INVARIANTS   DecodersAgree CommittedAsPreviewed
PROPERTIES NothingReplaced
CHECK_DEADLOCK FALSE
