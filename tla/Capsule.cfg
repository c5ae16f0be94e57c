CONSTANTS
  Class <- MCClass
  V1 <- MCV1
  HeaderSize = 2
  TrailerSize = 2
  MaxTextBytes = 2
  NonUtf8 = {8}
  InvalidKeys = {}
  ShortPassphrases = {"short"}
  DevelopmentKey = "dev"
  SourcePaths <- MCSourcePaths
  SourceFiles <- MCSourceFiles
  RootFiles <- MCRootFiles
  Trees <- MCTrees
  Roots <- MCRoots
  MaxDepth = 1
  Keys = {"k1"}
  OtherKey = "other"
  Passphrases = {"p1", "short"}
  Channels = {"Production", "Development"}
  PackCommands <- MCPackCommands
  ZstdSizes <- MCZstdSizes
  TrustLists <- MCTrustLists
  ChannelArguments <- MCChannelArguments
  Absent = Absent
  Link = Link
  Foreign = Foreign
  Nothing = Nothing
  Forgeries <- MCForgeries
  MaxCommands = 4
  MaxDisturbances = 1
SPECIFICATION Spec
INVARIANTS ReleasedIsSigned PackedVerifies PublishedKeyUsable
PROPERTY OnlySignedIsWritten
CHECK_DEADLOCK FALSE
