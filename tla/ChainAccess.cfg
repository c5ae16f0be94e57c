\* The chain commands of one user: identities, capsules, challenges, patches.
CONSTANTS
  FieldBits = 2
  Reduction = 3
  MaxShares = 3
  ShortPassphrases = {"short"}
  MinBackupThreshold = 2
  MaxBackupShares = 3
  MaxPrincipals = 3
  MinMemory = 8
  MaxMemory = 16
  MaxIterations = 2
  MinChallengeShards = 2
  MaxChallengeShards = 3
  MinDepth = 2
  MaxDepth = 3
  MaxContractBytes = 8
  BadHints = {"long"}
  Identity <- MCIdentity
  Members <- MCMembers
  CapsuleThreshold = 1
  NoBox = NoBox
  LF = "lf"
  CR = "cr"
  MaxSolutionBytes = 2
  MaxOperations = 2
  MalformedPointers = {}
  Index <- MCIndex
  Dash = "-"
  Null = "null"
  Secret <- MCSecret
  FirstPass = "first"
  Passphrases = {"first", "second", "short"}
  Generated = {1, 2}
  BackupOptions <- MCBackupOptions
  Creations <- MCCreations
  MaxGivenShares = 3
  SolutionFiles <- MCSolutionFiles
  Attempts <- MCAttempts
  KeyLists <- MCKeyLists
  Overrides = {"none", "q"}
  Patches <- MCPatches
  Targets <- MCTargets
  Budgets <- MCBudgets
  MaxFaults = 1
  MaxWrites = 2
  NoCommand = NoCommand
  Nothing = Nothing
  Absent = Absent
SPECIFICATION Spec
CHECK_DEADLOCK FALSE
INVARIANTS
  OpensExactly
  AwardsHonest
  RestoredIsSame
  PatchedOnPreviewed
