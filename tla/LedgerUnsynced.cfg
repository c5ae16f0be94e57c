CONSTANTS
  Procs = {p1, p2}
  r1 = r1
  r2 = r2
  r3 = r3
  r4 = r4
  limited = limited
  open = open
  Requests <- MCRequests
  Scopes <- MCScopes
  ScopeOf <- MCScopeOf
  Limit <- MCLimit
  NoLimit = NoLimit
  MaxRecords = 2
  NoFile = NoFile
  NoProc = NoProc
  Environments <- KillThenPowerLoss
  MaxFaults = 1
SPECIFICATION Spec
INVARIANTS GrantedIsDurable
