SPECIFICATION Spec
CONSTANTS
  a1 = a1
  a2 = a2
  w1 = w1
  w2 = w2
  r1 = r1
  r2 = r2
  NoWorkspace = NoWorkspace
  Requests = {r1, r2}
  Accounts = {a1, a2}
  Workspaces = {w1, w2}
  AccountOf <- TwoAccounts
  DefaultOf <- TwoDefaults
  CredentialLimit = 1
  WorkspaceLimit = 1
  HourlyQuota = 1
  Window = 1
  Cooldown = 1
  QuotaCooldown = 2
  Waits = {2}
  ReloginInterval = 1
  MaxTime = 2
  MaxFaults = 1
  MaxEdits = 1
CONSTRAINT TwoAtATime
SYMMETRY FullSymmetry
INVARIANTS InferenceWithinLimits WindowWithinQuota
PROPERTIES HonoursBackoff CommitKeepsFresh PauseNeverShrinks
