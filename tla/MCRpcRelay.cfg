SPECIFICATION FairSpec
CONSTANTS
  none = none
  a1 = a1
  a2 = a2
  s1 = s1
  A = A
  B = B
  t1 = t1
  t2 = t2
  t3 = t3
  ZeroAddress = none
  Branches = {A, B}
  TxsOf <- MCTxsOf
  LogsOf <- MCLogsOf
  Watches <- MCWatches
  Direct <- MCDirect
  Rescans <- MCRescans
  Policies <- MCPolicies
  max_log_range = 2
  MaxWatches = 2
  MaxHeight = 3
  MaxUpsets = 2
  Configs <- MCConfigs
  MaxPerChain = 2
  Chain = 1
  kEscalationWindow = 3
  MaxTime = 5
  MaxMarks = 3
INVARIANTS OnlyFinal ClaimsVerify NoLogMissed ChosenIsRested
PROPERTIES CatchesUp
