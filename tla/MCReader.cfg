CONSTANTS
  kasA = kasA
  kasB = kasB
  kasC = kasC
  kasP = kasP
  Calls = {1, 2, 3}
  Clients = {1, 2, 3}
  Deployments <- MCDeployments
  Servers = {kasA, kasB, kasC}
  platformKas = kasP
  PageSize = 1
  manifestMaxSize = 50
SPECIFICATION FairSpec
INVARIANTS
  ClosedIsFinal
  ObligationsAreCurrent
  AllowListComplete
  OverviewIsTrue
PROPERTY
  EveryCallEnds
CHECK_DEADLOCK FALSE
