SPECIFICATION FairSpec
CONSTANTS
  Accounts = {a1}
  MaxConns = 3
  MaxAttempt = 2
  MaxChains = 2
INVARIANTS
  StopInv
  DownloadKeepsItsConnection
  BackoffCountsFruitlessConnects
PROPERTIES
  DeadPeerIsNoticed
  ShutdownEnds
CHECK_DEADLOCK FALSE
