\* Four calls over two accounts: a chain of three behind a running task, and
\* two chains side by side.  The system stops when every call is over.
SPECIFICATION FairSpec
CONSTANTS
  Calls = {c1, c2, c3, c4}
  Keys = {k1, k2}
  NoKey = NoKey
  NoCall = NoCall
CHECK_DEADLOCK FALSE
INVARIANTS
  MutexInv
PROPERTIES
  ImplementsFifoLock
  EveryCallBegins
