SPECIFICATION Spec
CONSTANTS
  Accounts = {work, home}
  Threads = {th}
  Own = {me}
  Others = {bob}
  Limit = 1
  Grace = 1
  MaxNow = 2
  MaxEvents = 2
  MaxLater = 1
  None = None
INVARIANTS
  RepliedIsTrue
CHECK_DEADLOCK FALSE
