\* Two requests beside the cycle; a day holds a little more than two polls.
SPECIFICATION Spec
CONSTANTS
  Daily = 20
  Share = 14
  Window = 3
  PageSize = 3
  MaxPart = 4
  Surplus = 1
  Cycle = Cycle
  Requests = {r1, r2}
  Nobody = Nobody
INVARIANTS
  DayInv
  PagePreviewsNeverRefused
PROPERTY
  BackfillLeavesTheRest
