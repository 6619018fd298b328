\* More mail between two polls than the window holds.
SPECIFICATION Spec
CONSTANTS
  Window = 2
  PageSize = 2
  MaxUid = 4
  MaxValidity = 1
  MaxFailures = 1
  MayStartEmpty = TRUE
  MaxBurst = 3
  TornFirstPoll = FALSE
  TornFirstPage = FALSE
INVARIANTS
  NoGapAboveFloor
