\* The first page of history fails between two upserts.
SPECIFICATION Spec
CONSTANTS
  Window = 2
  PageSize = 2
  MaxUid = 4
  MaxValidity = 1
  MaxFailures = 1
  MayStartEmpty = TRUE
  MaxBurst = 2
  TornFirstPoll = FALSE
  TornFirstPage = TRUE
INVARIANTS
  NoGapAboveFloor
