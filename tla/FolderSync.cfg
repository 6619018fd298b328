\* One numbering: the inductive invariant and what rests on it.
SPECIFICATION Spec
CONSTANTS
  Window = 2
  PageSize = 2
  MaxUid = 4
  MaxValidity = 1
  MaxFailures = 1
  MayStartEmpty = TRUE
  MaxBurst = 2
  TornFirstPoll = FALSE
  TornFirstPage = FALSE
INVARIANTS
  PollInv
  NoGapAboveFloor
  DoneMeansWholeHistory
