\* The server renumbers the folder once.
SPECIFICATION Spec
CONSTANTS
  Window = 2
  PageSize = 2
  MaxUid = 3
  MaxValidity = 2
  MaxFailures = 1
  MayStartEmpty = TRUE
  MaxBurst = 2
  TornFirstPoll = FALSE
  TornFirstPage = FALSE
INVARIANTS
  NewMailOnce
  StaleDoneIsRevoked
PROPERTY
  WalkRestartsOnlyIfRenumbered
