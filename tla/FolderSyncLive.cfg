\* Every message is stored in the end.
SPECIFICATION FairSpec
CONSTANTS
  Window = 1
  PageSize = 1
  MaxUid = 3
  MaxValidity = 1
  MaxFailures = 1
  MayStartEmpty = FALSE
  MaxBurst = 1
  TornFirstPoll = FALSE
  TornFirstPage = FALSE
PROPERTY
  EverythingIsStored
