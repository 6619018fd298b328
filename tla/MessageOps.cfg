\* One message among the newest: messages meet only in the cycle and in the lock,
\* which the theorems cover for every set of them.
SPECIFICATION FairSpec
CONSTANTS
  Uids = {1}
  Window = {1}
  Actors = {a1, a2}
  Openers = {o1}
  MaxActs = 2
  MaxOpens = 2
  MaxValidity = 2
  MaxTrouble = 2
INVARIANTS
  BodiesInv
  RowsTellTheTruth
PROPERTIES
  RowsCatchUp
