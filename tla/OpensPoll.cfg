SPECIFICATION FairSpec
CONSTANTS
  Hits = {h1, h2, h3}
  Worthy = {h1, h2}
  Devices = {d1}
  PageSize = 2
  MaxTime = 2
  MaxFails = 1
  MaxLapses = 1
INVARIANTS
  BacklogInv
  NoBuzzTwice
  NothingIsSkipped
PROPERTIES
  EveryOpenIsSent
