SPECIFICATION FairSpec
CONSTANTS
  c1 = c1
  c2 = c2
  ka = ka
  kb = kb
  kc = kc
  Cat <- Cats
  Call <- BothCalls
  Threads <- OneThenThree
  Datum <- SixEntries
  Owner <- SixOwners
  Key <- SixKeys
  Broken <- UnequalSecond
  Weighted <- SecondCall
  Storages <- CountOrMean
  Growth = TRUE
  Mergeable = FALSE
  Concurrent = FALSE
  InitAxis <- EmptyAxis
INVARIANTS QuietAfterReturn DeadCountNothing
PROPERTIES FillTerminates
