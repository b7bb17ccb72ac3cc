SPECIFICATION Spec
CONSTANTS
  c1 = c1
  c2 = c2
  ka = ka
  kb = kb
  kc = kc
  Cat <- Cats
  Call <- BothCalls
  Threads <- OneThenThree
  Datum <- SixEntries
  Owner <- SixOwners
  Key <- SixKeys
  Broken <- NoneBroken
  Weighted <- SecondCall
  Storages <- CountOrMean
  Growth = TRUE
  Mergeable = TRUE
  Concurrent = FALSE
  InitAxis <- EmptyAxis
INVARIANTS AxesCurrent
