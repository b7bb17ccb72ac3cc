SPECIFICATION FairSpec
CONSTANTS
  c1 = c1
  c2 = c2
  ka = ka
  kb = kb
  kc = kc
  Cat <- Cats
  Call <- BothCalls
  Threads <- TwoThreads
  Datum <- FiveEntries
  Owner <- FiveOwners
  Key <- FiveKeys
  Broken <- NoneBroken
  Weighted <- SecondCall
  Storages <- AllButMean
  Growth = TRUE
  Mergeable = TRUE
  Concurrent = TRUE
  InitAxis <- AxisWithC
INVARIANTS TypeOK NothingTwice ReturnedComplete AxisMatchesContent WeightedEntriesSpoilVariance
PROPERTIES SectionsAppearWhole BinsKept ImplementsFillSpec
