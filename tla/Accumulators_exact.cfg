SPECIFICATION Spec
CONSTANTS
  Cells = {c1, c2}
  Values <- MCValues
  Weights = {1, 2}
  Factors <- MCFactors
  MaxOps = 5
INVARIANT MeanExact
INVARIANT WeightedMeanExact
INVARIANT CountsEffective
INVARIANT UnitWeightsAgree
INVARIANT ViewsAgree
CHECK_DEADLOCK FALSE
