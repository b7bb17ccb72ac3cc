SPECIFICATION Spec
CONSTANTS
  h1 = h1
  h2 = h2
  h3 = h3
  h4 = h4
  NoCore = 0
  UserDict = 0
  NoLabel = "x"
  Handle <- Handles
  Core <- Cores
  Dict <- Dicts
  Label = {"x", "y"}
  Programs <- SoundPrograms
INVARIANTS TypeOK VarianceHonest LabelsLinked LabelsPrivate
SYMMETRY HandleSymmetry
