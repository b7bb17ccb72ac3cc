SPECIFICATION UnpicklingSpec
CHECK_DEADLOCK FALSE
CONSTANTS
  Objects <- MCObjects
  Pieces <- MCPieces
  Main = "boost_histogram"
  Libraries <- MCLibraries
  NewTypes <- MCNewTypes
  Parents <- MCParents
  MaxClasses <- MCMaxClasses
  Watched <- MCWatched
  Files <- MCFiles
INVARIANTS LoadedAsSaved PartsComeBack OpensEveryGeneration
PROPERTIES UnpicklesAll OtherFamiliesUntouched
