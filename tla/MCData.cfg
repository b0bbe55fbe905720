SPECIFICATION Spec
CONSTANTS
  Few = 7
  Grain = 3
  Inputs <- MCInputs
  Values <- MCValues
  Elements <- MCElements
  Tokens <- MCTokens
INVARIANTS
  GetsWhatIsThere
  MergesBoth
  DiffIsExact
  ManifestsComeBack
  PiecesCoverTheArea
  NamespacesAreApart
  ListedPathsWork
CHECK_DEADLOCK FALSE
