SPECIFICATION Spec
CONSTANTS
  Clones = {a, b}
  Lines = {1, 2, 3}
  MaxBeta = 2
  MaxCommits = 5
  MaxCommands = 3
  MaxMoves = 2
  Meanwhile = FALSE
SYMMETRY Interchangeable
CHECK_DEADLOCK FALSE
INVARIANT ReleasesAreOnMain
INVARIANT SuccessIsPublished
