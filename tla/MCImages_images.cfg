SPECIFICATION ImagesSpec
CONSTANTS
  Users = {a, b}
  Commits = {1, 2}
  GivenNames = {"v2"}
  TagsAt <- History
  Patterns = {}
  Keep = 1
  WithUntagged = TRUE
  MaxBuilds = 3
  MaxBegun = 2
VIEW View
SYMMETRY Interchangeable
CHECK_DEADLOCK FALSE
INVARIANT SettledIsOneBuild
PROPERTY CleaningSpares
