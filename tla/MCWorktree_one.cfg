CONSTANTS
  Process = {p}
  Slug <- MCSlug
  Env <- TwoEnvs
  Branch = {b1, b2}
  Project <- MCProject
  Origin <- MCOrigin
  ComposeOf <- MCCompose
  OriginOf <- MCOriginOf
  MainProjects <- Main
  RemoveModes <- AllModes
  MaxTip = 1
  None = None
  Broken = Broken
SPECIFICATION Spec
VIEW NamesView
SYMMETRY Branches
CHECK_DEADLOCK FALSE
INVARIANT TypeOK DistinctIdentity
INVARIANT NoSilentOrphan
PROPERTY WipeSparesOthers
