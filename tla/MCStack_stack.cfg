SPECIFICATION Spec
CONSTANTS
  Checkouts <- TwoCommits
  Modes = {"none", "read", "write", "both"}
  Kinds = {"up", "build", "down", "wipe", "manage", "configure", "stanza", "init"}
  CoBuilders = {"migrate"}
  MaxCommands = 2
VIEW View
INVARIANT TypeOK
INVARIANT UpRunsTheCheckout
INVARIANT VolumeWorkHasImage
INVARIANT StanzaWhereBackupsGo
