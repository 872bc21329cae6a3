SPECIFICATION FairSpec
CONSTANTS
  Db <- BothDbs
  Hooks <- AllHooks
  Requests <- Lines
VIEW View
INVARIANT TypeOK
INVARIANT OneWriter
INVARIANT NothingDroppedUnsound
PROPERTY SuccessIsWhole
PROPERTY ScrubbedBeforeServed
 
