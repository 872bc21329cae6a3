SPECIFICATION KeysSpec
CONSTANTS
    Keys = {1, 2, 3}
    Duplicates = {1, 2}
    ReadModes = {TRUE, FALSE}
    MaxTasks = 4
INVARIANT SuccessIsUsable
INVARIANT ResticStaysReadable
INVARIANT NoBootstrapKeyLeft
CHECK_DEADLOCK FALSE
