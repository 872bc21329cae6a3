SPECIFICATION Spec
CONSTANTS
  Kinds <- AllKinds
  Completions <- WithOrWithout
  MaxVersion = 2
  MaxCommands = 3
VIEW View
CHECK_DEADLOCK FALSE
INVARIANT EnabledJobsAreWhole
INVARIANT RestartRunsTheInstall
INVARIANT AppNeverAhead
INVARIANT LogsAreCapped
