SPECIFICATION Spec
CONSTANTS
  Items = {a}
  Old = old
  Kinds = {"transfer", "seed"}
  BindSource = TRUE
  AsSuper = TRUE
  MaxCommands = 2
VIEW StateView
CHECK_DEADLOCK FALSE
INVARIANT TypeOK QuietRestore LeavesNothingBehind SuccessIsTheSource RowsHaveFiles
