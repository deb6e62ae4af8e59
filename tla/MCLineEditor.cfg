SPECIFICATION Spec
CONSTANTS
  Letters = {"s"}
  Blank = " "
  Terminator = "NUL"
  Commands <- TwoCommands
  PG_OFFSET = 2
  MaxSize = 4
  MaxHistory = 2
INVARIANTS TypeOK KeptWhileAbove TokensAreWords
PROPERTIES KeepsHistory KeysKeepScreen
