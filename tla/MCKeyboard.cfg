SPECIFICATION Spec
CONSTANTS
  Keys <- EveryKind
  MaxKeys = 3
INVARIANTS TypeOK DecodedInOrder SettingsAreKept
PROPERTIES BufferedKeysFollow MessageIsRead
CHECK_DEADLOCK FALSE
