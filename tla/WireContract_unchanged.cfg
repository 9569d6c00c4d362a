SPECIFICATION WireSpec
CONSTANTS
  MAX_TEXT = 6
  MAX_NAME = 5
  MAX_LABELS = 2
  MAX_BATCH_ITEMS = 3
  MAX_OBJECTIVES = 2
  HASH_LENGTH = 2
  MAX_REMEMBERED = 2
  Inputs <- MCInputs
  LongTexts <- MCLongTexts
CHECK_DEADLOCK FALSE
INVARIANT UnchangedMeansUntouched
