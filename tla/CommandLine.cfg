SPECIFICATION Spec
CONSTANTS
  MAX_ARG_SIZE = 3
  MAX_TOKENS = 4
  MAX_INPUT_SIZE = 10
  MAX_FILENAME_SIZE = 1
  Letters = {"p", "g"}
  MaxText = 9
INVARIANTS
  ArgumentsAreWords
  SameTransfer
  WordsAreAnswered
CHECK_DEADLOCK FALSE
