CONSTANTS
  Typed <- MCTyped
  SHELL_BUFSZ = 6
  SHELL_MAX_ARGS = 2
  SHELL_MAX_ARG_LEN = 4
  Env <- MCEnv
SPECIFICATION FairLineSpec
INVARIANTS ArgumentsAreWords
PROPERTY LineIsExecuted
