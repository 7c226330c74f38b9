CONSTANTS
  Keys <- MCKeys
  MaxPending = 3
  SHELL_BUFSZ = 3
  Counts = {1, 3}
  KBUF = 2
  MaxTyped = 4
SPECIFICATION ConsoleSpec
INVARIANTS FlagsOfTheirTime TypedLine
CHECK_DEADLOCK FALSE
