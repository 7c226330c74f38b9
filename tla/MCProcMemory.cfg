SPECIFICATION Spec
CONSTANTS
  NFrames = 23
  LowFrames = 2
  Reserved = {0, 1, 5}
  KernelPml4 = 5
  NIdx = 2
  KernelHalf = 1
  KernelEntries = {1}
  PAGE_SIZE = 2
  StackBottom = 6
  StackTop = 7
  Programs <- MCPrograms
INVARIANTS
  FramesExclusive
  ImageLoaded
  ForkCopies
PROPERTIES
  NothingUnreachable
  FreeOnlyUnmapped
  Isolation
  KernelReturns
  ImplementsPageMap
CHECK_DEADLOCK FALSE
