SPECIFICATION Spec
CONSTANTS
  PAGE_SIZE = 2
  MaxFrames = 11
  LowFrames = 2
  MemMap <- MCMemMap
  KernelBase = 14
  KernelSpan = 3
  MaxKernelSize = 8
  PlaceholderSize = 4
  BitmapAddr = 40
  BitmapSize = 4
INVARIANTS
  HeldIsSafe
  NoFrameLost
PROPERTIES
  ImplementsAllocator
  ScanTerminates
