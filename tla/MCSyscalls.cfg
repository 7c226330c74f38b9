SPECIFICATION Spec
CONSTANTS
  Archive <- MCArchive
  ArchiveLen = 1000
  MaxListed = 16
  FS_MAX_FILES = 3
  FS_MAX_DIRS = 2
  NameBuf = 4
  PoolSize = 8
  NewCapacity = 4
  Char <- MCChar
  Byte = {0, 1, 2, 3, 4}
  Modes = {420}
  Names <- MCNames
  Writes = {}
  MAX_FDS = 5
  AddrLimit = 16
  KERNEL_VMA_BASE = 12
  Mapped = {2, 3, 4, 5, 6, 7, 8}
  Writable = {5, 6, 7, 8}
  MaxIO = 2
  PathCopy = 5
  DirentSize = 2
  Pointers = {0, 2, 3, 7, 8, 11, 12, 15}
  Counts = {0, 1, 3}
  Keys = {0, 10, 13, 65}
INVARIANTS
  ReadsInOrder
  WithinRequest
  KernelSurvives
CHECK_DEADLOCK FALSE
