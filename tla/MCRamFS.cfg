SPECIFICATION FsSpec
CONSTANTS
  Archive <- MCArchive
  ArchiveLen = 1000
  MaxListed = 16
  FS_MAX_FILES = 4
  FS_MAX_DIRS = 2
  NameBuf = 4
  PoolSize = 20
  NewCapacity = 4
  Char <- MCChar
  Byte = {0, 1, 2, 3, 4}
  Modes = {420}
  Names <- MCNames
  Writes <- OddWrites
INVARIANTS
  BuffersDisjoint
  Imported
  FindsOwnName
PROPERTY
  ImplementsFileStore
