CONSTANTS
  Candidates <- MCCandidates
  inodes <- MCInodes
  Data <- MCData
  Entries <- MCEntries
  BlockSize = 2
  Direct = 3
  FS_MAX_FILES = 3
  FS_MAX_PATH = 8
  ElfHeader = 6
  Chars <- MCChars
  Paths <- MCPaths
  Reads <- MCReads
  Fds = {3}
SPECIFICATION Spec
INVARIANTS InDirectory ListedIsFound ReadsTheFile
PROPERTY CdLeadsThere
CHECK_DEADLOCK FALSE
