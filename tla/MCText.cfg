CONSTANTS
  PathSize = 5
  FS_MAX_PATH = 6
  NameSize = 5
  Behind = 3
  SizeMod = 65536
  PathValues <- MCPathValues
  Commands <- MCCommands
  CdPaths <- MCCdPaths
  Entries <- MCEntries
SPECIFICATION TextSpec
INVARIANTS InBuffers VisitsFields
