SPECIFICATION ShellSpec
CONSTANTS
  Archives <- MCArchives
  NULL = NULL
  Handles = {h1, h2, h3}
  VFS_OPEN_FILES_LENGTH = 2
  Word = 4
  h1 = h1
  h2 = h2
  h3 = h3
  Banner <- MCBanner
  MESSAGE_SIZE = 2
  LINE_BUFFER_SIZE = 2
  ARGS_BUFFER_SIZE = 1
  CAT_BUFFER_SIZE = 1
  MaxLine = 4
  MaxOpens = 3
INVARIANTS
  LookupFindsLast
  HandlesExact
  ReadsInOrder
  BuffersInBounds
  CommandsGiveBack
  CatShowsFile
CHECK_DEADLOCK FALSE
