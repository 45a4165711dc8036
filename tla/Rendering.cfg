\* A head that holds a HEIC with three properties, and every source.
SPECIFICATION RSpec
CONSTANTS
  None = None
  HeadSize = 18
  Header = 2
  LargeHeader = 4
  Skip = 1
  MaxEntry = 2
  Files <- Library
CHECK_DEADLOCK FALSE
INVARIANTS ReaderInv RightPicture Playable ShownUpright
