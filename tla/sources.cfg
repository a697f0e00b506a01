SPECIFICATION Spec
CONSTANTS
  Symbols <- SymbolsUsed
  Library <- Files
  Volumes <- Disks
  Strings <- Texts
  Lines <- Typed
  BufferSize = 12
  Capacity = 4
  Limit = 4
  MaxLines = 2
INVARIANTS TypeOK NothingSkipped CommentInSource
PROPERTIES EndsAtEnd LineEndKeepsStack Waits
CHECK_DEADLOCK FALSE
