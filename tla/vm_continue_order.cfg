SPECIFICATION Spec
CONSTANTS
  Words = {"fails"}
  Foreign = "ffi"
  Code <- DocCode
  Texts = {"none", "continue"}
  Text <- DocText
  EmptyText = "none"
  Files = {}
  NoFile = "no file"
  File <- NoFiles
  KeyLines = {"continue"}
  DebugLines <- DocDebug
  FrameCap = 3
  SourceCap = 2
INVARIANT InOrder
CHECK_DEADLOCK FALSE
