SPECIFICATION FairSpec
CONSTANTS
  Words = {"leaf", "mid", "top", "a", "b", "c", "f", "load"}
  Foreign = "ffi"
  Code <- CarefulCode
  Texts = {"none", "l1", "l2", "k1", "k2", "k3", "k4", "k5", "k6", "s1", "s2", "f1", "f2"}
  Text <- CarefulText
  EmptyText = "none"
  Files = {"file", "empty"}
  NoFile = "no file"
  File <- CarefulFile
  KeyLines = {"l1", "l2", "k1", "k2", "k3", "k4", "k5", "k6"}
  DebugLines <- CarefulDebug
  FrameCap = 3
  SourceCap = 3
INVARIANTS InOrder ContextPreserved ReadsOwnSource
CHECK_DEADLOCK FALSE
