SPECIFICATION FairSpec
CONSTANTS
  Words = {"leaf", "deep", "mid", "src"}
  Foreign = "ffi"
  Code <- AnyCode
  Texts = {"none", "k1", "k2", "k3", "k4", "k5", "s1", "f1"}
  Text <- AnyText
  EmptyText = "none"
  Files = {"file"}
  NoFile = "no file"
  File <- AnyFile
  KeyLines <- AnyKeys
  DebugLines <- AnyDebug
  FrameCap = 2
  SourceCap = 2
INVARIANTS TypeOK ControlInCode FailureStops
PROPERTIES UnwindPreserves Responsive
CHECK_DEADLOCK FALSE
