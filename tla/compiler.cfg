SPECIFICATION Spec
CONSTANTS
  Ram = 60
  Cell = 2
  CfLimit = 3
  NameSize = 1
  WordSize = 2
  MessageSize = 1
  StringSize = 2
  Sizes = {1}
  MaxWords = 2
  MaxEffort = 7
  Vocabulary <- All
  Liberties = {}
  Closed = Closed
INVARIANTS TypeOK OpenInOwnCode SeesCode
PROPERTIES KeepsMeaning WritesNewest
CHECK_DEADLOCK FALSE
