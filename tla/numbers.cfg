SPECIFICATION NumbersSpec
CONSTANTS
  Base = 8
  Full = 2
  Widths = {1, 2}
  Limit <- Limits
  Size = 8
  RLimit = 2
  BitsOf <- BitsOfTwo
  Literals <- Number25
  Vocabulary <- AllWords
  Memories <- Arrays
  Leftovers <- Stale
  Returned <- Returns
  MaxWords = 1
INVARIANT TypeOK
PROPERTIES MovesCells DecidesByValue ReturnsCells RecutsBytes WrapsAtWidth OrdersByMode DividesAndShifts
CHECK_DEADLOCK FALSE
