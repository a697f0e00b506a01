SPECIFICATION Spec
CONSTANTS
  Base = 5
  Full = 2
  Widths = {1, 2}
  Limit <- BranchLimit
  Size = 6
  RLimit = 2
  BitsOf <- BitsOfTwo
  Literals <- Some
  Vocabulary <- BranchWords
PROPERTIES ZeroIsFalse
