SPECIFICATION Spec
CONSTANTS
  libm = libm
  libc = libc
  sin = sin
  puts = puts
  place1 = place1
  place2 = place2
  place3 = place3
  value1 = value1
  value2 = value2
  Objects = {libm, libc}
  Functions = {sin, puts}
  Exports <- InLibraries
  Missing = missing
  Addrs = {place1, place2, place3}
  None = None
  Wild = Wild
  Values = {value1, value2}
  Junk = Junk
  Effects <- Declared
  MaxArgs = 4
  Registers = 2
  Limit = 3
  Liberties = {}
  MaxWords = 2
  MaxEffort = 4
SYMMETRY Places
INVARIANTS TypeOK WordsAsDeclared
PROPERTIES NewestBinds PassesArguments
CHECK_DEADLOCK FALSE
