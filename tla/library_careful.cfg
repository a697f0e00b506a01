SPECIFICATION Spec
CONSTANTS
  w1 = w1
  w2 = w2
  w3 = w3
  Core = core
  Dicts = {core, d1, d2, d3}
  Words = {w1, w2, w3}
  Names = {"n", "m"}
  NameOf <- SameName
  Null = null
  Liberties = {}
SYMMETRY Exchange
INVARIANTS TypeOK LinksAgree OneLibrary NothingLost FindsNewest
PROPERTIES KeepsOrder
