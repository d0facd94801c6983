SPECIFICATION Spec
CONSTANTS
  a = a
  b = b
  g = g
  h = h
  Exp = {a, b}
  Profile = {}
  Base = Base
  Star = Star
  NoFile = NoFile
  Bad = Bad
  NotChosen = NotChosen
  MaxVersion = 1
  MaxArgs = 2
  Lists <- ListsOfTwo
  MaxMeddling = 1
INVARIANTS
  NobodyLeftOut
  NothingHalfDone
