SPECIFICATION Spec
CONSTANTS
  a = a
  b = b
  g = g
  h = h
  Exp = {a}
  Profile = {g}
  Base = Base
  Star = Star
  NoFile = NoFile
  Bad = Bad
  NotChosen = NotChosen
  MaxVersion = 2
  MaxArgs = 2
  Lists <- ListsOfOne
  MaxMeddling = 1
INVARIANTS
  TypeOK
  Delivered
  StopMeansStop
PROPERTY
  NeverStale
