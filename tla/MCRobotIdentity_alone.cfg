SPECIFICATION Spec
CONSTANTS
  Procs = {p1}
  Ids = {a, b}
  Doms = {d, e}
  DefaultId = a
  Unset = Unset
  NoFile = NoFile
  Torn = Torn
PROPERTY KeepsOtherKey
