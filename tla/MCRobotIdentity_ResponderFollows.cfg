SPECIFICATION Spec
CONSTANTS
  Procs = {p1}
  Ids = {a, b}
  Doms = {}
  DefaultId = a
  Unset = Unset
  NoFile = NoFile
  Torn = Torn
INVARIANT ResponderFollows
