SPECIFICATION Spec
CONSTANTS
  Procs = {p1, p2}
  Ids = {a, b}
  Doms = {}
  DefaultId = a
  Unset = Unset
  NoFile = NoFile
  Torn = Torn
SYMMETRY Symmetry
INVARIANTS
  TypeOK
  NoTornFile
  CleanRunAgrees
  RenameIsAnnounced
