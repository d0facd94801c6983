SPECIFICATION Spec
CONSTANTS
  IdKey = IdKey
  DomKey = DomKey
  Ids = {a, b}
  Doms = {d}
  DefaultId = a
  Junk = Junk
  Other = Other
  Loopback = Loopback
  Localhost = Localhost
  NoFile = NoFile
  Missing = Missing
  MaxLines = 4
PROPERTY SetTakesEffect
