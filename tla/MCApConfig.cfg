SPECIFICATION StatusSpec
CONSTANTS
  a = a
  b = b
  wide = wide
  ctl = ctl
  g = g
  h = h
  Ids <- RobotIds
  Char = {a, b, wide, ctl}
  Width <- Widths
  Control = {ctl}
  Address = {g, h}
  Malformed = Malformed
  Unset = Unset
  None = None
  DefaultSuffix <- Setup
  DefaultAddress = g
  SsidMaxBytes = 3
  PskMinChars = 2
  PskMaxChars = 3
  Confs <- Files
  MaxEdits = 1
INVARIANTS
  TypeOK
  OneConfiguration
  RightName
  NamesDiffer
  StatusAgrees
