SPECIFICATION Spec
CONSTANTS
  HookLimit = 1
  HookGrace = 0
  DaemonGrace = 1
  MaxByHand = 0
  None = None
INVARIANTS
  TypeOK
  StopIsClean
  SignalsOwn
  LastWord
PROPERTIES
  Returns
