SPECIFICATION Spec
CONSTANTS
  ClientAttempts = 3
  ApRetry = 3
  LinkPoll = 1
INVARIANTS
  TypeOK
  RadioExclusive
  NoOrphans
  AddressIsOurs
  HookTells
PROPERTIES
  EarnedTransitions
  ImplementsService
  Settles
  Recovers
  Alternates
  HoldsAp
  CredentialsTakeEffect
CHECK_DEADLOCK TRUE
