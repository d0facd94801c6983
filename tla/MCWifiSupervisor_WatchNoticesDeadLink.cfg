SPECIFICATION Spec
CONSTANTS
  ClientAttempts = 2
  ApRetry = 2
  LinkPoll = 1
PROPERTY WatchNoticesDeadLink
