CONSTANTS
  MaxAttempts = 2
  MaxWaits = 1
  MaxPolls = 3
SPECIFICATION FairSpec
INVARIANTS
  SuccessIsGenuine FailureIsOwn FlagsFollowLink
PROPERTIES
  ConnectReturns
