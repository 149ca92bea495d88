CONSTANTS
  MaxCalls = 3
  ErrorCodes = {51}

SPECIFICATION FairSpec

INVARIANTS
  TypeOK
  AnswersOwnCall
  OnceInOrder
  FailureIsFinal
  PhantomOnlyAtEnd

PROPERTIES
  CallReturns
  ServerFollowsClient
