CONSTANTS
  m1 = m1
  m2 = m2
  NoMethod = NoMethod
  Method <- MCMethod
  ServiceErrors <- MCServiceErrors
  MaxCalls = 3

SPECIFICATION FairSpec

INVARIANTS
  TypeOK
  ReplyAnswersCall
  AtMostOnceInOrder
  TruthfulError
  ClientPanicsOnlyOnError
  NoMutualWrite

PROPERTIES
  KeepsPromise
  CallReturns
  ServerFollowsClient
