SPECIFICATION FairSpec
CONSTANTS
  krb1 = krb1
  krb2 = krb2
  bas = bas
  Handler = {krb1, bas}
  Provider <- MCProvider
  MaxGateway = 2
  MaxAuth = 5
  RecvFails = TRUE
  NoToken = NoToken
INVARIANTS
  AttemptsBounded
  ContextsClosed
  HandlesBalanced
  BasicSentOnce
PROPERTIES
  EveryClientServed
CHECK_DEADLOCK FALSE
