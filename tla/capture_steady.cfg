SPECIFICATION Spec
CONSTANTS
  Port = {1, 3}
  Ip = {ip1, ip2}
  DstPort = {443}
  App = {svc, app, tgt}
  NoPid = NoPid
  HashSize = 2
  Self = svc
  Opaque = {}
  TargetPath = {tgt}
  TargetName = {tgt}
  Parent <- MCParent
  TreeDepth = 10
  RuleSets <- ProxyOrBlock
  NoConn = NoConn
  Miss = Miss
  TableLag = FALSE
  Reconfig = FALSE
  MaxConns = 1
  MaxOpens = 1
  svc = svc
  app = app
  tgt = tgt
  kid = kid
INVARIANTS
  OwnTrafficDirect
  OpenRelayedIsTracked
  RulesFollowed
CHECK_DEADLOCK FALSE
