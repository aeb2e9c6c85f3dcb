SPECIFICATION Spec
CONSTANTS
  Port = {1}
  Ip = {ip1, ip2}
  DstPort = {443}
  App = {svc, app}
  NoPid = NoPid
  HashSize = 2
  Self = svc
  Opaque = {}
  TargetPath = {}
  TargetName = {}
  Parent <- MCParent
  TreeDepth = 10
  RuleSets <- ProxyRule
  NoConn = NoConn
  Miss = Miss
  TableLag = FALSE
  Reconfig = FALSE
  MaxConns = 2
  MaxOpens = 1
  svc = svc
  app = app
  tgt = tgt
  kid = kid
INVARIANTS
  OpenRelayedIsTracked
CHECK_DEADLOCK FALSE
