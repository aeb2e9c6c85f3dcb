SPECIFICATION Spec
CONSTANTS
  Port = {1}
  Ip = {ip1, ip2}
  DstPort = {443}
  App = {svc, app, tgt, kid}
  NoPid = NoPid
  HashSize = 2
  Self = svc
  Opaque = {kid}
  TargetPath = {tgt}
  TargetName = {tgt}
  Parent <- MCParent
  TreeDepth = 10
  RuleSets <- ProxyOrBlock
  NoConn = NoConn
  Miss = Miss
  TableLag = TRUE
  Reconfig = TRUE
  MaxConns = 2
  MaxOpens = 2
  svc = svc
  app = app
  tgt = tgt
  kid = kid
INVARIANTS
  OneEntryPerPort
  DirectIsUntracked
  CountExact
PROPERTIES
  KeepsItsWay
CHECK_DEADLOCK FALSE
