\* One client and two connections: an abandoned one and its successor.
SPECIFICATION FairSpec
CONSTANTS
  bridge = bridge
  probe = probe
  c1 = c1
  c2 = c2
  c3 = c3
  NoConn = NoConn
  Clients <- OneClient
  Conns <- TwoConns
  HardwareMotionEnabled = TRUE
PROPERTY Reconnects
