\* Two clients compete for the slot; three connections may overlap.
SPECIFICATION Spec
CONSTANTS
  bridge = bridge
  probe = probe
  c1 = c1
  c2 = c2
  c3 = c3
  NoConn = NoConn
  Clients <- TwoClients
  Conns <- ThreeConns
  HardwareMotionEnabled = TRUE
SYMMETRY Symmetry
INVARIANTS TypeOK SingleClient ConnectedMeansSettled AnswerMatches
PROPERTY KeepsPromise
