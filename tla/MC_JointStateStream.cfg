SPECIFICATION FairSpec
CONSTANTS
  Bridges = {bridge}
  Conns = {c1, c2}
  NoConn = NoConn
  MaxFailures = 2
  MaxNumber = 3
  MaxLines = 2
INVARIANTS TypeOK RegressionMeansRewind
PROPERTIES BeatIsBacked SilenceIsHeard
