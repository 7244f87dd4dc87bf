SPECIFICATION Spec

CONSTANTS
  Sockets = {s1, s2}
  HttpReqs = {h1}
  SseReqs = {m1, m2}
  Streams = {k1}
  Downloads = {}
  MaxPending = 1
  MaxStreams = 1
  MaxDownloads = 1
  Grace = 0
  Keepalive = 1
  RosterTtl = 1
  None = None
  h1 = h1
  k1 = k1
  m1 = m1
  m2 = m2
  s1 = s1
  s2 = s2

SYMMETRY Symmetry

INVARIANTS
  TypeOK
  PendingOnTunnel
  StreamsServed
  FailedOnlyByLoss

PROPERTIES
  SettledOnce
