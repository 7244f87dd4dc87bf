SPECIFICATION FairAwakeSpec

CONSTANTS
  Sockets = {s1, s2}
  HttpReqs = {h1}
  SseReqs = {}
  Streams = {}
  Downloads = {d1}
  MaxPending = 1
  MaxStreams = 1
  MaxDownloads = 1
  Grace = 1
  Keepalive = 2
  RosterTtl = 1
  None = None
  d1 = d1
  h1 = h1
  s1 = s1
  s2 = s2

INVARIANTS
  SocketsCared

PROPERTIES
  FreshTunnelKept
  RequestsSettled
  SilentTunnelDropped
  LiveTunnelListed
  LostTunnelForgotten
