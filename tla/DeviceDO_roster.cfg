SPECIFICATION AwakeSpec

CONSTANTS
  Sockets = {s1}
  HttpReqs = {}
  SseReqs = {}
  Streams = {}
  Downloads = {}
  MaxPending = 1
  MaxStreams = 1
  MaxDownloads = 1
  Grace = 1
  Keepalive = 2
  RosterTtl = 1
  None = None
  s1 = s1

PROPERTIES
  SweptStaysSwept
