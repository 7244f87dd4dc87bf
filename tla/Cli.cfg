SPECIFICATION FairSpec

CONSTANTS
  x = x
  blank = blank
  d1 = d1
  d2 = d2
  p1 = p1
  p2 = p2
  Devices = {d1, d2}
  Values = {x, blank}
  Blank = blank
  None = None
  Procs = {p1, p2}
  MaxCommands = 3
  Torn = Torn
  Updaters = {p1, p2}
  Releases <- SomeReleases
  Original <- Day4
  MaxUpdates = 2
  NoRelease = NoRelease
  Calls = {1, 2}
  MaxAttempts = 2

SYMMETRY Symmetry

CHECK_DEADLOCK FALSE

INVARIANTS
  TypeOK
  InstalledIsGenuine
  LatestChosen
  AtMostOnce
  ToldTrue

PROPERTIES
  WritesAreAtomic
  OthersKept
  OnlyNewer
  BatchEnds
