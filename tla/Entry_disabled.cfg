SPECIFICATION EntrySpec

CONSTANTS
  d1 = d1
  v = v
  t1 = t1
  t2 = t2
  i1 = i1
  r1 = r1
  r2 = r2
  Devices = {d1, v}
  Virtual = {v}
  Tokens = {t1, t2}
  SharedToken = None
  Seed <- SeedOne
  VirtualSeed <- Empty
  Stored <- NewOrVirtual
  Isolates = {i1}
  Apis = {"relay", "files"}
  Requests = {r1}
  Ttl = 1
  Latency = 1
  MaxChanges = 1
  Faults = {}
  None = None
  k1 = k1
  k2 = k2
  Keys = {k1, k2}
  Window = 2
  Limit = 2
  MaxTime = 5
  NoBucket = NoBucket
  f1 = f1
  g1 = g1
  g2 = g2
  key = key
  Ids = {f1}
  Downloads = {g1, g2}
  FileKeys = {key}
  Open = Open
  Owner = Owner
  OwnerMax = 1
  BudgetUsd = 6
  StorageUsd = 2
  ClassAUsd = 1
  ClassBUsd = 1
  FreeBytes = 1
  FreeClassA = 1
  FreeClassB = 1
  MaxBytes = 2
  MaxOps = 4
  Months = 2

PROPERTIES
  DisabledTurnedAway
