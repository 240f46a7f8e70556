SPECIFICATION Spec
CONSTANTS
  Tasks = {t1, t2}
  Writers = {w1}
  Keys = {ann}
  NoUser = NoUser
  Arrs = {radarr}
  MediaServers = {}
  TTL = 2
  DegradedTTL = 1
  Timeout = 2
  NoEntry = NoEntry
  Idle = Idle
  Degraded = Degraded
  MaxVersion = 1
  MaxGen = 1
INVARIANT ReadYourWritesAcrossReload
