SPECIFICATION FairSpec
CONSTANTS
  Tasks = {t1, t2}
  Writers = {w1}
  Keys = {ann}
  NoUser = NoUser
  Arrs = {radarr}
  MediaServers = {}
  TTL = 1
  DegradedTTL = 1
  Timeout = 1
  NoEntry = NoEntry
  Idle = Idle
  Degraded = Degraded
  MaxVersion = 1
  MaxGen = 1
PROPERTY EveryLoadSettles
