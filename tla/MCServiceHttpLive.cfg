SPECIFICATION FairSpec
CONSTANTS
  grimmory = grimmory
  reloaded = reloaded
  transmission = transmission
  r1 = r1
  r2 = r2
  r3 = r3
  Clients = {grimmory, transmission}
  Requests = {r1, r2, r3}
  ClientOf <- MixedClientOf
  StrategyOf <- MixedStrategyOf
  Threshold = 2
  Cooldown = 1
  Lockout = 1
  NotOpen = NotOpen
  None = None
PROPERTIES
  EveryCallEnds
  AdmitsAgain
