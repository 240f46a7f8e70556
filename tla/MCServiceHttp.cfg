SPECIFICATION Spec
CONSTANTS
  grimmory = grimmory
  reloaded = reloaded
  transmission = transmission
  r1 = r1
  r2 = r2
  r3 = r3
  Clients = {grimmory, reloaded}
  Requests = {r1, r2, r3}
  ClientOf <- LoginClientOf
  StrategyOf <- LoginStrategyOf
  Threshold = 2
  Cooldown = 1
  Lockout = 1
  NotOpen = NotOpen
  None = None
INVARIANTS
  TypeOK
  WritesSentOnce
  OpenOnlyWhenUnwell
  WrongPasswordBounded
  OneStrikeEach
SYMMETRY RequestSymmetry
